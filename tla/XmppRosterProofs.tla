-------------------------- MODULE XmppRosterProofs --------------------------
(***************************************************************************)
(* The safety properties of XmppRoster, for every number of users, of      *)
(* logins and of messages: type correctness, IteratorStaysValid,           *)
(* EventsAreOfThisConnection, PresencesMatchRoster, and RosterIsCurrent.   *)
(*                                                                         *)
(* The argument is about order: the roster is the first stanza of a        *)
(* connection (WireOK), nothing is polled or announced before it           *)
(* (QuietOK), afterwards the presences that the application has still to   *)
(* poll lead from what it has seen to what the map says (FollowOK), and    *)
(* those on the wire from what the map says to the truth (CurrentOK).      *)
(***************************************************************************)
EXTENDS XmppRoster, WellFoundedInduction, SequenceTheorems, TLAPS

WireOK ==
  /\ conn \in {"none", "connecting"} => wire = <<>>
  /\ conn # "ready" => due = {}
  /\ conn = "auth" => wire # <<>> /\ wire[1].kind = "roster"
  /\ \A n \in 1..Len(wire) : wire[n].kind = "roster" => conn = "auth" /\ n = 1

\* From the start until the roster is loaded.
Quiet == conn \in {"connecting", "auth"} \/ handling

QuietOK ==
  /\ handling => conn = "ready"
  /\ iter # NoBroadcast => loaded
  /\ Quiet => /\ ~loaded
              /\ \A n \in 1..Len(mStateQueue) : mStateQueue[n] # "ROSTER_LOADED"
              /\ mPresenceQueue = <<>>
              /\ view = Unseen
  /\ handling => \A u \in Users : mRoster[u] \in {Invalid, Absent}

\* The status of u, seen by who polls q after having seen v.
Follows(u, q, v, status) ==
  /\ (\A n \in 1..Len(q) : q[n].user # u) => v[u] = status
  /\ \A n \in 1..Len(q) :
       q[n].user = u /\ (\A k \in n + 1..Len(q) : q[k].user # u) => q[n].status = status

FollowOK ==
  conn = "ready" /\ ~handling =>
    \A u \in Users : mRoster[u] # Absent => Follows(u, mPresenceQueue, view, mRoster[u])

IInv == TypeOK /\ WireOK /\ QuietOK /\ FollowOK

USE ConstantsAssumption
    DEF Users, GameEngine, Available, Unavailable, Invalid, Absent, Statuses, EndOfMap, NoBroadcast

-----------------------------------------------------------------------------
(* Facts about numbers, sequences and stanzas                              *)

\* The order of the natural numbers, as a relation, is well founded.
LEMMA NaturalOrder ==
  \E R : IsWellFoundedOn(R, Nat) /\ \A x, y \in Nat : <<x, y>> \in R <=> x < y
<1> DEFINE R == OpToRel(<, Nat)
<1>1. IsWellFoundedOn(R, Nat)
  BY NatLessThanWellFounded
<1>2. \A x, y \in Nat : <<x, y>> \in R <=> x < y
  BY DEF OpToRel
<1> HIDE DEF R
<1>3. QED
  BY <1>1, <1>2

\* Min is the least element of a set of natural numbers.
LEMMA MinOfNaturals ==
  ASSUME NEW S \in SUBSET Nat, S # {}
  PROVE  Min(S) \in S /\ \A y \in S : Min(S) <= y
<1>1. PICK R : /\ IsWellFoundedOn(R, Nat)
               /\ \A x, y \in Nat : (<<x, y>> \in R) <=> (x < y)
  BY NaturalOrder
<1>2. IsWellFoundedOn(R, Nat)
  BY <1>1
<1>3. S \subseteq Nat
  OBVIOUS
<1>4. \E x \in S : \A y \in S : ~ (<<y, x>> \in R)
  BY <1>2, <1>3, WFMin
<1>5. \E x \in S : \A y \in S : ~ (y < x)
  BY <1>1, <1>4
<1>6. \E x \in S : \A y \in S : x <= y
  BY <1>5
<1>7. QED
  BY <1>6 DEF Min

\* Polling one message moves it from the queue to what was polled.
LEMMA PollKeepsOrder ==
  ASSUME NEW S, NEW p \in Seq(S), NEW q \in Seq(S), q # <<>>
  PROVE  Append(p, Head(q)) \o Tail(q) = p \o q
<1>1. Head(q) \in S /\ Tail(q) \in Seq(S)
  BY HeadTailProperties
<1>2. Append(p, Head(q)) = p \o <<Head(q)>> /\ <<Head(q)>> \in Seq(S)
  BY <1>1, AppendIsConcat
<1>3. <<Head(q)>> \o Tail(q) = q
  BY <1>1
<1>4. (p \o <<Head(q)>>) \o Tail(q) = p \o (<<Head(q)>> \o Tail(q))
  BY <1>1, <1>2, ConcatAssociative
<1>5. QED
  BY <1>2, <1>3, <1>4

\* A message that arrives is the last to be polled.
LEMMA ArrivalKeepsOrder ==
  ASSUME NEW S, NEW p \in Seq(S), NEW q \in Seq(S), NEW e \in S
  PROVE  p \o Append(q, e) = Append(p \o q, e)
<1>1. Append(q, e) = q \o <<e>> /\ <<e>> \in Seq(S) /\ p \o q \in Seq(S)
  BY AppendIsConcat
<1>2. Append(p \o q, e) = (p \o q) \o <<e>>
  BY <1>1, AppendIsConcat
<1>3. (p \o q) \o <<e>> = p \o (q \o <<e>>)
  BY <1>1, ConcatAssociative
<1>4. QED
  BY <1>1, <1>2, <1>3

\* What the stanzas carry.
LEMMA StanzaTypes ==
  ASSUME NEW s \in Stanzas
  PROVE  /\ s.kind = "roster" => s.users \in SUBSET Users
         /\ s.kind \in {"presence", "push", "subscribe", "message"} => s.user \in Users
         /\ s.kind = "presence" => s.status \in Statuses
         /\ s.kind = "message" => s.number \in Nat
BY DEF Stanzas

LEMMA StanzasBuilt ==
  ASSUME NEW u \in Users
  PROVE  /\ \A s \in Statuses : Presence(u, s) \in Stanzas
         /\ Push(u) \in Stanzas /\ Subscribe(u) \in Stanzas
         /\ \A n \in Nat : Chat(u, n) \in Stanzas
BY DEF Stanzas, Presence, Push, Subscribe, Chat

\* An action that takes a stanza: it is of the kind, and the rest moves up.
LEMMA TakeOK ==
  ASSUME wire \in Seq(Stanzas), WireOK, NEW kind, Take(kind)
  PROVE  /\ ~handling
         /\ Head(wire) \in Stanzas /\ Head(wire).kind = kind
         /\ wire' \in Seq(Stanzas)
         /\ \A n \in 1..Len(wire') : wire'[n].kind # "roster"
         /\ conn = "auth" <=> kind = "roster"
         /\ conn \notin {"none", "connecting"}
<1>1. ~handling /\ wire # <<>> /\ Head(wire).kind = kind /\ wire' = Tail(wire)
  BY DEF Take
<1>2. Head(wire) \in Stanzas /\ wire' \in Seq(Stanzas)
  BY <1>1, HeadTailProperties
<1>3. Len(wire') = Len(wire) - 1 /\ \A n \in 1..Len(wire') : wire'[n] = wire[n + 1]
  BY <1>1, HeadTailProperties
<1>4. \A n \in 1..Len(wire') : wire'[n].kind # "roster"
  BY <1>3 DEF WireOK
<1>5. Len(wire) \in Nat \ {0} /\ Head(wire) = wire[1]
  BY <1>1
<1>6. conn = "auth" <=> kind = "roster"
  BY <1>1, <1>5 DEF WireOK
<1>7. conn \notin {"none", "connecting"}
  BY <1>1 DEF WireOK
<1>8. QED
  BY <1>1, <1>2, <1>4, <1>6, <1>7

\* A stanza that is no roster goes behind the others.
LEMMA SendOK ==
  ASSUME wire \in Seq(Stanzas), WireOK, NEW s \in Stanzas, s.kind # "roster",
         conn \in {"auth", "ready"}, wire' = Append(wire, s),
         conn' = conn, conn = "auth" => due' = {}
  PROVE  wire' \in Seq(Stanzas) /\ WireOK'
<1>1. wire' \in Seq(Stanzas) /\ Len(wire') = Len(wire) + 1 /\ wire' # <<>>
      /\ (\A n \in 1..Len(wire) : wire'[n] = wire[n]) /\ wire'[Len(wire) + 1] = s
  BY AppendProperties
<1>2. Len(wire) \in Nat /\ (wire # <<>> => Len(wire) > 0)
  OBVIOUS
<1>3. conn' = "auth" => wire'[1].kind = "roster"
  BY <1>1, <1>2 DEF WireOK
<1>4. \A n \in 1..Len(wire') : wire'[n].kind = "roster" => conn' = "auth" /\ n = 1
  BY <1>1, <1>2 DEF WireOK
<1>5. QED
  BY <1>1, <1>3, <1>4 DEF WireOK

-----------------------------------------------------------------------------
(* Types                                                                   *)

LEMMA InitOK == Init => IInv
<1> SUFFICES ASSUME Init PROVE IInv
  OBVIOUS
<1>1. TypeOK
  <2>1. /\ mRoster \in [Users -> Statuses \cup {Absent}]
        /\ view \in [Users -> Statuses]
        /\ online \in [Users -> SUBSET Resources]
    BY DEF Init, NoPeers, Unseen
  <2>2. /\ wire \in Seq(Stanzas)
        /\ mStateQueue \in Seq(States)
        /\ mPresenceQueue \in Seq([user : Users, status : Statuses])
        /\ mEventQueue \in Seq(Nat) /\ received \in Seq(Nat) /\ polled \in Seq(Nat)
    BY DEF Init
  <2>3. /\ contacts \subseteq Users /\ asked \subseteq Users /\ glooxRoster \subseteq Users
        /\ refill \subseteq Users /\ due \subseteq Users \X Resources
        /\ handling \in BOOLEAN /\ loaded \in BOOLEAN
        /\ conn \in {"none", "connecting", "auth", "ready"}
    BY DEF Init
  <2>4. /\ iter \in 0..EndOfMap
        /\ logins \in 0..MaxLogins /\ changes \in 0..MaxChanges /\ messages \in 0..MaxMessages
    BY DEF Init
  <2>5. QED
    BY <2>1, <2>2, <2>3, <2>4 DEF TypeOK
<1>2. WireOK /\ QuietOK /\ FollowOK
  BY DEF Init, WireOK, QuietOK, Quiet, FollowOK
<1>3. QED
  BY <1>1, <1>2 DEF IInv

ServerSteps ==
  \/ \E u \in Users, r \in Resources : ComeOnline(u, r) \/ GoOffline(u, r) \/ Announce(u, r)
  \/ \E u \in Users : AskUs(u) \/ AddContact(u) \/ MessageArrives(u)

ListenerSteps ==
  \/ LoginAccepted \/ LoginFails \/ ConnectionLost
  \/ HandleRoster \/ InsertPeer \/ RosterLoaded \/ HandlePush
  \/ HandleSubscriptionRequest \/ HandleRosterPresence \/ HandleMessage

AppSteps ==
  \/ StartInterface \/ StopInterface
  \/ GetNextStatusChange \/ GetNextPresenceEvent \/ GetNextEvent
  \/ BroadcastBegins \/ BroadcastNext

LEMMA ServerTypes ==
  ASSUME TypeOK, WireOK, QuietOK, ServerSteps
  PROVE  TypeOK' /\ WireOK' /\ QuietOK' /\ (FollowOK => FollowOK')
<1>1. /\ UNCHANGED <<listener, queues, app, received, logins>>
      /\ contacts' \subseteq Users /\ online' \in [Users -> SUBSET Resources]
      /\ asked' \subseteq Users /\ due' \subseteq Users \X Resources
      /\ changes' \in 0..MaxChanges /\ messages' \in 0..MaxMessages
      /\ conn # "ready" => due' = {}
      /\ \/ UNCHANGED wire
         \/ /\ conn \in {"auth", "ready"}
            /\ \E s \in Stanzas : s.kind # "roster" /\ wire' = Append(wire, s)
  <2> USE DEF TypeOK, counts
  <2>0. \A u \in Users : /\ \A s \in Statuses : Presence(u, s).kind = "presence"
                        /\ Push(u).kind = "push" /\ Subscribe(u).kind = "subscribe"
                        /\ \A n \in Nat : Chat(u, n).kind = "message"
    BY DEF Presence, Push, Subscribe, Chat
  <2>1. CASE \E u \in Users, r \in Resources : ComeOnline(u, r)
    <3>1. PICK u \in Users, r \in Resources : ComeOnline(u, r)
      BY <2>1
    <3>2. Presence(u, Available) \in Stanzas /\ Presence(u, Available).kind # "roster"
      BY <2>0, StanzasBuilt
    <3>3. changes' \in 0..MaxChanges /\ online' \in [Users -> SUBSET Resources]
      BY <3>1 DEF ComeOnline, Change
    <3>4. UNCHANGED wire \/ (conn = "ready" /\ wire' = Append(wire, Presence(u, Available)))
      BY <3>1 DEF ComeOnline, Told
    <3>5. QED
      BY <3>1, <3>2, <3>3, <3>4 DEF ComeOnline, WireOK
  <2>2. CASE \E u \in Users, r \in Resources : GoOffline(u, r)
    <3>1. PICK u \in Users, r \in Resources : GoOffline(u, r)
      BY <2>2
    <3>2. Presence(u, Unavailable) \in Stanzas /\ Presence(u, Unavailable).kind # "roster"
      BY <2>0, StanzasBuilt
    <3>3. changes' \in 0..MaxChanges /\ online' \in [Users -> SUBSET Resources]
          /\ due' \subseteq due
      BY <3>1 DEF GoOffline, Change
    <3>4. UNCHANGED wire \/ (conn = "ready" /\ wire' = Append(wire, Presence(u, Unavailable)))
      BY <3>1 DEF GoOffline, Told
    <3>5. conn # "ready" => due' = {}
      BY <3>3 DEF WireOK
    <3>6. QED
      BY <3>1, <3>2, <3>3, <3>4, <3>5 DEF GoOffline
  <2>3. CASE \E u \in Users, r \in Resources : Announce(u, r)
    BY <2>0, <2>3, StanzasBuilt DEF Announce, WireOK
  <2>4. CASE \E u \in Users : AskUs(u)
    <3>1. PICK u \in Users : AskUs(u)
      BY <2>4
    <3>2. Subscribe(u) \in Stanzas /\ Subscribe(u).kind # "roster"
      BY <2>0, StanzasBuilt
    <3>3. changes' \in 0..MaxChanges
      BY <3>1 DEF AskUs, Change
    <3>4. QED
      BY <3>1, <3>2, <3>3 DEF AskUs, WireOK, server
  <2>5. CASE \E u \in Users : AddContact(u)
    BY <2>0, <2>5, StanzasBuilt DEF AddContact, WireOK
  <2>6. CASE \E u \in Users : MessageArrives(u)
    <3>1. PICK u \in Users : MessageArrives(u)
      BY <2>6
    <3>2. Chat(u, messages + 1) \in Stanzas /\ Chat(u, messages + 1).kind # "roster"
      BY <2>0, StanzasBuilt
    <3>3. QED
      BY <3>1, <3>2 DEF MessageArrives, WireOK, server
  <2>7. QED
    BY <2>1, <2>2, <2>3, <2>4, <2>5, <2>6 DEF ServerSteps
<1>2. wire' \in Seq(Stanzas) /\ WireOK'
  <2>1. CASE UNCHANGED wire
    BY <1>1, <2>1 DEF TypeOK, WireOK, listener
  <2>2. CASE /\ conn \in {"auth", "ready"}
             /\ \E s \in Stanzas : s.kind # "roster" /\ wire' = Append(wire, s)
    <3>1. wire \in Seq(Stanzas) /\ conn' = conn /\ (conn = "auth" => due' = {})
      BY <1>1 DEF TypeOK, listener
    <3>2. QED
      BY <2>2, <3>1, SendOK
  <2>3. QED
    BY <1>1, <2>1, <2>2
<1>3. TypeOK'
  BY <1>1, <1>2 DEF TypeOK, listener, queues, app
<1>4. QuietOK'
  BY <1>1 DEF QuietOK, Quiet, listener, queues, app
<1>5. FollowOK => FollowOK'
  BY <1>1 DEF FollowOK, Follows, listener, queues, app
<1>6. QED
  BY <1>2, <1>3, <1>4, <1>5

-----------------------------------------------------------------------------
(* What polling follows                                                    *)

\* A presence that is announced is the last that the application will see.
LEMMA FollowsAppend ==
  ASSUME NEW q \in Seq([user : Users, status : Statuses]), NEW v, NEW u \in Users,
         NEW w \in Users, NEW s \in Statuses, NEW status, Follows(w, q, v, status)
  PROVE  Follows(w, Append(q, [user |-> u, status |-> s]), v, IF w = u THEN s ELSE status)
<1> DEFINE e == [user |-> u, status |-> s]
           p == Append(q, e)
<1>1. e \in [user : Users, status : Statuses] /\ e.user = u /\ e.status = s
  OBVIOUS
<1>2. Len(p) = Len(q) + 1 /\ (\A n \in 1..Len(q) : p[n] = q[n]) /\ p[Len(q) + 1] = e
  BY <1>1, AppendProperties
<1>3. Len(q) \in Nat
  OBVIOUS
<1> HIDE DEF e, p
<1>4. CASE w = u
  <2>1. ASSUME NEW n \in 1..Len(p), p[n].user = u, \A k \in n + 1..Len(p) : p[k].user # u
        PROVE  p[n].status = s
    <3>1. n = Len(q) + 1
      BY <1>1, <1>2, <1>3, <2>1
    <3>2. QED
      BY <1>1, <1>2, <3>1
  <2>2. ~ \A n \in 1..Len(p) : p[n].user # u
    BY <1>1, <1>2, <1>3
  <2>3. QED
    BY <1>4, <2>1, <2>2 DEF Follows, p, e
<1>5. CASE w # u
  <2>1. ASSUME \A n \in 1..Len(p) : p[n].user # w
        PROVE  v[w] = status
    <3>1. \A n \in 1..Len(q) : n \in 1..Len(p) /\ p[n] = q[n]
      BY <1>2, <1>3
    <3>2. \A n \in 1..Len(q) : q[n].user # w
      BY <2>1, <3>1
    <3>3. QED
      BY <3>2 DEF Follows
  <2>2. ASSUME NEW n \in 1..Len(p), p[n].user = w, \A k \in n + 1..Len(p) : p[k].user # w
        PROVE  p[n].status = status
    <3>1. n \in 1..Len(q)
      BY <1>1, <1>2, <1>3, <1>5, <2>2
    <3>2. q[n].user = w /\ \A k \in n + 1..Len(q) : q[k].user # w
      BY <1>2, <1>3, <2>2, <3>1
    <3>3. QED
      BY <1>2, <3>1, <3>2 DEF Follows
  <2>3. QED
    BY <1>5, <2>1, <2>2 DEF Follows, p, e
<1>6. QED
  BY <1>4, <1>5

\* Polling one presence moves it from the queue to what was seen.
LEMMA FollowsTail ==
  ASSUME NEW q \in Seq([user : Users, status : Statuses]), q # <<>>,
         NEW v \in [Users -> Statuses], NEW w \in Users, NEW status, Follows(w, q, v, status)
  PROVE  Follows(w, Tail(q), [v EXCEPT ![Head(q).user] = Head(q).status], status)
<1> DEFINE p == Tail(q)
           x == [v EXCEPT ![Head(q).user] = Head(q).status]
<1>1. Len(p) = Len(q) - 1 /\ \A n \in 1..Len(p) : p[n] = q[n + 1]
  BY HeadTailProperties
<1>2. Head(q) = q[1] /\ Head(q) \in [user : Users, status : Statuses]
  <2>1. Head(q) \in [user : Users, status : Statuses]
    BY HeadTailProperties
  <2>2. Head(q) = q[1]
    OBVIOUS
  <2>3. QED
    BY <2>1, <2>2
<1>3. Len(q) \in Nat \ {0}
  OBVIOUS
<1>4. x[w] = IF w = q[1].user THEN q[1].status ELSE v[w]
  BY <1>2
<1> HIDE DEF p, x
<1>5. ASSUME \A n \in 1..Len(p) : p[n].user # w
      PROVE  x[w] = status
  <2>1. \A k \in 2..Len(q) : q[k].user # w
    <3>1. ASSUME NEW k \in 2..Len(q) PROVE q[k].user # w
      <4>1. k - 1 \in 1..Len(p) /\ q[k] = p[k - 1]
        BY <1>1, <1>3
      <4>2. QED
        BY <1>5, <4>1
    <3>2. QED
      BY <3>1
  <2>2. CASE q[1].user = w
    BY <1>3, <1>4, <2>1, <2>2 DEF Follows
  <2>3. CASE q[1].user # w
    <3>1. \A n \in 1..Len(q) : q[n].user # w
      BY <1>3, <2>1, <2>3
    <3>2. QED
      BY <1>4, <2>3, <3>1 DEF Follows
  <2>4. QED
    BY <2>2, <2>3
<1>6. ASSUME NEW n \in 1..Len(p), p[n].user = w, \A k \in n + 1..Len(p) : p[k].user # w
      PROVE  p[n].status = status
  <2>1. n + 1 \in 1..Len(q) /\ q[n + 1] = p[n]
    BY <1>1, <1>3
  <2>2. ASSUME NEW k \in n + 1 + 1..Len(q) PROVE q[k].user # w
    <3>1. k - 1 \in n + 1..Len(p) /\ q[k] = p[k - 1]
      BY <1>1, <1>3
    <3>2. QED
      BY <1>6, <3>1
  <2>3. QED
    BY <1>6, <2>1, <2>2 DEF Follows
<1>7. QED
  BY <1>5, <1>6 DEF Follows, p, x

-----------------------------------------------------------------------------
(* The listener thread                                                     *)

\* Once the roster is there, every stanza that is taken leaves WireOK true.
LEMMA TakenOK ==
  ASSUME TypeOK, WireOK, NEW kind, Take(kind), conn' = "ready"
  PROVE  wire' \in Seq(Stanzas) /\ WireOK'
<1>1. wire \in Seq(Stanzas)
  BY DEF TypeOK
<1>2. wire' \in Seq(Stanzas) /\ \A n \in 1..Len(wire') : wire'[n].kind # "roster"
  BY <1>1, TakeOK
<1>3. QED
  BY <1>2 DEF WireOK

\* What a login reports goes behind the queue, and is not that the roster is loaded.
LEMMA LoginReportsOK ==
  ASSUME mStateQueue \in Seq(States), NEW state \in {"CONNECTED", "DISCONNECTED"},
         LoginReports(state)
  PROVE  /\ mStateQueue' \in Seq(States)
         /\ (\A n \in 1..Len(mStateQueue) : mStateQueue[n] # "ROSTER_LOADED")
              => \A n \in 1..Len(mStateQueue') : mStateQueue'[n] # "ROSTER_LOADED"
<1>1. PICK tls \in {<<>>, <<"TLS_CONNECTED">>} : mStateQueue' = mStateQueue \o Append(tls, state)
  BY DEF LoginReports
<1> DEFINE new == Append(tls, state)
<1>2. new \in Seq(States) /\ \A n \in 1..Len(new) : new[n] # "ROSTER_LOADED"
  <2>1. tls \in Seq(States) /\ \A n \in 1..Len(tls) : tls[n] = "TLS_CONNECTED"
    <3>1. CASE tls = <<>>
      BY <3>1
    <3>2. CASE tls = <<"TLS_CONNECTED">>
      BY <3>2 DEF States
    <3>3. QED
      BY <3>1, <3>2
  <2>2. state \in States /\ state # "ROSTER_LOADED"
    BY DEF States
  <2>3. /\ new \in Seq(States) /\ Len(new) = Len(tls) + 1 /\ new[Len(tls) + 1] = state
        /\ \A n \in 1..Len(tls) : new[n] = tls[n]
    BY <2>1, <2>2, AppendProperties
  <2>4. Len(tls) \in Nat
    BY <2>1
  <2> HIDE DEF new
  <2>5. QED
    BY <2>1, <2>2, <2>3, <2>4
<1> HIDE DEF new
<1>3. /\ mStateQueue' \in Seq(States)
      /\ Len(mStateQueue') = Len(mStateQueue) + Len(new)
      /\ \A n \in 1..Len(mStateQueue) + Len(new) :
           mStateQueue'[n] = IF n <= Len(mStateQueue) THEN mStateQueue[n]
                                                      ELSE new[n - Len(mStateQueue)]
  BY <1>1, <1>2, ConcatProperties DEF new
<1>4. Len(mStateQueue) \in Nat /\ Len(new) \in Nat
  BY <1>2
<1>5. ASSUME \A n \in 1..Len(mStateQueue) : mStateQueue[n] # "ROSTER_LOADED",
             NEW n \in 1..Len(mStateQueue')
      PROVE  mStateQueue'[n] # "ROSTER_LOADED"
  <2>1. CASE n <= Len(mStateQueue)
    BY <1>3, <1>4, <1>5, <2>1
  <2>2. CASE n > Len(mStateQueue)
    BY <1>2, <1>3, <1>4, <2>2
  <2>3. QED
    BY <1>3, <1>4, <2>1, <2>2
<1>6. QED
  BY <1>3, <1>5

LEMMA LoginAcceptedOK ==
  ASSUME IInv, LoginAccepted
  PROVE  IInv'
<1> USE DEF IInv, LoginAccepted
<1>1. FullRoster(contacts) \in Stanzas /\ FullRoster(contacts).kind = "roster"
  BY DEF TypeOK, FullRoster, Stanzas
<1>2. wire' \in Seq(Stanzas) /\ Len(wire') = 1 /\ wire'[1].kind = "roster" /\ wire' # <<>>
  BY <1>1
<1>3. /\ mStateQueue' \in Seq(States)
      /\ (\A n \in 1..Len(mStateQueue) : mStateQueue[n] # "ROSTER_LOADED")
           => \A n \in 1..Len(mStateQueue') : mStateQueue'[n] # "ROSTER_LOADED"
  BY LoginReportsOK DEF TypeOK
<1>4. TypeOK' /\ WireOK'
  BY <1>2, <1>3 DEF TypeOK, WireOK, server, app, counts
<1>5. QuietOK'
  BY <1>3 DEF QuietOK, Quiet, app
<1>6. FollowOK'
  BY DEF FollowOK
<1>7. QED
  BY <1>4, <1>5, <1>6

\* LoginFails and ConnectionLost.
LEMMA DisconnectedOK ==
  ASSUME IInv, LoginFails \/ ConnectionLost
  PROVE  IInv'
<1>1. /\ conn' = "none" /\ handling' = FALSE /\ wire' = <<>> /\ due' = {}
      /\ mStateQueue' \in Seq(States)
      /\ UNCHANGED <<contacts, online, asked, glooxRoster, refill, mRoster, mPresenceQueue,
                     mEventQueue, app, received, counts>>
  <2>1. CASE LoginFails
    BY <2>1, LoginReportsOK DEF IInv, TypeOK, WireOK, QuietOK, LoginFails, server
  <2>2. CASE ConnectionLost
    BY <2>2 DEF IInv, TypeOK, ConnectionLost, States
  <2>3. QED
    BY <2>1, <2>2
<1>2. TypeOK'
  <2>0. wire' \in Seq(Stanzas) /\ due' \subseteq Users \X Resources
    BY <1>1
  <2>1. conn' \in {"none", "connecting", "auth", "ready"} /\ handling' \in BOOLEAN
    BY <1>1
  <2>2. UNCHANGED <<contacts, online, asked, glooxRoster, refill, mRoster, mPresenceQueue,
                    mEventQueue, app, received, counts>>
    BY <1>1
  <2>3. QED
    BY <1>1, <2>0, <2>1, <2>2 DEF IInv, TypeOK, app, counts
<1>3. WireOK' /\ QuietOK' /\ FollowOK'
  BY <1>1 DEF IInv, WireOK, QuietOK, Quiet, FollowOK, app
<1>4. QED
  BY <1>2, <1>3 DEF IInv

LEMMA HandleRosterOK ==
  ASSUME IInv, HandleRoster
  PROVE  IInv'
<1> USE DEF IInv, HandleRoster
<1>1. wire \in Seq(Stanzas) /\ Take("roster")
  BY DEF TypeOK
<1>2. ~handling /\ conn = "auth" /\ Head(wire) \in Stanzas /\ Head(wire).kind = "roster"
  BY <1>1, TakeOK
<1>3. wire' \in Seq(Stanzas) /\ WireOK'
  BY <1>1, TakenOK
<1>4. Head(wire).users \in SUBSET Users
  BY <1>2, StanzaTypes
<1>5. due' \subseteq Users \X Resources
  BY DEF TypeOK
<1>6. mRoster' \in [Users -> Statuses \cup {Absent}] /\ \A u \in Users : mRoster'[u] = Absent
  BY DEF NoPeers
<1>7. TypeOK'
  BY <1>3, <1>4, <1>5, <1>6 DEF TypeOK, queues, app, counts
<1>8. QuietOK'
  BY <1>2, <1>6 DEF QuietOK, Quiet, queues, app
<1>9. FollowOK'
  BY DEF FollowOK
<1>10. QED
  BY <1>3, <1>7, <1>8, <1>9

LEMMA InsertPeerOK ==
  ASSUME IInv, InsertPeer
  PROVE  IInv'
<1> USE DEF IInv, InsertPeer
<1>1. Min(refill) \in Users
  <2>1. refill \in SUBSET Nat /\ refill # {} /\ refill \subseteq Users
    BY DEF TypeOK
  <2>2. QED
    BY <2>1, MinOfNaturals
<1>2. mRoster' \in [Users -> Statuses \cup {Absent}]
      /\ \A u \in Users : mRoster'[u] = mRoster[u] \/ mRoster'[u] = Invalid
  BY <1>1 DEF TypeOK
<1>3. refill' \subseteq Users
  BY DEF TypeOK
<1>4. TypeOK'
  BY <1>2, <1>3 DEF TypeOK, server, queues, app, counts
<1>5. WireOK'
  BY DEF WireOK, server
<1>6. QuietOK'
  BY <1>2 DEF QuietOK, Quiet, queues, app
<1>7. FollowOK'
  BY DEF FollowOK
<1>8. QED
  BY <1>4, <1>5, <1>6, <1>7

LEMMA RosterLoadedOK ==
  ASSUME IInv, RosterLoaded
  PROVE  IInv'
<1> USE DEF IInv, RosterLoaded
<1>1. mStateQueue' \in Seq(States) /\ asked' \subseteq Users
  BY DEF TypeOK, States
<1>2. TypeOK'
  BY <1>1 DEF TypeOK, app, counts
<1>3. WireOK'
  BY DEF WireOK
<1>4. QuietOK'
  BY DEF QuietOK, Quiet, app
<1>5. mPresenceQueue = <<>> /\ view = Unseen /\ \A u \in Users : mRoster[u] \in {Invalid, Absent}
  BY DEF QuietOK, Quiet
<1>6. \A u \in Users : mRoster[u] # Absent => Follows(u, mPresenceQueue, view, mRoster[u])
  BY <1>5 DEF Follows, Unseen
<1>7. FollowOK'
  BY <1>6 DEF FollowOK, app
<1>8. QED
  BY <1>2, <1>3, <1>4, <1>7

\* The stanzas that change no status of a peer in the map.
LEMMA OtherStanzasOK ==
  ASSUME IInv, HandlePush \/ HandleSubscriptionRequest \/ HandleMessage
  PROVE  IInv'
<1>0. PICK kind \in {"push", "subscribe", "message"} : Take(kind)
  BY DEF HandlePush, HandleSubscriptionRequest, HandleMessage
<1>1. wire \in Seq(Stanzas) /\ WireOK /\ TypeOK
  BY DEF IInv, TypeOK
<1>2. /\ conn = "ready" /\ ~handling /\ Head(wire) \in Stanzas /\ Head(wire).kind = kind
  BY <1>0, <1>1, TakeOK DEF TypeOK
<1>3. conn' = conn
  BY DEF HandlePush, HandleSubscriptionRequest, HandleMessage, listener
<1>4. wire' \in Seq(Stanzas) /\ WireOK'
  BY <1>0, <1>1, <1>2, <1>3, TakenOK
<1>5. Head(wire).user \in Users
  BY <1>2, StanzaTypes
<1>6. HandleMessage => Head(wire).number \in Nat
  BY <1>1, TakeOK, StanzaTypes DEF HandleMessage
<1>7. /\ UNCHANGED <<contacts, online, due, conn, handling, refill, mRoster, mStateQueue,
                     mPresenceQueue, app, counts>>
      /\ asked' \subseteq Users /\ glooxRoster' \subseteq Users
      /\ mEventQueue' \in Seq(Nat) /\ received' \in Seq(Nat)
  <2>1. CASE HandlePush
    BY <1>5, <2>1 DEF HandlePush, IInv, TypeOK, server, queues
  <2>2. CASE HandleSubscriptionRequest
    BY <1>5, <2>2 DEF HandleSubscriptionRequest, IInv, TypeOK, listener, queues
  <2>3. CASE HandleMessage
    BY <1>6, <2>3 DEF HandleMessage, IInv, TypeOK, server, listener
  <2>4. QED
    BY <2>1, <2>2, <2>3
<1>8. TypeOK'
  BY <1>4, <1>7 DEF IInv, TypeOK, app, counts
<1>9. QuietOK' /\ FollowOK'
  BY <1>7 DEF IInv, QuietOK, Quiet, FollowOK, app
<1>10. QED
  BY <1>4, <1>8, <1>9 DEF IInv

\* A presence changes the map and is announced in one step.
LEMMA HandleRosterPresenceOK ==
  ASSUME IInv, HandleRosterPresence
  PROVE  IInv'
<1> DEFINE u == Head(wire).user
           s == Head(wire).status
           e == [user |-> u, status |-> s]
<1>1. wire \in Seq(Stanzas) /\ WireOK /\ TypeOK /\ Take("presence")
  BY DEF IInv, TypeOK, HandleRosterPresence
<1>2. /\ conn = "ready" /\ ~handling /\ Head(wire) \in Stanzas /\ Head(wire).kind = "presence"
  BY <1>1, TakeOK DEF TypeOK
<1>3. conn' = "ready" /\ UNCHANGED <<server, conn, glooxRoster, handling, refill, mStateQueue,
                                      mEventQueue, app, received, counts>>
  BY <1>2 DEF HandleRosterPresence
<1>4. wire' \in Seq(Stanzas) /\ WireOK'
  BY <1>1, <1>3, TakenOK
<1>5. u \in Users /\ s \in Statuses
  BY <1>2, StanzaTypes
<1>6. \/ UNCHANGED <<mRoster, mPresenceQueue>>
      \/ /\ mRoster' = IF mRoster[u] = Absent THEN mRoster ELSE [mRoster EXCEPT ![u] = s]
         /\ mPresenceQueue' = Append(mPresenceQueue, e)
  BY DEF HandleRosterPresence
<1> HIDE DEF u, s
<1>7. mPresenceQueue \in Seq([user : Users, status : Statuses])
      /\ mRoster \in [Users -> Statuses \cup {Absent}]
  BY <1>1 DEF TypeOK
<1>8. mPresenceQueue' \in Seq([user : Users, status : Statuses])
  <2>1. e \in [user : Users, status : Statuses]
    BY <1>5
  <2> HIDE DEF e
  <2>2. Append(mPresenceQueue, e) \in Seq([user : Users, status : Statuses])
    BY <1>7, <2>1, AppendProperties
  <2>3. QED
    BY <1>6, <1>7, <2>2
<1>9. mRoster' \in [Users -> Statuses \cup {Absent}]
  BY <1>5, <1>6, <1>7
<1>10. TypeOK'
  BY <1>1, <1>3, <1>4, <1>8, <1>9 DEF TypeOK, server, app, counts
<1>11. QuietOK'
  BY <1>2, <1>3 DEF IInv, QuietOK, Quiet, app
<1>12. FollowOK'
  <2>1. CASE UNCHANGED <<mRoster, mPresenceQueue>>
    BY <1>3, <2>1 DEF IInv, FollowOK, app
  <2>2. CASE /\ mRoster' = IF mRoster[u] = Absent THEN mRoster ELSE [mRoster EXCEPT ![u] = s]
             /\ mPresenceQueue' = Append(mPresenceQueue, e)
    <3>1. ASSUME NEW w \in Users, mRoster'[w] # Absent
          PROVE  Follows(w, mPresenceQueue', view, mRoster'[w])
      <4>1. mRoster[w] # Absent /\ mRoster'[w] = IF w = u THEN s ELSE mRoster[w]
        BY <1>5, <1>7, <2>2, <3>1
      <4>2. Follows(w, mPresenceQueue, view, mRoster[w])
        BY <1>2, <4>1 DEF IInv, FollowOK
      <4>3. QED
        BY <1>5, <1>7, <2>2, <4>1, <4>2, FollowsAppend
    <3>2. view' = view
      BY <1>3 DEF app
    <3>3. QED
      BY <3>1, <3>2 DEF FollowOK
  <2>3. QED
    BY <1>6, <2>1, <2>2
<1>13. QED
  BY <1>4, <1>10, <1>11, <1>12 DEF IInv

-----------------------------------------------------------------------------
(* The application                                                         *)

LEMMA StartInterfaceOK ==
  ASSUME IInv, StartInterface
  PROVE  IInv'
<1> USE DEF IInv, StartInterface, Forget
<1>1. view' \in [Users -> Statuses]
  BY DEF Unseen
<1>2. TypeOK'
  <2>1. loaded' \in BOOLEAN /\ conn' \in {"none", "connecting", "auth", "ready"}
    OBVIOUS
  <2>2. /\ mStateQueue' \in Seq(States)
        /\ mPresenceQueue' \in Seq([user : Users, status : Statuses])
        /\ mEventQueue' \in Seq(Nat) /\ received' \in Seq(Nat) /\ polled' \in Seq(Nat)
    OBVIOUS
  <2>3. logins' \in 0..MaxLogins
    BY DEF TypeOK
  <2>4. UNCHANGED <<server, wire, glooxRoster, handling, refill, mRoster, iter, changes,
                    messages>>
    OBVIOUS
  <2>5. TypeOK
    OBVIOUS
  <2> HIDE DEF IInv, StartInterface, Forget
  <2>6. QED
    BY <1>1, <2>1, <2>2, <2>3, <2>4, <2>5 DEF TypeOK, server
<1>3. WireOK'
  BY DEF WireOK, server
<1>4. QuietOK'
  BY DEF QuietOK, Quiet
<1>5. FollowOK'
  BY DEF FollowOK
<1>6. QED
  BY <1>2, <1>3, <1>4, <1>5

LEMMA StopInterfaceOK ==
  ASSUME IInv, StopInterface
  PROVE  IInv'
<1> USE DEF IInv, StopInterface, Forget
<1>1. view' \in [Users -> Statuses] /\ mRoster' \in [Users -> Statuses \cup {Absent}]
  BY DEF Unseen, NoPeers
<1>2. TypeOK'
  <2>1. loaded' \in BOOLEAN /\ conn' \in {"none", "connecting", "auth", "ready"}
    OBVIOUS
  <2>2. /\ mStateQueue' \in Seq(States)
        /\ mPresenceQueue' \in Seq([user : Users, status : Statuses])
        /\ mEventQueue' \in Seq(Nat) /\ received' \in Seq(Nat) /\ polled' \in Seq(Nat)
        /\ wire' \in Seq(Stanzas)
    OBVIOUS
  <2>3. due' \subseteq Users \X Resources /\ glooxRoster' \subseteq Users
    OBVIOUS
  <2>4. UNCHANGED <<contacts, online, asked, handling, refill, iter, counts>>
    OBVIOUS
  <2>5. TypeOK
    OBVIOUS
  <2> HIDE DEF IInv, StopInterface, Forget
  <2>6. QED
    BY <1>1, <2>1, <2>2, <2>3, <2>4, <2>5 DEF TypeOK, counts
<1>3. WireOK'
  BY DEF WireOK
<1>4. QuietOK'
  BY DEF QuietOK, Quiet
<1>5. FollowOK'
  BY DEF FollowOK
<1>6. QED
  BY <1>2, <1>3, <1>4, <1>5

LEMMA GetNextStatusChangeOK ==
  ASSUME IInv, GetNextStatusChange
  PROVE  IInv'
<1> USE DEF IInv, GetNextStatusChange
<1>1. mStateQueue \in Seq(States) /\ mStateQueue # <<>>
  BY DEF TypeOK
<1>2. /\ mStateQueue' \in Seq(States)
      /\ Len(mStateQueue') = Len(mStateQueue) - 1
      /\ \A n \in 1..Len(mStateQueue') : mStateQueue'[n] = mStateQueue[n + 1]
  BY <1>1, HeadTailProperties
<1>3. Head(mStateQueue) = mStateQueue[1] /\ Len(mStateQueue) \in Nat \ {0}
  BY <1>1
<1>4. TypeOK'
  <2>1. loaded' \in BOOLEAN
    OBVIOUS
  <2>2. QED
    BY <1>2, <2>1 DEF TypeOK, server, listener, counts
<1>5. WireOK'
  BY DEF WireOK, server, listener
<1>6. QuietOK'
  <2>1. iter' = NoBroadcast /\ UNCHANGED <<conn, handling, view, mPresenceQueue, mRoster>>
    BY DEF listener
  <2>2. ASSUME Quiet
        PROVE  /\ ~loaded'
               /\ \A n \in 1..Len(mStateQueue') : mStateQueue'[n] # "ROSTER_LOADED"
    <3>1. ~loaded /\ \A n \in 1..Len(mStateQueue) : mStateQueue[n] # "ROSTER_LOADED"
      BY <2>2 DEF QuietOK
    <3>2. Head(mStateQueue) # "ROSTER_LOADED"
      BY <1>3, <3>1
    <3>3. ~loaded'
      BY <3>1, <3>2
    <3>4. \A n \in 1..Len(mStateQueue') : mStateQueue'[n] # "ROSTER_LOADED"
      BY <1>2, <1>3, <3>1
    <3>5. QED
      BY <3>3, <3>4
  <2>3. QED
    BY <2>1, <2>2 DEF QuietOK, Quiet
<1>7. FollowOK'
  BY DEF FollowOK, listener
<1>8. QED
  BY <1>4, <1>5, <1>6, <1>7

LEMMA GetNextPresenceEventOK ==
  ASSUME IInv, GetNextPresenceEvent
  PROVE  IInv'
<1> USE DEF IInv, GetNextPresenceEvent
<1>1. mPresenceQueue \in Seq([user : Users, status : Statuses]) /\ mPresenceQueue # <<>>
      /\ view \in [Users -> Statuses]
  BY DEF TypeOK
<1>2. Head(mPresenceQueue) \in [user : Users, status : Statuses]
      /\ mPresenceQueue' \in Seq([user : Users, status : Statuses])
  BY <1>1, HeadTailProperties
<1>3. view' \in [Users -> Statuses]
  BY <1>1, <1>2
<1>4. TypeOK'
  BY <1>2, <1>3 DEF TypeOK, server, listener, counts
<1>5. WireOK'
  BY DEF WireOK, server, listener
<1>6. ~Quiet
  BY DEF QuietOK
<1>7. QuietOK'
  BY <1>6 DEF QuietOK, Quiet, listener
<1>8. FollowOK'
  <2>1. ASSUME NEW u \in Users, Follows(u, mPresenceQueue, view, mRoster[u])
        PROVE  Follows(u, mPresenceQueue', view', mRoster[u])
    BY <1>1, <2>1, FollowsTail
  <2>2. QED
    BY <2>1 DEF FollowOK, listener
<1>9. QED
  BY <1>4, <1>5, <1>7, <1>8

\* Polling a message, and a broadcast.
LEMMA OtherAppStepsOK ==
  ASSUME IInv, GetNextEvent \/ BroadcastBegins \/ BroadcastNext
  PROVE  IInv'
<1>1. /\ UNCHANGED <<server, wire, listener, mStateQueue, mPresenceQueue, loaded, view,
                     received, counts>>
      /\ mEventQueue' \in Seq(Nat) /\ polled' \in Seq(Nat) /\ iter' \in 0..EndOfMap
      /\ iter' # NoBroadcast => loaded
  <2>1. CASE GetNextEvent
    <3>1. mEventQueue \in Seq(Nat) /\ mEventQueue # <<>> /\ polled \in Seq(Nat)
      BY <2>1 DEF GetNextEvent, IInv, TypeOK
    <3>2. mEventQueue' \in Seq(Nat) /\ polled' \in Seq(Nat)
      BY <2>1, <3>1, HeadTailProperties DEF GetNextEvent
    <3>3. QED
      BY <2>1, <3>2 DEF GetNextEvent, IInv, TypeOK, QuietOK
  <2>2. ASSUME NEW u \in Nat PROVE NextPeer(u) \in 0..EndOfMap
    <3> DEFINE S == {v \in Users : v > u /\ mRoster[v] # Absent} \cup {EndOfMap}
    <3>1. S \in SUBSET Nat /\ S # {} /\ S \subseteq 0..EndOfMap
      OBVIOUS
    <3>2. NextPeer(u) = Min(S)
      BY DEF NextPeer
    <3> HIDE DEF S
    <3>3. Min(S) \in S
      BY <3>1, MinOfNaturals
    <3>4. QED
      BY <3>1, <3>2, <3>3
  <2>3. CASE BroadcastBegins
    BY <2>2, <2>3 DEF BroadcastBegins, IInv, TypeOK, queues
  <2>4. CASE BroadcastNext
    <3>1. iter \in Nat
      BY DEF IInv, TypeOK
    <3>2. iter' \in 0..EndOfMap
      BY <2>2, <2>4, <3>1 DEF BroadcastNext
    <3>3. QED
      BY <2>4, <3>2 DEF BroadcastNext, IInv, TypeOK, QuietOK, queues
  <2>5. QED
    BY <2>1, <2>3, <2>4
<1>2. TypeOK'
  BY <1>1 DEF IInv, TypeOK, server, listener, counts
<1>3. WireOK'
  BY <1>1 DEF IInv, WireOK, server, listener
<1>4. QuietOK'
  BY <1>1 DEF IInv, QuietOK, Quiet, listener
<1>5. FollowOK'
  BY <1>1 DEF IInv, FollowOK, listener
<1>6. QED
  BY <1>2, <1>3, <1>4, <1>5 DEF IInv

-----------------------------------------------------------------------------
LEMMA NextOK == IInv /\ [Next]_vars => IInv'
<1> SUFFICES ASSUME IInv, [Next]_vars PROVE IInv'
  OBVIOUS
<1>1. CASE ServerSteps
  BY <1>1, ServerTypes DEF IInv
<1>2. CASE ListenerSteps
  BY <1>2, LoginAcceptedOK, DisconnectedOK, HandleRosterOK, InsertPeerOK, RosterLoadedOK,
     OtherStanzasOK, HandleRosterPresenceOK DEF ListenerSteps
<1>3. CASE AppSteps
  BY <1>3, StartInterfaceOK, StopInterfaceOK, GetNextStatusChangeOK, GetNextPresenceEventOK,
     OtherAppStepsOK DEF AppSteps
<1>4. CASE UNCHANGED vars
  <2>1. UNCHANGED <<server, wire, listener, queues, app, received, counts>>
    BY <1>4 DEF vars
  <2>2. TypeOK'
    BY <2>1 DEF IInv, TypeOK, server, listener, queues, app, counts
  <2>3. WireOK' /\ QuietOK' /\ FollowOK'
    BY <2>1 DEF IInv, WireOK, QuietOK, Quiet, FollowOK, server, listener, queues, app
  <2>4. QED
    BY <2>2, <2>3 DEF IInv
<1>5. QED
  BY <1>1, <1>2, <1>3, <1>4 DEF Next, ServerSteps, ListenerSteps, AppSteps

\* The strengthening of the properties below is inductive.
THEOREM Invariant == Spec => []IInv
<1>1. QED
  BY InitOK, NextOK, PTL DEF Spec

\* Type correctness; the iterator of a broadcast stays within the map and its end
\* (PluginInterface.mm:394-491, 564-578).
THEOREM TypeCorrect == Spec => []TypeOK
<1>1. IInv => TypeOK
  BY DEF IInv
<1>2. QED
  BY <1>1, Invariant, PTL

\* handleRoster never rebuilds the map under a broadcast of an application that waits
\* for ROSTER_LOADED (XmppClient.cpp:248-258, PluginInterface.mm:572).
THEOREM IteratorValid == Spec => []IteratorStaysValid
<1>1. IInv => IteratorStaysValid
  BY DEF IInv, QuietOK, Quiet, IteratorStaysValid
<1>2. QED
  BY <1>1, Invariant, PTL

\* Who polls all presence events since the last start knows every status in the map
\* (XmppClient.cpp:285-306, PluginInterface.mm:523-536).
THEOREM PresencesFollowed == Spec => []PresencesMatchRoster
<1>1. ASSUME IInv, conn = "ready", ~handling, mPresenceQueue = <<>>, NEW u \in Users,
             mRoster[u] # Absent
      PROVE  view[u] = mRoster[u]
  <2>1. Follows(u, mPresenceQueue, view, mRoster[u])
    BY <1>1 DEF IInv, FollowOK
  <2>2. \A n \in 1..Len(mPresenceQueue) : mPresenceQueue[n].user # u
    BY <1>1
  <2>3. QED
    BY <2>1, <2>2 DEF Follows
<1>2. IInv => PresencesMatchRoster
  BY <1>1 DEF PresencesMatchRoster
<1>3. QED
  BY <1>2, Invariant, PTL

\* The messages polled since the last start are those that arrived since, in order
\* (XmppClient.cpp:71, 215-236; PluginInterface.mm:495-513).
THEOREM EventsInOrder == Spec => []EventsAreOfThisConnection
<1>1. Init => EventsAreOfThisConnection
  BY DEF Init, EventsAreOfThisConnection
<1>2. IInv /\ EventsAreOfThisConnection /\ [Next]_vars => EventsAreOfThisConnection'
  <2> SUFFICES ASSUME IInv, EventsAreOfThisConnection, [Next]_vars
               PROVE  EventsAreOfThisConnection'
    OBVIOUS
  <2>1. polled \in Seq(Nat) /\ mEventQueue \in Seq(Nat) /\ wire \in Seq(Stanzas) /\ WireOK
    BY DEF IInv, TypeOK
  <2>2. CASE HandleMessage
    <3>1. Head(wire) \in Stanzas /\ Head(wire).kind = "message"
      BY <2>1, <2>2, TakeOK DEF HandleMessage
    <3>2. Head(wire).number \in Nat
      BY <3>1, StanzaTypes
    <3>3. polled \o Append(mEventQueue, Head(wire).number)
          = Append(polled \o mEventQueue, Head(wire).number)
      BY <2>1, <3>2, ArrivalKeepsOrder
    <3>4. /\ polled' = polled
          /\ mEventQueue' = Append(mEventQueue, Head(wire).number)
          /\ received' = Append(received, Head(wire).number)
      BY <2>2 DEF HandleMessage, app
    <3>5. QED
      BY <3>3, <3>4 DEF EventsAreOfThisConnection
  <2>3. CASE GetNextEvent
    BY <2>1, <2>3, PollKeepsOrder DEF GetNextEvent, EventsAreOfThisConnection
  <2>4. CASE StartInterface \/ StopInterface
    <3>1. polled' = <<>> /\ mEventQueue' = <<>> /\ received' = <<>>
      BY <2>4 DEF StartInterface, StopInterface, Forget
    <3>2. QED
      BY <3>1 DEF EventsAreOfThisConnection
  <2>5. CASE UNCHANGED <<polled, mEventQueue, received>>
    BY <2>5 DEF EventsAreOfThisConnection
  <2>6. ServerSteps \/ UNCHANGED vars => UNCHANGED <<polled, mEventQueue, received>>
    BY DEF ServerSteps, ComeOnline, GoOffline, Announce, AskUs, AddContact, MessageArrives, queues,
           app, vars
  <2>7. ListenerSteps => HandleMessage \/ UNCHANGED <<polled, mEventQueue, received>>
    BY DEF ListenerSteps, LoginAccepted, LoginFails, ConnectionLost, HandleRoster, InsertPeer,
           RosterLoaded, HandlePush, HandleSubscriptionRequest, HandleRosterPresence, queues, app
  <2>8. AppSteps => \/ StartInterface \/ StopInterface \/ GetNextEvent
                    \/ UNCHANGED <<polled, mEventQueue, received>>
    BY DEF AppSteps, GetNextStatusChange, GetNextPresenceEvent, BroadcastBegins, BroadcastNext,
           queues
  <2>9. QED
    BY <2>2, <2>3, <2>4, <2>5, <2>6, <2>7, <2>8 DEF Next, ServerSteps, ListenerSteps, AppSteps
<1>3. QED
  BY <1>1, <1>2, Invariant, PTL DEF Spec

-----------------------------------------------------------------------------
(* The map tells the truth                                                 *)

OneDevice == \E r \in Resources : Resources = {r}

\* A device of u of which the Client has been told.
Here(u) == \E r \in online[u] : <<u, r>> \notin due

\* The statuses that say no more than the truth about u, and, of a user with one
\* device, all of it.
Right(u) ==
  {s \in Statuses \cup {Absent} : /\ Connected(s) => Here(u)
                                  /\ OneDevice /\ Here(u) => Connected(s)}

PresenceOf(u, stanza) == stanza.kind = "presence" /\ stanza.user = u

\* The status of u, when w has been handled, is one of right.
LeadsTo(u, w, status, right) ==
  /\ (\A n \in 1..Len(w) : ~ PresenceOf(u, w[n])) => status \in right
  /\ \A n \in 1..Len(w) :
       PresenceOf(u, w[n]) /\ (\A k \in n + 1..Len(w) : ~ PresenceOf(u, w[k]))
         => w[n].status \in right

InMap(u) == mRoster[u] # Absent \/ u \in refill

MapOK == conn = "ready" => \A u \in Users : InMap(u) => u \in contacts /\ u \in glooxRoster

DueOK == \A u \in Users, r \in Resources : <<u, r>> \in due => r \in online[u]

\* Until the roster is handled, nothing is told but contacts.
LoginOK ==
  conn = "auth" => \A n \in 1..Len(wire) :
                     /\ wire[n].kind \in {"roster", "push"}
                     /\ wire[n].kind = "roster" => wire[n].users \subseteq contacts

RefillOK == ~handling => refill = {}

CurrentOK ==
  conn = "ready" => \A u \in Users : InMap(u) => LeadsTo(u, wire, mRoster[u], Right(u))

CurrentInv == MapOK /\ DueOK /\ LoginOK /\ RefillOK /\ CurrentOK

\* A stanza about somebody else, or no presence, goes behind the others.
LEMMA LeadsToAppendOther ==
  ASSUME NEW w \in Seq(Stanzas), NEW s \in Stanzas, NEW u, NEW status, NEW right,
         ~ PresenceOf(u, s), LeadsTo(u, w, status, right)
  PROVE  LeadsTo(u, Append(w, s), status, right)
<1> DEFINE p == Append(w, s)
<1>1. Len(p) = Len(w) + 1 /\ (\A n \in 1..Len(w) : p[n] = w[n]) /\ p[Len(w) + 1] = s
  BY AppendProperties
<1>2. Len(w) \in Nat
  OBVIOUS
<1> HIDE DEF p
<1>3. ASSUME \A n \in 1..Len(p) : ~ PresenceOf(u, p[n])
      PROVE  status \in right
  <2>1. \A n \in 1..Len(w) : n \in 1..Len(p) /\ p[n] = w[n]
    BY <1>1, <1>2
  <2>2. \A n \in 1..Len(w) : ~ PresenceOf(u, w[n])
    BY <1>3, <2>1
  <2>3. QED
    BY <2>2 DEF LeadsTo
<1>4. ASSUME NEW n \in 1..Len(p), PresenceOf(u, p[n]),
             \A k \in n + 1..Len(p) : ~ PresenceOf(u, p[k])
      PROVE  p[n].status \in right
  <2>1. n \in 1..Len(w)
    BY <1>1, <1>2, <1>4
  <2>2. p[n] = w[n]
    BY <1>1, <2>1
  <2>3. \A k \in n + 1..Len(w) : k \in n + 1..Len(p) /\ p[k] = w[k]
    BY <1>1, <1>2, <2>1
  <2>4. \A k \in n + 1..Len(w) : ~ PresenceOf(u, w[k])
    BY <1>4, <2>3
  <2>5. QED
    BY <1>4, <2>1, <2>2, <2>4 DEF LeadsTo
<1>5. QED
  BY <1>3, <1>4 DEF LeadsTo, p

\* A presence that is sent decides, whatever was on its way.
LEMMA LeadsToAppendPresence ==
  ASSUME NEW w \in Seq(Stanzas), NEW s \in Stanzas, NEW u, NEW status, NEW right,
         PresenceOf(u, s), s.status \in right
  PROVE  LeadsTo(u, Append(w, s), status, right)
<1> DEFINE p == Append(w, s)
<1>1. Len(p) = Len(w) + 1 /\ p[Len(w) + 1] = s
  BY AppendProperties
<1>2. Len(w) \in Nat
  OBVIOUS
<1> HIDE DEF p
<1>3. Len(p) \in 1..Len(p) /\ PresenceOf(u, p[Len(p)]) /\ p[Len(p)] = s
  BY <1>1, <1>2
<1>4. ASSUME NEW n \in 1..Len(p), \A k \in n + 1..Len(p) : ~ PresenceOf(u, p[k])
      PROVE  n = Len(p)
  <2>1. CASE n < Len(p)
    <3>1. Len(p) \in n + 1..Len(p)
      BY <1>1, <1>2, <2>1
    <3>2. QED
      BY <1>3, <1>4, <3>1
  <2>2. QED
    BY <1>1, <1>2, <2>1
<1>5. QED
  BY <1>3, <1>4 DEF LeadsTo, p

\* The first stanza has been handled, and was not about u.
LEMMA LeadsToTail ==
  ASSUME NEW w \in Seq(Stanzas), w # <<>>, NEW u, NEW status, NEW right,
         LeadsTo(u, w, status, right)
  PROVE  /\ ~ PresenceOf(u, Head(w)) => LeadsTo(u, Tail(w), status, right)
         /\ PresenceOf(u, Head(w)) => LeadsTo(u, Tail(w), Head(w).status, right)
<1> DEFINE p == Tail(w)
<1>1. Len(p) = Len(w) - 1 /\ \A n \in 1..Len(p) : p[n] = w[n + 1]
  BY HeadTailProperties
<1>2. Head(w) = w[1] /\ Len(w) \in Nat \ {0}
  OBVIOUS
<1> HIDE DEF p
<1>3. \A k \in 2..Len(w) : k - 1 \in 1..Len(p) /\ w[k] = p[k - 1]
  BY <1>1, <1>2
<1>4. ASSUME NEW n \in 1..Len(p), PresenceOf(u, p[n]),
             \A k \in n + 1..Len(p) : ~ PresenceOf(u, p[k])
      PROVE  p[n].status \in right
  <2>1. n + 1 \in 1..Len(w) /\ p[n] = w[n + 1]
    BY <1>1, <1>2
  <2>2. ASSUME NEW k \in n + 1 + 1..Len(w)
        PROVE  ~ PresenceOf(u, w[k])
    <3>1. k \in 2..Len(w) /\ k - 1 \in n + 1..Len(p)
      BY <1>1, <1>2
    <3>2. QED
      BY <1>3, <1>4, <3>1
  <2>3. QED
    BY <1>4, <2>1, <2>2 DEF LeadsTo
<1>5. ASSUME \A n \in 1..Len(p) : ~ PresenceOf(u, p[n])
      PROVE  \A k \in 2..Len(w) : ~ PresenceOf(u, w[k])
  BY <1>3, <1>5
<1>6. ASSUME \A n \in 1..Len(p) : ~ PresenceOf(u, p[n]), ~ PresenceOf(u, Head(w))
      PROVE  status \in right
  <2>1. \A n \in 1..Len(w) : n = 1 \/ n \in 2..Len(w)
    BY <1>2
  <2>2. \A n \in 1..Len(w) : ~ PresenceOf(u, w[n])
    BY <1>2, <1>5, <1>6, <2>1
  <2>3. QED
    BY <2>2 DEF LeadsTo
<1>7. ASSUME \A n \in 1..Len(p) : ~ PresenceOf(u, p[n]), PresenceOf(u, Head(w))
      PROVE  Head(w).status \in right
  <2>1. 1 \in 1..Len(w) /\ \A k \in 1 + 1..Len(w) : k \in 2..Len(w)
    BY <1>2
  <2>2. QED
    BY <1>2, <1>5, <1>7, <2>1 DEF LeadsTo
<1>8. QED
  BY <1>4, <1>6, <1>7 DEF LeadsTo, p

LEMMA CurrentInit == Init => CurrentInv
BY DEF Init, CurrentInv, MapOK, DueOK, LoginOK, RefillOK, CurrentOK

\* A peer of whom nothing was said since the login.
LEMMA UnknownIsRight ==
  ASSUME NEW u, ~ Here(u), NEW s \in {Invalid, Absent, Unavailable}
  PROVE  s \in Right(u)
BY DEF Right, Connected

\* One more stanza for a Client that has its roster: what is said of every peer is
\* still right if it was, or if the stanza says it.
LEMMA CurrentAfterSend ==
  ASSUME IInv, CurrentOK, conn = "ready", conn' = conn, UNCHANGED <<mRoster, refill>>,
         \/ wire' = wire
         \/ \E s \in Stanzas : wire' = Append(wire, s),
         \A u \in Users : InMap(u) =>
           \/ /\ Right(u)' = Right(u)
              /\ wire' # wire => \E s \in Stanzas : wire' = Append(wire, s) /\ ~ PresenceOf(u, s)
           \/ \E s \in Stanzas : /\ wire' = Append(wire, s) /\ PresenceOf(u, s)
                                 /\ s.status \in Right(u)'
  PROVE  CurrentOK'
<1>1. wire \in Seq(Stanzas)
  BY DEF IInv, TypeOK
<1>2. ASSUME NEW u \in Users, InMap(u)
      PROVE  LeadsTo(u, wire', mRoster[u], Right(u)')
  <2>1. LeadsTo(u, wire, mRoster[u], Right(u))
    BY <1>2 DEF CurrentOK
  <2>2. CASE Right(u)' = Right(u) /\ wire' = wire
    BY <2>1, <2>2
  <2>3. CASE Right(u)' = Right(u)
             /\ \E s \in Stanzas : wire' = Append(wire, s) /\ ~ PresenceOf(u, s)
    <3>1. PICK s \in Stanzas : wire' = Append(wire, s) /\ ~ PresenceOf(u, s)
      BY <2>3
    <3>2. LeadsTo(u, Append(wire, s), mRoster[u], Right(u))
      BY <1>1, <2>1, <3>1, LeadsToAppendOther
    <3>3. QED
      BY <2>3, <3>1, <3>2
  <2>4. CASE \E s \in Stanzas : /\ wire' = Append(wire, s) /\ PresenceOf(u, s)
                                /\ s.status \in Right(u)'
    <3>1. PICK s \in Stanzas : /\ wire' = Append(wire, s) /\ PresenceOf(u, s)
                               /\ s.status \in Right(u)'
      BY <2>4
    <3> DEFINE right == Right(u)'
    <3>2. s.status \in right
      BY <3>1
    <3> HIDE DEF right
    <3>3. LeadsTo(u, Append(wire, s), mRoster[u], right)
      BY <1>1, <3>1, <3>2, LeadsToAppendPresence
    <3>4. QED
      BY <3>1, <3>3 DEF right
  <2>5. QED
    BY <1>2, <2>2, <2>3, <2>4
<1>3. ASSUME NEW u \in Users, InMap(u)'
      PROVE  LeadsTo(u, wire, mRoster[u], Right(u))'
  <2>1. InMap(u)
    BY <1>3 DEF InMap
  <2>2. LeadsTo(u, wire', mRoster[u], Right(u)')
    BY <1>2, <2>1
  <2>3. QED
    BY <2>2 DEF LeadsTo
<1>4. QED
  BY <1>3 DEF CurrentOK

\* What is right of u depends on nothing but Here(u).
LEMMA RightSame ==
  ASSUME NEW u, Here(u)' <=> Here(u)
  PROVE  Right(u)' = Right(u)
<1>1. \A s : (/\ Connected(s) => Here(u)'
              /\ OneDevice /\ Here(u)' => Connected(s))
             <=> (/\ Connected(s) => Here(u)
                  /\ OneDevice /\ Here(u) => Connected(s))
  OBVIOUS
<1>2. QED
  BY <1>1 DEF Right

LEMMA PresenceIs ==
  ASSUME NEW u \in Users, NEW s \in Statuses
  PROVE  /\ Presence(u, s) \in Stanzas /\ Presence(u, s).status = s
         /\ Presence(u, s).kind = "presence"
         /\ \A v : PresenceOf(v, Presence(u, s)) <=> v = u
<1>1. Presence(u, s) \in Stanzas
  BY StanzasBuilt
<1>2. QED
  BY <1>1 DEF Presence, PresenceOf

LEMMA ComeOnlineCurrent ==
  ASSUME IInv, CurrentInv, NEW v \in Users, NEW r \in Resources, ComeOnline(v, r)
  PROVE  CurrentInv'
<1>1. /\ r \notin online[v] /\ online' = [online EXCEPT ![v] = @ \cup {r}]
      /\ wire' = IF Told(v) THEN Append(wire, Presence(v, Available)) ELSE wire
      /\ UNCHANGED <<contacts, due, conn, glooxRoster, handling, refill, mRoster>>
  BY DEF ComeOnline, listener
<1>2. online \in [Users -> SUBSET Resources] /\ online'[v] = online[v] \cup {r}
      /\ \A u \in Users : u # v => online'[u] = online[u]
  BY <1>1 DEF IInv, TypeOK
<1>3. MapOK' /\ RefillOK'
  BY <1>1 DEF CurrentInv, MapOK, RefillOK, InMap
<1>4. DueOK'
  BY <1>1, <1>2 DEF CurrentInv, DueOK
<1>5. LoginOK'
  BY <1>1 DEF CurrentInv, LoginOK, Told
<1>6. CurrentOK'
  <2>1. SUFFICES ASSUME conn = "ready" PROVE CurrentOK'
    BY <1>1 DEF CurrentOK
  <2>2. /\ Presence(v, Available) \in Stanzas /\ Presence(v, Available).status = Available
        /\ \A u : PresenceOf(u, Presence(v, Available)) <=> u = v
    BY PresenceIs
  <2>3. Available \in Right(v)'
    <3>1. Here(v)'
      BY <1>1, <1>2 DEF Here, CurrentInv, DueOK
    <3>2. QED
      BY <3>1 DEF Right, Connected
  <2>4. \A u \in Users : u # v => Right(u)' = Right(u)
    BY <1>1, <1>2, RightSame DEF Here
  <2>5. InMap(v) => Told(v)
    BY <2>1 DEF CurrentInv, MapOK, Told
  <2>6. ASSUME NEW u \in Users, InMap(u)
        PROVE  \/ /\ Right(u)' = Right(u)
                  /\ wire' # wire
                       => \E s \in Stanzas : wire' = Append(wire, s) /\ ~ PresenceOf(u, s)
               \/ \E s \in Stanzas : /\ wire' = Append(wire, s) /\ PresenceOf(u, s)
                                     /\ s.status \in Right(u)'
    <3>1. CASE u = v
      BY <1>1, <2>2, <2>3, <2>5, <2>6, <3>1
    <3>2. CASE u # v
      BY <1>1, <2>2, <2>4, <3>2
    <3>3. QED
      BY <3>1, <3>2
  <2>7. wire' = wire \/ \E s \in Stanzas : wire' = Append(wire, s)
    BY <1>1, <2>2
  <2>8. QED
    BY <1>1, <2>1, <2>6, <2>7, CurrentAfterSend DEF CurrentInv
<1>7. QED
  BY <1>3, <1>4, <1>5, <1>6 DEF CurrentInv

LEMMA GoOfflineCurrent ==
  ASSUME IInv, CurrentInv, NEW v \in Users, NEW r \in Resources, GoOffline(v, r)
  PROVE  CurrentInv'
<1>1. /\ r \in online[v] /\ online' = [online EXCEPT ![v] = @ \ {r}]
      /\ due' = due \ {<<v, r>>}
      /\ wire' = IF Told(v) /\ <<v, r>> \notin due
                 THEN Append(wire, Presence(v, Unavailable)) ELSE wire
      /\ UNCHANGED <<contacts, conn, glooxRoster, handling, refill, mRoster>>
  BY DEF GoOffline, listener
<1>2. online \in [Users -> SUBSET Resources] /\ online'[v] = online[v] \ {r}
      /\ \A u \in Users : u # v => online'[u] = online[u]
  BY <1>1 DEF IInv, TypeOK
<1>3. MapOK' /\ RefillOK'
  BY <1>1 DEF CurrentInv, MapOK, RefillOK, InMap
<1>4. DueOK'
  <2>1. ASSUME NEW u \in Users, NEW d \in Resources, <<u, d>> \in due'
        PROVE  d \in online'[u]
    <3>1. d \in online[u] /\ (u = v => d # r)
      BY <1>1, <2>1 DEF CurrentInv, DueOK
    <3>2. QED
      BY <1>2, <3>1
  <2>2. QED
    BY <2>1 DEF DueOK
<1>5. LoginOK'
  BY <1>1 DEF CurrentInv, LoginOK, Told
<1>6. CurrentOK'
  <2>1. SUFFICES ASSUME conn = "ready" PROVE CurrentOK'
    BY <1>1 DEF CurrentOK
  <2>2. /\ Presence(v, Unavailable) \in Stanzas /\ Presence(v, Unavailable).status = Unavailable
        /\ \A u : PresenceOf(u, Presence(v, Unavailable)) <=> u = v
    BY PresenceIs
  <2>3. Unavailable \in Right(v)'
    <3>1. OneDevice => online'[v] = {}
      BY <1>1, <1>2 DEF OneDevice
    <3>2. OneDevice => ~ Here(v)'
      BY <3>1 DEF Here
    <3>3. QED
      BY <3>2 DEF Right, Connected
  <2>4. \A u \in Users : u # v => Right(u)' = Right(u)
    <3>1. ASSUME NEW u \in Users, u # v
          PROVE  Right(u)' = Right(u)
      <4>1. \A d : <<u, d>> \in due' <=> <<u, d>> \in due
        BY <1>1, <3>1
      <4>2. Here(u)' <=> Here(u)
        BY <1>2, <3>1, <4>1 DEF Here
      <4>3. QED
        BY <4>2, RightSame
    <3>2. QED
      BY <3>1
  <2>5. InMap(v) => Told(v)
    BY <2>1 DEF CurrentInv, MapOK, Told
  <2>6. <<v, r>> \in due => Right(v)' = Right(v) /\ wire' = wire
    <3>1. ASSUME <<v, r>> \in due PROVE Here(v)' <=> Here(v)
      <4>1. \A d : d # r => (<<v, d>> \in due' <=> <<v, d>> \in due)
        BY <1>1
      <4>2. QED
        BY <1>2, <3>1, <4>1 DEF Here
    <3>2. QED
      BY <1>1, <3>1, RightSame
  <2>7. ASSUME NEW u \in Users, InMap(u)
        PROVE  \/ /\ Right(u)' = Right(u)
                  /\ wire' # wire
                       => \E s \in Stanzas : wire' = Append(wire, s) /\ ~ PresenceOf(u, s)
               \/ \E s \in Stanzas : /\ wire' = Append(wire, s) /\ PresenceOf(u, s)
                                     /\ s.status \in Right(u)'
    <3>1. CASE u = v /\ <<v, r>> \notin due
      BY <1>1, <2>2, <2>3, <2>5, <2>7, <3>1
    <3>2. CASE u = v /\ <<v, r>> \in due
      BY <2>6, <3>2
    <3>3. CASE u # v
      BY <1>1, <2>2, <2>4, <3>3
    <3>4. QED
      BY <3>1, <3>2, <3>3
  <2>8. wire' = wire \/ \E s \in Stanzas : wire' = Append(wire, s)
    BY <1>1, <2>2
  <2>9. QED
    BY <1>1, <2>1, <2>7, <2>8, CurrentAfterSend DEF CurrentInv
<1>7. QED
  BY <1>3, <1>4, <1>5, <1>6 DEF CurrentInv

LEMMA AnnounceCurrent ==
  ASSUME IInv, CurrentInv, NEW v \in Users, NEW r \in Resources, Announce(v, r)
  PROVE  CurrentInv'
<1>1. /\ <<v, r>> \in due /\ due' = due \ {<<v, r>>}
      /\ wire' = Append(wire, Presence(v, Available))
      /\ UNCHANGED <<contacts, online, conn, glooxRoster, handling, refill, mRoster>>
  BY DEF Announce, listener
<1>2. conn = "ready"
  BY <1>1 DEF IInv, WireOK
<1>3. MapOK' /\ DueOK' /\ LoginOK' /\ RefillOK'
  BY <1>1, <1>2 DEF CurrentInv, MapOK, DueOK, LoginOK, RefillOK, InMap
<1>4. CurrentOK'
  <2>1. /\ Presence(v, Available) \in Stanzas /\ Presence(v, Available).status = Available
        /\ \A u : PresenceOf(u, Presence(v, Available)) <=> u = v
    BY PresenceIs
  <2>2. Available \in Right(v)'
    <3>1. Here(v)'
      BY <1>1 DEF Here, CurrentInv, DueOK
    <3>2. QED
      BY <3>1 DEF Right, Connected
  <2>3. ASSUME NEW u \in Users, u # v
        PROVE  Right(u)' = Right(u)
    <3>1. \A d : <<u, d>> \in due' <=> <<u, d>> \in due
      BY <1>1, <2>3
    <3>2. Here(u)' <=> Here(u)
      BY <1>1, <3>1 DEF Here
    <3>3. QED
      BY <3>2, RightSame
  <2>4. ASSUME NEW u \in Users
        PROVE  \/ /\ Right(u)' = Right(u)
                  /\ wire' # wire
                       => \E s \in Stanzas : wire' = Append(wire, s) /\ ~ PresenceOf(u, s)
               \/ \E s \in Stanzas : /\ wire' = Append(wire, s) /\ PresenceOf(u, s)
                                     /\ s.status \in Right(u)'
    <3>1. CASE u = v
      BY <1>1, <2>1, <2>2, <3>1
    <3>2. CASE u # v
      BY <1>1, <2>1, <2>3, <3>2
    <3>3. QED
      BY <3>1, <3>2
  <2>5. \E s \in Stanzas : wire' = Append(wire, s)
    BY <1>1, <2>1
  <2>6. QED
    BY <1>1, <1>2, <2>4, <2>5, CurrentAfterSend DEF CurrentInv
<1>5. QED
  BY <1>3, <1>4 DEF CurrentInv

\* A subscription request, or a message.
LEMMA OtherSendCurrent ==
  ASSUME IInv, CurrentInv, NEW v \in Users, AskUs(v) \/ MessageArrives(v)
  PROVE  CurrentInv'
<1>1. /\ conn = "ready"
      /\ UNCHANGED <<contacts, online, due, conn, glooxRoster, handling, refill, mRoster>>
  BY DEF AskUs, MessageArrives, listener, server
<1>2. PICK s \in Stanzas : wire' = Append(wire, s) /\ s.kind # "presence"
  <2>1. CASE AskUs(v)
    BY <2>1, StanzasBuilt DEF AskUs, Subscribe
  <2>2. CASE MessageArrives(v)
    <3>1. messages + 1 \in Nat
      BY DEF IInv, TypeOK
    <3>2. Chat(v, messages + 1) \in Stanzas /\ Chat(v, messages + 1).kind = "message"
      BY <3>1, StanzasBuilt DEF Chat
    <3>3. QED
      BY <2>2, <3>2 DEF MessageArrives
  <2>3. QED
    BY <2>1, <2>2
<1>3. MapOK' /\ DueOK' /\ LoginOK' /\ RefillOK'
  BY <1>1 DEF CurrentInv, MapOK, DueOK, LoginOK, RefillOK, InMap
<1>4. \A u \in Users : Right(u)' = Right(u)
  BY <1>1, RightSame DEF Here
<1>5. CurrentOK'
  <2>1. \A u : ~ PresenceOf(u, s)
    BY <1>2 DEF PresenceOf
  <2>2. \A u \in Users : /\ Right(u)' = Right(u)
                         /\ \E t \in Stanzas : wire' = Append(wire, t) /\ ~ PresenceOf(u, t)
    BY <1>2, <1>4, <2>1
  <2>3. \E t \in Stanzas : wire' = Append(wire, t)
    BY <1>2
  <2>4. QED
    BY <1>1, <2>2, <2>3, CurrentAfterSend DEF CurrentInv
<1>6. QED
  BY <1>3, <1>5 DEF CurrentInv

\* A new contact is not in the map, and what is due concerns no other.
LEMMA AddContactCurrent ==
  ASSUME IInv, CurrentInv, NEW v \in Users, AddContact(v)
  PROVE  CurrentInv'
<1>1. /\ contacts' = contacts \cup {v}
      /\ wire' = IF conn \in {"auth", "ready"} /\ v \notin contacts
                 THEN Append(wire, Push(v)) ELSE wire
      /\ due' = IF conn = "ready" /\ v \notin contacts
                THEN due \cup ({v} \X online[v]) ELSE due
      /\ UNCHANGED <<online, conn, glooxRoster, handling, refill, mRoster>>
  BY DEF AddContact, listener
<1>2. Push(v) \in Stanzas /\ Push(v).kind = "push" /\ \A u : ~ PresenceOf(u, Push(v))
  BY StanzasBuilt DEF Push, PresenceOf
<1>3. MapOK' /\ RefillOK'
  BY <1>1 DEF CurrentInv, MapOK, RefillOK, InMap
<1>4. DueOK'
  BY <1>1 DEF CurrentInv, DueOK
<1>5. LoginOK'
  <2>1. SUFFICES ASSUME conn = "auth", NEW n \in 1..Len(wire')
                 PROVE  /\ wire'[n].kind \in {"roster", "push"}
                        /\ wire'[n].kind = "roster" => wire'[n].users \subseteq contacts'
    BY <1>1 DEF LoginOK
  <2>2. wire \in Seq(Stanzas)
    BY DEF IInv, TypeOK
  <2>3. CASE n \in 1..Len(wire) /\ wire'[n] = wire[n]
    BY <1>1, <2>1, <2>3 DEF CurrentInv, LoginOK
  <2>4. CASE wire'[n] = Push(v)
    BY <1>2, <2>4
  <2>5. CASE wire' = Append(wire, Push(v))
    <3>1. /\ Len(wire') = Len(wire) + 1 /\ (\A k \in 1..Len(wire) : wire'[k] = wire[k])
          /\ wire'[Len(wire) + 1] = Push(v) /\ Len(wire) \in Nat
      BY <1>2, <2>2, <2>5, AppendProperties
    <3>2. n \in 1..Len(wire) \/ n = Len(wire) + 1
      BY <3>1
    <3>3. QED
      BY <2>3, <2>4, <3>1, <3>2
  <2>6. QED
    BY <1>1, <2>1, <2>3, <2>5
<1>6. CurrentOK'
  <2>1. SUFFICES ASSUME conn = "ready" PROVE CurrentOK'
    BY <1>1 DEF CurrentOK
  <2>2. ASSUME NEW u \in Users, InMap(u)
        PROVE  Right(u)' = Right(u)
    <3>1. u \in contacts
      BY <2>1, <2>2 DEF CurrentInv, MapOK
    <3>2. \A d : <<u, d>> \in due' <=> <<u, d>> \in due
      BY <1>1, <3>1
    <3>3. Here(u)' <=> Here(u)
      BY <1>1, <3>2 DEF Here
    <3>4. QED
      BY <3>3, RightSame
  <2>3. wire' = wire \/ wire' = Append(wire, Push(v))
    BY <1>1
  <2>4. wire' = wire \/ \E s \in Stanzas : wire' = Append(wire, s)
    BY <1>2, <2>3
  <2>5. \A u \in Users : InMap(u) =>
          /\ Right(u)' = Right(u)
          /\ wire' # wire => \E s \in Stanzas : wire' = Append(wire, s) /\ ~ PresenceOf(u, s)
    BY <1>2, <2>2, <2>3
  <2>6. QED
    BY <1>1, <2>1, <2>4, <2>5, CurrentAfterSend DEF CurrentInv
<1>7. QED
  BY <1>3, <1>4, <1>5, <1>6 DEF CurrentInv

LEMMA LoginAcceptedCurrent ==
  ASSUME CurrentInv, LoginAccepted
  PROVE  CurrentInv'
<1>1. /\ conn' = "auth" /\ wire' = <<FullRoster(contacts)>>
      /\ UNCHANGED <<contacts, online, due, handling, refill>>
  BY DEF LoginAccepted, server
<1>2. /\ Len(wire') = 1 /\ wire'[1].kind = "roster" /\ wire'[1].users = contacts
  BY <1>1 DEF FullRoster
<1>3. LoginOK'
  BY <1>1, <1>2 DEF LoginOK
<1>4. MapOK' /\ DueOK' /\ RefillOK' /\ CurrentOK'
  BY <1>1 DEF CurrentInv, MapOK, DueOK, RefillOK, CurrentOK
<1>5. QED
  BY <1>3, <1>4 DEF CurrentInv

\* Without a connection nothing is claimed of the map.
LEMMA NotConnectedCurrent ==
  ASSUME CurrentInv, conn' \in {"none", "connecting"}, due' \subseteq due,
         UNCHANGED <<online, handling, refill>>
  PROVE  CurrentInv'
BY DEF CurrentInv, MapOK, DueOK, LoginOK, RefillOK, CurrentOK

LEMMA HandleRosterCurrent ==
  ASSUME IInv, CurrentInv, HandleRoster
  PROVE  CurrentInv'
<1>1. /\ Take("roster") /\ conn' = "ready" /\ glooxRoster' = Head(wire).users
      /\ due' = UNION {{u} \X online[u] : u \in contacts}
      /\ handling' = TRUE /\ refill' = Head(wire).users /\ mRoster' = NoPeers
      /\ UNCHANGED <<contacts, online>>
  BY DEF HandleRoster
<1>2. wire \in Seq(Stanzas) /\ conn = "auth"
  BY <1>1, TakeOK DEF IInv, TypeOK
<1>3. wire # <<>> /\ wire' = Tail(wire) /\ Head(wire).kind = "roster"
  BY <1>1 DEF Take
<1>4. Head(wire) = wire[1] /\ Len(wire) \in Nat \ {0}
  BY <1>2, <1>3
<1>5. Head(wire).users \subseteq contacts
  BY <1>2, <1>3, <1>4 DEF CurrentInv, LoginOK
<1>6. \A u \in Users : mRoster'[u] = Absent
  BY <1>1 DEF NoPeers
<1>7. MapOK'
  BY <1>1, <1>5, <1>6 DEF MapOK, InMap
<1>8. DueOK'
  BY <1>1 DEF DueOK
<1>9. LoginOK' /\ RefillOK'
  BY <1>1 DEF LoginOK, RefillOK
<1>10. CurrentOK'
  <2>1. ASSUME NEW u \in Users, InMap(u)'
        PROVE  LeadsTo(u, wire', mRoster'[u], Right(u)')
    <3>1. u \in contacts
      BY <1>1, <1>7, <2>1 DEF MapOK
    <3>2. \A d \in online'[u] : <<u, d>> \in due'
      BY <1>1, <3>1
    <3>3. ~ Here(u)'
      BY <3>2 DEF Here
    <3>4. Absent \in Right(u)'
      BY <3>3 DEF Right, Connected
    <3>5. \A n \in 1..Len(wire') : wire'[n].kind # "presence"
      <4>1. Len(wire') = Len(wire) - 1 /\ \A n \in 1..Len(wire') : wire'[n] = wire[n + 1]
        BY <1>2, <1>3, HeadTailProperties
      <4>2. \A n \in 1..Len(wire') : n + 1 \in 1..Len(wire)
        BY <1>4, <4>1
      <4>3. QED
        BY <1>2, <4>1, <4>2 DEF CurrentInv, LoginOK
    <3>6. \A n \in 1..Len(wire') : ~ PresenceOf(u, wire'[n])
      BY <3>5 DEF PresenceOf
    <3>7. QED
      BY <1>6, <3>4, <3>6 DEF LeadsTo
  <2>2. QED
    BY <2>1 DEF CurrentOK, LeadsTo
<1>11. QED
  BY <1>7, <1>8, <1>9, <1>10 DEF CurrentInv

LEMMA InsertPeerCurrent ==
  ASSUME IInv, CurrentInv, InsertPeer
  PROVE  CurrentInv'
<1> DEFINE v == Min(refill)
<1>1. /\ handling /\ refill # {} /\ refill' = refill \ {v}
      /\ mRoster' = IF mRoster[v] = Absent THEN [mRoster EXCEPT ![v] = Invalid] ELSE mRoster
      /\ UNCHANGED <<contacts, online, due, wire, conn, glooxRoster, handling>>
  BY DEF InsertPeer, server
<1>2. v \in refill
  <2>1. refill \in SUBSET Nat /\ refill # {}
    BY <1>1 DEF IInv, TypeOK
  <2>2. QED
    BY <2>1, MinOfNaturals
<1> HIDE DEF v
<1>3. /\ mRoster \in [Users -> Statuses \cup {Absent}] /\ v \in Users
      /\ conn = "ready" /\ \A u \in Users : mRoster[u] \in {Invalid, Absent}
  BY <1>1, <1>2 DEF IInv, TypeOK, QuietOK
<1>4. \A u \in Users : /\ mRoster'[u] = mRoster[u] \/ (mRoster[u] = Absent /\ mRoster'[u] = Invalid)
                       /\ InMap(u)' => InMap(u)
  BY <1>1, <1>2, <1>3 DEF InMap
<1>5. MapOK' /\ DueOK' /\ LoginOK' /\ RefillOK'
  BY <1>1, <1>3, <1>4 DEF CurrentInv, MapOK, DueOK, LoginOK, RefillOK
<1>6. CurrentOK'
  <2>1. ASSUME NEW u \in Users, InMap(u)'
        PROVE  LeadsTo(u, wire', mRoster'[u], Right(u)')
    <3>1. LeadsTo(u, wire, mRoster[u], Right(u))
      BY <1>3, <1>4, <2>1 DEF CurrentInv, CurrentOK
    <3>2. Right(u)' = Right(u)
      BY <1>1, RightSame DEF Here
    <3>3. mRoster[u] \in Right(u) => mRoster'[u] \in Right(u)
      BY <1>4 DEF Right, Connected
    <3>4. QED
      BY <1>1, <3>1, <3>2, <3>3 DEF LeadsTo
  <2>2. QED
    BY <2>1 DEF CurrentOK, LeadsTo
<1>7. QED
  BY <1>5, <1>6 DEF CurrentInv

\* The steps that touch neither the map, nor the wire, nor what the server knows.
LEMMA OtherStepsCurrent ==
  ASSUME CurrentInv, UNCHANGED <<contacts, online, due, wire, conn, mRoster, refill>>,
         glooxRoster' = glooxRoster, handling' => handling, handling = handling' \/ refill = {}
  PROVE  CurrentInv'
<1>1. MapOK' /\ DueOK' /\ LoginOK' /\ RefillOK'
  BY DEF CurrentInv, MapOK, DueOK, LoginOK, RefillOK, InMap
<1>2. \A u : Right(u)' = Right(u)
  BY RightSame DEF Here
<1>3. CurrentOK'
  BY <1>2 DEF CurrentInv, CurrentOK, InMap, LeadsTo
<1>4. QED
  BY <1>1, <1>3 DEF CurrentInv

\* A stanza that has been handled: the map says now what the stanza said.
LEMMA HandledCurrent ==
  ASSUME IInv, CurrentInv,
         HandlePush \/ HandleSubscriptionRequest \/ HandleMessage \/ HandleRosterPresence
  PROVE  CurrentInv'
<1>0. PICK kind \in {"push", "subscribe", "message", "presence"} : Take(kind)
  BY DEF HandlePush, HandleSubscriptionRequest, HandleMessage, HandleRosterPresence
<1>1. wire \in Seq(Stanzas) /\ mRoster \in [Users -> Statuses \cup {Absent}]
  BY DEF IInv, TypeOK
<1>2. /\ conn = "ready" /\ ~handling /\ Head(wire) \in Stanzas /\ Head(wire).kind = kind
      /\ wire # <<>> /\ wire' = Tail(wire)
  BY <1>0, <1>1, TakeOK DEF IInv, TypeOK, Take
<1>3. refill = {}
  BY <1>2 DEF CurrentInv, RefillOK
<1>4. /\ UNCHANGED <<contacts, online, due, conn, handling, refill>>
      /\ glooxRoster \subseteq glooxRoster'
  BY DEF HandlePush, HandleSubscriptionRequest, HandleMessage, HandleRosterPresence, listener,
         server
<1>5. /\ kind # "presence" => mRoster' = mRoster
      /\ kind = "presence" => HandleRosterPresence
  BY <1>2 DEF HandlePush, HandleSubscriptionRequest, HandleMessage, HandleRosterPresence, listener,
         Take
<1>6. ASSUME NEW u \in Users, mRoster[u] # Absent
      PROVE  /\ ~ PresenceOf(u, Head(wire)) => mRoster'[u] = mRoster[u]
             /\ PresenceOf(u, Head(wire)) => mRoster'[u] = Head(wire).status
  <2>1. CASE kind # "presence"
    BY <1>2, <1>5, <2>1 DEF PresenceOf
  <2>2. CASE kind = "presence"
    <3>1. u \in glooxRoster
      BY <1>2, <1>6 DEF CurrentInv, MapOK, InMap
    <3>2. Head(wire).user \in Users /\ Head(wire).kind = "presence"
      BY <1>2, <2>2, StanzaTypes
    <3>3. CASE Head(wire).user \in glooxRoster /\ mRoster[Head(wire).user] # Absent
      <4>1. mRoster' = [mRoster EXCEPT ![Head(wire).user] = Head(wire).status]
        BY <1>5, <2>2, <3>3 DEF HandleRosterPresence
      <4>2. QED
        BY <1>1, <3>2, <4>1 DEF PresenceOf
    <3>4. CASE ~ (Head(wire).user \in glooxRoster /\ mRoster[Head(wire).user] # Absent)
      <4>1. mRoster' = mRoster
        BY <1>5, <2>2, <3>4 DEF HandleRosterPresence
      <4>2. Head(wire).user # u
        BY <1>6, <3>1, <3>4
      <4>3. QED
        BY <4>1, <4>2 DEF PresenceOf
    <3>5. QED
      BY <3>3, <3>4
  <2>3. QED
    BY <2>1, <2>2
<1>7. ASSUME NEW u \in Users, mRoster[u] = Absent
      PROVE  mRoster'[u] = Absent
  <2>1. CASE kind # "presence"
    BY <1>5, <1>7, <2>1
  <2>2. CASE kind = "presence"
    <3>1. \/ mRoster' = mRoster
          \/ /\ mRoster[Head(wire).user] # Absent
             /\ mRoster' = [mRoster EXCEPT ![Head(wire).user] = Head(wire).status]
      BY <1>5, <2>2 DEF HandleRosterPresence
    <3>2. QED
      BY <1>1, <1>7, <3>1
  <2>3. QED
    BY <2>1, <2>2
<1>8. \A u \in Users : InMap(u)' => mRoster[u] # Absent
  BY <1>3, <1>4, <1>7 DEF InMap
<1>9. MapOK' /\ DueOK' /\ LoginOK' /\ RefillOK'
  <2>1. MapOK'
    BY <1>2, <1>4, <1>8 DEF CurrentInv, MapOK, InMap
  <2>2. QED
    BY <1>2, <1>4, <2>1 DEF CurrentInv, DueOK, LoginOK, RefillOK
<1>10. CurrentOK'
  <2>1. ASSUME NEW u \in Users, InMap(u)'
        PROVE  LeadsTo(u, wire', mRoster'[u], Right(u)')
    <3>1. mRoster[u] # Absent
      BY <1>8, <2>1
    <3>2. LeadsTo(u, wire, mRoster[u], Right(u))
      BY <1>2, <3>1 DEF CurrentInv, CurrentOK, InMap
    <3>3. Right(u)' = Right(u)
      BY <1>4, RightSame DEF Here
    <3>4. LeadsTo(u, Tail(wire), mRoster'[u], Right(u))
      BY <1>1, <1>2, <1>6, <3>1, <3>2, LeadsToTail
    <3>5. QED
      BY <1>2, <3>3, <3>4
  <2>2. QED
    BY <2>1 DEF CurrentOK, LeadsTo
<1>11. QED
  BY <1>9, <1>10 DEF CurrentInv

LEMMA CurrentNext == IInv /\ CurrentInv /\ [Next]_vars => CurrentInv'
<1> SUFFICES ASSUME IInv, CurrentInv, [Next]_vars PROVE CurrentInv'
  OBVIOUS
<1>1. CASE ServerSteps
  BY <1>1, ComeOnlineCurrent, GoOfflineCurrent, AnnounceCurrent, OtherSendCurrent,
     AddContactCurrent DEF ServerSteps
<1>2. CASE ListenerSteps
  <2>1. CASE LoginFails \/ ConnectionLost
    <3>1. conn' = "none" /\ due' \subseteq due /\ UNCHANGED <<online, handling, refill>>
      BY <2>1 DEF LoginFails, ConnectionLost, server
    <3>2. QED
      BY <3>1, NotConnectedCurrent
  <2>2. CASE RosterLoaded
    BY <2>2, OtherStepsCurrent DEF RosterLoaded
  <2>3. QED
    BY <1>2, <2>1, <2>2, LoginAcceptedCurrent, HandleRosterCurrent, InsertPeerCurrent,
       HandledCurrent DEF ListenerSteps
<1>3. CASE AppSteps
  <2>1. CASE StartInterface \/ StopInterface
    <3>1. conn' \in {"none", "connecting"} /\ due' \subseteq due
          /\ UNCHANGED <<online, handling, refill>>
      BY <2>1 DEF StartInterface, StopInterface, server
    <3>2. QED
      BY <3>1, NotConnectedCurrent
  <2>2. CASE UNCHANGED <<server, wire, listener>>
    BY <2>2, OtherStepsCurrent DEF server, listener
  <2>3. QED
    BY <1>3, <2>1, <2>2 DEF AppSteps, GetNextStatusChange, GetNextPresenceEvent, GetNextEvent,
       BroadcastBegins, BroadcastNext
<1>4. CASE UNCHANGED vars
  BY <1>4, OtherStepsCurrent DEF vars, server, listener
<1>5. QED
  BY <1>1, <1>2, <1>3, <1>4 DEF Next, ServerSteps, ListenerSteps, AppSteps

\* What has been told of every peer of the map is right, or on its way.
THEOREM CurrentInvariant == Spec => []CurrentInv
<1>1. QED
  BY CurrentInit, CurrentNext, Invariant, PTL DEF Spec

\* A peer of the map of whom everything has been told has the right status.
LEMMA SettledIsRight ==
  ASSUME IInv, CurrentInv, NEW u \in Users, mRoster[u] # Absent, Settled(u)
  PROVE  /\ mRoster[u] \in Right(u)
         /\ Here(u) <=> online[u] # {}
<1>1. LeadsTo(u, wire, mRoster[u], Right(u))
  BY DEF CurrentInv, CurrentOK, Settled, InMap
<1>2. \A n \in 1..Len(wire) : ~ PresenceOf(u, wire[n])
  BY DEF Settled, PresenceOf
<1>3. online[u] \subseteq Resources
  BY DEF IInv, TypeOK
<1>4. \A r \in Resources : <<u, r>> \notin due
  BY DEF Settled
<1>5. QED
  BY <1>1, <1>2, <1>3, <1>4 DEF LeadsTo, Here

\* For users with one device isPeerConnected (XmppClient.cpp:329-336) tells the truth
\* about the peers of the map, after any number of lost connections and logins.
THEOREM RosterCurrent ==
  ASSUME OneDevice
  PROVE  Spec => []RosterIsCurrent
<1>1. IInv /\ CurrentInv => RosterIsCurrent
  <2> SUFFICES ASSUME IInv, CurrentInv, NEW u \in contacts, mRoster[u] # Absent, Settled(u)
               PROVE  Connected(mRoster[u]) <=> online[u] # {}
    BY DEF RosterIsCurrent
  <2>1. u \in Users
    BY DEF IInv, TypeOK
  <2>2. QED
    BY <2>1, SettledIsRight DEF Right
<1>2. QED
  BY <1>1, Invariant, CurrentInvariant, PTL

\* A peer of the map whose last device has left is not connected.
DepartedAreDisconnected ==
  \A u \in Users : (mRoster[u] # Absent /\ Settled(u) /\ online[u] = {}) => ~ Connected(mRoster[u])

\* Whatever the number of devices: once what was sent about a peer has been handled,
\* broadcasts (PluginInterface.mm:570-577) do not go on addressing it after its last
\* device has left, even if that was while the connection was down.
THEOREM DepartedDisconnected == Spec => []DepartedAreDisconnected
<1>1. IInv /\ CurrentInv => DepartedAreDisconnected
  BY SettledIsRight DEF DepartedAreDisconnected, Right
<1>2. QED
  BY <1>1, Invariant, CurrentInvariant, PTL
=============================================================================
