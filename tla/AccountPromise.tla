--------------------------- MODULE AccountPromise ---------------------------
(***************************************************************************)
(* What AccountRegistration and AccountEraser promise whoever waits for    *)
(* init() to return and then reads status(): SUCCESS means that the server *)
(* has carried out this very request, FAILURE that it has not and, as long *)
(* as the object is not used again, will not; INCOMPLETE says nothing.     *)
(* Requests are numbered.                                                  *)
(***************************************************************************)
EXTENDS Naturals

CONSTANTS
  Registrations, Erasers,   \* the objects that create and that remove the account
  MaxClients                \* bound: requests begun

VARIABLES
  exists,       \* does the account exist?
  begun,        \* number of requests begun
  current,      \* the latest request of every object, or 0
  running,      \* objects whose init() has not returned
  status,       \* what status() says of the latest request, once init() has returned
  committed     \* requests the server has carried out

vars == <<exists, begun, current, running, status, committed>>

Objects  == Registrations \cup Erasers
Requests == 1..MaxClients

Init ==
  /\ exists \in BOOLEAN
  /\ begun = 0
  /\ current = [o \in Objects |-> 0]
  /\ running = {}
  /\ status = [o \in Objects |-> "INCOMPLETE"]
  /\ committed = {}

Begin(o) ==
  /\ o \notin running
  /\ begun < MaxClients
  /\ begun' = begun + 1
  /\ current' = [current EXCEPT ![o] = begun + 1]
  /\ running' = running \cup {o}
  /\ status' = [status EXCEPT ![o] = "INCOMPLETE"]
  /\ UNCHANGED <<exists, committed>>

Denied(r) == \E o \in Objects \ running : current[o] = r /\ status[o] = "FAILURE"

\* The server carries out a request, perhaps after its init() has given up.
Commit(r) ==
  /\ r <= begun
  /\ r \notin committed
  /\ ~Denied(r)
  /\ exists' = ~exists
  /\ committed' = committed \cup {r}
  /\ UNCHANGED <<begun, current, running, status>>

Return(o, s) ==
  /\ o \in running
  /\ s = "SUCCESS" => current[o] \in committed
  /\ s = "FAILURE" => current[o] \notin committed
  /\ running' = running \ {o}
  /\ status' = [status EXCEPT ![o] = s]
  /\ UNCHANGED <<exists, begun, current, committed>>

Next ==
  \/ \E o \in Objects : Begin(o)
  \/ \E r \in Requests : Commit(r)
  \/ \E o \in Objects, s \in {"INCOMPLETE", "SUCCESS", "FAILURE"} : Return(o, s)

Spec == Init /\ [][Next]_vars
=============================================================================
