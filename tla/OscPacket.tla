------------------------------ MODULE OscPacket -----------------------------
(***************************************************************************)
(* What an outbound OSC stream promises its caller: the packet it holds is *)
(* the tree of bundles and messages that the caller built, whatever the    *)
(* layout in memory.  A message is an address and a list of arguments; a   *)
(* bundle is a list of elements.                                           *)
(***************************************************************************)
EXTENDS Naturals, Sequences

CONSTANTS Addresses, Arguments

VARIABLES
  open,      \* the elements collected so far by each open bundle, outermost first
  message,   \* the message being written, or None
  packet     \* the finished outermost element, or None

vars == <<open, message, packet>>

None == [kind |-> "none"]

Message(address, arguments) ==
  [kind |-> "message", address |-> address, arguments |-> arguments]
Bundle(elements) == [kind |-> "bundle", elements |-> elements]

Init ==
  /\ open = <<>>
  /\ message = None
  /\ packet = None

\* A finished element joins the innermost of the bundles that are still open.
Deliver(element, bundles) ==
  LET n == Len(bundles)
  IN  IF n = 0
      THEN open' = bundles /\ packet' = element
      ELSE /\ open' = [bundles EXCEPT ![n] = Append(@, element)]
           /\ packet' = packet

BeginBundle ==
  /\ message = None
  /\ packet = None
  /\ open' = Append(open, <<>>)
  /\ UNCHANGED <<message, packet>>

EndBundle ==
  /\ message = None
  /\ open # <<>>
  /\ Deliver(Bundle(open[Len(open)]), SubSeq(open, 1, Len(open) - 1))
  /\ UNCHANGED message

BeginMessage(address) ==
  /\ message = None
  /\ packet = None
  /\ message' = Message(address, <<>>)
  /\ UNCHANGED <<open, packet>>

AddArgument(x) ==
  /\ message # None
  /\ message' = [message EXCEPT !.arguments = Append(@, x)]
  /\ UNCHANGED <<open, packet>>

EndMessage ==
  /\ message # None
  /\ message' = None
  /\ Deliver(message, open)

Clear ==
  /\ open' = <<>>
  /\ message' = None
  /\ packet' = None

Next ==
  \/ BeginBundle
  \/ EndBundle
  \/ \E address \in Addresses : BeginMessage(address)
  \/ \E x \in Arguments : AddArgument(x)
  \/ EndMessage
  \/ Clear

Spec == Init /\ [][Next]_vars
=============================================================================
