--------------------------- MODULE OscStreamPacket --------------------------
(***************************************************************************)
(* OutboundPacketStream implements OscPacket.  The refinement mapping is a *)
(* reader: it takes the tree out of the memory of the stream the way       *)
(* ReceivedBundle::Init and ReceivedMessage::Init (OscReceivedElements.cpp)*)
(* take it out of a received packet, size slot by size slot, and finds the *)
(* open elements by following the slots from elementSizePtr.               *)
(***************************************************************************)
EXTENDS OscOutboundPacketStream, FiniteSets

Malformed == [kind |-> "malformed"]     \* the reader throws

\* The number of arguments in the block among the first i.
Stored(tags, i) == Cardinality({j \in 1..i : tags[j] \notin ZeroTags})

\* The arguments in a block, in the order of the type tag string.
ReadArguments(tags, data) ==
  [i \in 1..Len(tags) |->
     IF tags[i] \in ZeroTags
     THEN [tag |-> tags[i], length |-> 0]
     ELSE IF Stored(tags, i) <= Len(data) /\ data[Stored(tags, i)].tag = tags[i]
          THEN data[Stored(tags, i)]
          ELSE Malformed]

\* Where the arguments of a block end, counted from its start.
ArgumentEnds(data) ==
  LET ends[i \in 0..Len(data)] ==
        IF i = 0 THEN 0 ELSE ends[i - 1] + ArgumentSize(data[i])
  IN  ends

BlockSize(data) == ArgumentEnds(data)[Len(data)]

\* ReceivedMessage::Init on the bytes from start to end.  This reader also asks
\* that the arguments reach exactly to the end.
ReadMessage(start, end) ==
  IF headers[start] \notin Addresses \/ start + AddressSize(headers[start]) > end
  THEN Malformed
  ELSE LET tagsBegin == start + AddressSize(headers[start])
           tags      == tagStrings[tagsBegin]
           arguments == tagsBegin + RoundUp4(Len(tags) + 2)
       IN  IF arguments > end \/ arguments + BlockSize(blocks[arguments]) # end
           THEN Malformed
           ELSE [kind      |-> "message",
                 address   |-> headers[start],
                 arguments |-> ReadArguments(tags, blocks[arguments])]

\* The element from start to end; inner reads the elements of a bundle.
ReadElement(inner, start, end) ==
  IF headers[start] # "#bundle" THEN ReadMessage(start, end)
  ELSE IF start + 16 > end THEN Malformed
  ELSE [kind |-> "bundle", elements |-> inner[<<start + 16, end>>]]

\* ReceivedBundle::Init: the elements that the size slots from p to end delimit.
ReadElements(inner, p, end) ==
  LET next == p + 4 + slots[p]
  IN  IF p >= end THEN <<>>
      ELSE IF next > end \/ slots[p] % 4 # 0 THEN <<Malformed>>
      ELSE <<ReadElement(inner, p + 4, next)>> \o inner[<<next, end>>]

Elements[r \in Offsets \X Offsets] == ReadElements(Elements, r[1], r[2])

\* The slots of the elements around an offset, found by following the slots
\* from the inside out; a slot that does not lead outwards ends the path.
Path[p \in Offsets] ==
  IF slots[p] \in Offsets /\ slots[p] < p THEN Append(Path[slots[p]], p) ELSE <<p>>

\* The slots of the open elements, outermost first; they are lost with the pointer.
Chain ==
  IF elementSizePtr = Null \/ astray THEN <<>> ELSE Path[elementSizePtr]

\* The contents of an element follow its slot; the outermost one has no slot.
Contents(slot) == IF slot = 0 THEN 0 ELSE slot + 4

\* What is written of an open element ends where the next one begins.
ContentsEnd ==
  [i \in 1..Len(Chain) |-> IF i < Len(Chain) THEN Chain[i + 1] ELSE messageCursor]

OpenBundles == Len(Chain) - (IF messageIsInProgress THEN 1 ELSE 0)

open ==
  [i \in 1..OpenBundles |-> Elements[<<Contents(Chain[i]) + 16, ContentsEnd[i]>>]]

message ==
  IF messageIsInProgress
  THEN [kind      |-> "message",
        address   |-> headers[Contents(elementSizePtr)],
        arguments |-> ReadArguments(InsertionOrder, block)]
  ELSE [kind |-> "none"]

packet ==
  IF ~IsReady \/ Size = 0 THEN [kind |-> "none"] ELSE ReadElement(Elements, 0, Size)

OscPacket ==
  INSTANCE OscPacket WITH Addresses <- Addresses, Arguments <- Arguments,
                          open <- open, message <- message, packet <- packet

\* Every call on the stream builds, in memory, the tree of elements the caller
\* asked for: the stack of open elements threaded through their size slots
\* (BeginElement and EndElement, OscOutboundPacketStream.cpp:158-203) gives back
\* the containing element every time, the sizes written into the slots delimit
\* exactly the elements, and the type tags agree with the arguments.  It takes words
\* of 4 bytes.
ImplementsPacket == OscPacket!Spec
=============================================================================
