----------------------- MODULE OscOutboundPacketStream ----------------------
(***************************************************************************)
(* osc::OutboundPacketStream (osc/OscOutboundPacketStream.cpp): the stream *)
(* in which OscSender lays out an OSC packet, in one buffer of Capacity    *)
(* bytes.  Pointers into the buffer are offsets from data_.  The memory is *)
(* what a reader would find at an offset: an element-size slot, the header *)
(* of a bundle or the address pattern of a message, a type tag string, a   *)
(* block of arguments.                                                     *)
(*                                                                         *)
(* While a message is built its arguments grow upwards from messageCursor  *)
(* and its type tags downwards from the end of the buffer.  While an       *)
(* element is open its size slot holds the offset of the slot of the       *)
(* element around it: the slots of the open elements are a linked stack.   *)
(*                                                                         *)
(* A slot is 4 bytes of the buffer, but a uint32 is an unsigned long where *)
(* the macro x86_64 is not defined (OscTypes.h:52-60), as in every         *)
(* configuration of EscPlatform.xcodeproj.  With 8-byte words the upper    *)
(* half of what is stored in a slot is overwritten by the header behind    *)
(* it, and read back as part of the offset (on a little-endian machine).   *)
(***************************************************************************)
EXTENDS Integers, Sequences

CONSTANTS
  Capacity,       (* bytes in the buffer                                    *)
  Addresses,      (* address patterns that messages are sent to             *)
  AddressLength,  (* their strlen                                           *)
  Arguments,      (* arguments: a type tag and, for text and blobs, the     *)
                  (* number of bytes                                        *)
  MaxArguments,   (* bound: type tags collected at a time                   *)
  WordSize,       (* sizeof(uint32)                                         *)
  OnePacket       (* does the caller, like OscSender, write one outermost   *)
                  (* element, and arguments only inside a message?          *)

ZeroTags == {"T", "F", "N", "I"}
WordTags == {"i", "f", "c", "r", "m"}
LongTags == {"h", "t", "d"}
TextTags == {"s", "S"}
TypeTags == ZeroTags \cup WordTags \cup LongTags \cup TextTags \cup {"b"}

ASSUME ConstantsAssumption ==
  /\ Capacity \in Nat
  /\ AddressLength \in [Addresses -> Nat]
  /\ "#bundle" \notin Addresses
  /\ Arguments \subseteq [tag : TypeTags, length : Nat]
  /\ \A x \in Arguments : x.tag \in ZeroTags => x.length = 0
  /\ MaxArguments \in Nat
  /\ WordSize \in {4, 8}
  /\ OnePacket \in BOOLEAN

Offsets == {o \in 0..Capacity : o % 4 = 0}   \* everything is 4-byte aligned
Null    == -1                                \* elementSizePtr_ == 0
Unset   == "unset"                           \* memory not written yet

VARIABLES
  typeTags,             \* the tags from typeTagsCurrent_ to end_, newest first
  messageCursor,
  argumentCurrent,
  elementSizePtr,       \* Null: nothing open; 0: only the outermost element;
                        \* of an offset beyond the buffer, the lower word
  astray,               \* is that offset beyond the buffer?
  messageIsInProgress,
  block,                \* the arguments from messageCursor to argumentCurrent
  slots,                \* memory: element-size slots
  headers,              \* memory: "#bundle" or the address pattern
  tagStrings,           \* memory: type tag strings of finished messages
  blocks                \* memory: arguments of finished messages

cursors == <<typeTags, messageCursor, argumentCurrent, block>>
pointer == <<elementSizePtr, astray>>
memory  == <<slots, headers, tagStrings, blocks>>
vars    == <<cursors, pointer, messageIsInProgress, memory>>

Blank(value) == [o \in Offsets |-> value]

Init ==
  /\ typeTags = <<>>
  /\ messageCursor = 0
  /\ argumentCurrent = 0
  /\ elementSizePtr = Null
  /\ astray = FALSE
  /\ messageIsInProgress = FALSE
  /\ block = <<>>
  /\ slots = Blank(0)
  /\ headers = Blank(Unset)
  /\ tagStrings = Blank(<<>>)
  /\ blocks = Blank(<<>>)

RoundUp4(x) == 4 * ((x - 1) \div 4) + 4

\* What an argument adds between messageCursor and argumentCurrent.
ArgumentSize(x) ==
  CASE x.tag \in ZeroTags -> 0
    [] x.tag \in WordTags -> 4
    [] x.tag \in LongTags -> 8
    [] x.tag \in TextTags -> RoundUp4(x.length + 1)
    [] x.tag = "b"        -> 4 + RoundUp4(x.length)

\* Faulty variant: the address pattern is not padded.
AddressSizeUnpadded(address) == AddressLength[address] + 1

AddressSize(address) == RoundUp4(AddressLength[address] + 1)

\* Faulty variant: the type tags of the message in progress are not counted.
SizeWithoutTags == argumentCurrent

Size ==
  argumentCurrent
    + (IF messageIsInProgress THEN RoundUp4(Len(typeTags) + 2) ELSE 0)

IsBundleInProgress == elementSizePtr # Null
IsReady == ~messageIsInProgress /\ ~IsBundleInProgress

SlotSize == IF IsBundleInProgress THEN 4 ELSE 0     \* ElementSizeSlotRequired

SpaceForBundle == Size + SlotSize + 16 <= Capacity

SpaceForMessage(address) ==
  Size + SlotSize + AddressSize(address) + 4 <= Capacity

\* Faulty variant: no room for the new type tag itself.
SpaceForArgumentButTag(x) ==
  argumentCurrent + ArgumentSize(x) + RoundUp4(Len(typeTags) + 2) <= Capacity

SpaceForArgument(x) ==
  argumentCurrent + ArgumentSize(x) + RoundUp4(Len(typeTags) + 3) <= Capacity

\* Faulty variant: the slot of the containing element is not remembered.
BeginElementUnlinked ==
  /\ elementSizePtr' = IF IsBundleInProgress THEN messageCursor ELSE 0
  /\ astray' = FALSE
  /\ slots' = slots

\* The lower word of the old offset is stored; an upper word does not stay.
BeginElement ==
  /\ astray' = FALSE
  /\ \/ /\ elementSizePtr = Null
        /\ elementSizePtr' = 0
        /\ slots' = slots
     \/ /\ elementSizePtr # Null
        /\ elementSizePtr' = messageCursor
        /\ slots' = [slots EXCEPT ![messageCursor] = elementSizePtr]

\* What is read back from a slot takes the header behind it for its upper word,
\* which is zero only if it is an empty address.
Overwritten(slot) ==
  /\ WordSize = 8
  /\ headers[slot + 4] \in Addresses => AddressLength[headers[slot + 4]] # 0

\* Faulty variant: the size counts the slot itself.
EndElementWithSlot(end) ==
  /\ ~astray
  /\ elementSizePtr' = IF elementSizePtr = 0 THEN Null ELSE slots[elementSizePtr]
  /\ astray' = (elementSizePtr # 0 /\ Overwritten(elementSizePtr))
  /\ slots' = IF elementSizePtr = 0 THEN slots
              ELSE [slots EXCEPT ![elementSizePtr] = end - elementSizePtr]

\* A pointer beyond the buffer is dereferenced: undefined, and the process ends.
EndElement(end) ==
  /\ ~astray
  /\ \/ /\ elementSizePtr = 0
        /\ elementSizePtr' = Null
        /\ astray' = FALSE
        /\ slots' = slots
     \/ /\ elementSizePtr # 0
        /\ elementSizePtr' = slots[elementSizePtr]
        /\ astray' = Overwritten(elementSizePtr)
        /\ slots' = [slots EXCEPT ![elementSizePtr] = end - elementSizePtr - 4]

\* The caller keeps to one outermost element between two Clears.
MayOpen == OnePacket => IsBundleInProgress \/ messageCursor = 0

\* operator<<(BundleInitiator); every other outcome throws and changes nothing.
BeginBundle ==
  /\ MayOpen
  /\ ~messageIsInProgress
  /\ SpaceForBundle
  /\ BeginElement
  /\ headers' = [headers EXCEPT ![messageCursor + SlotSize] = "#bundle"]
  /\ messageCursor' = messageCursor + SlotSize + 16
  /\ argumentCurrent' = messageCursor'
  /\ block' = <<>>
  /\ UNCHANGED <<typeTags, messageIsInProgress, tagStrings, blocks>>

\* operator<<(BundleTerminator)
EndBundle ==
  /\ IsBundleInProgress
  /\ ~messageIsInProgress
  /\ EndElement(messageCursor)
  /\ UNCHANGED <<cursors, messageIsInProgress, headers, tagStrings, blocks>>

\* operator<<(BeginMessage)
BeginMessage(address) ==
  /\ MayOpen
  /\ ~messageIsInProgress
  /\ SpaceForMessage(address)
  /\ BeginElement
  /\ headers' = [headers EXCEPT ![messageCursor + SlotSize] = address]
  /\ messageCursor' = messageCursor + SlotSize + AddressSize(address)
  /\ argumentCurrent' = messageCursor'
  /\ block' = <<>>
  /\ typeTags' = <<>>
  /\ messageIsInProgress' = TRUE
  /\ UNCHANGED <<tagStrings, blocks>>

TypeTagSlotSize ==
  IF typeTags = <<>> THEN 4 ELSE RoundUp4(Len(typeTags) + 2)

\* Faulty variant: the tags are copied in the order they lie in memory.
InsertionOrderReversed == typeTags

\* The loop that copies the tags out in reverse: first argument first.
InsertionOrder == [i \in 1..Len(typeTags) |-> typeTags[Len(typeTags) + 1 - i]]

\* operator<<(MessageTerminator): the tag string goes before the arguments.
EndMessage ==
  /\ messageIsInProgress
  /\ tagStrings' = [tagStrings EXCEPT ![messageCursor] = InsertionOrder]
  /\ blocks' = [blocks EXCEPT ![messageCursor + TypeTagSlotSize] = block]
  /\ messageCursor' = argumentCurrent + TypeTagSlotSize
  /\ argumentCurrent' = messageCursor'
  /\ EndElement(messageCursor')
  /\ typeTags' = <<>>
  /\ block' = <<>>
  /\ messageIsInProgress' = FALSE
  /\ UNCHANGED headers

\* operator<< of bool, NilType, int32, ..., Blob.  None of them looks at
\* messageIsInProgress.
AddArgument(x) ==
  /\ OnePacket => messageIsInProgress
  /\ SpaceForArgument(x)
  /\ Len(typeTags) < MaxArguments
  /\ typeTags' = <<x.tag>> \o typeTags
  /\ argumentCurrent' = argumentCurrent + ArgumentSize(x)
  /\ block' = IF ArgumentSize(x) = 0 THEN block ELSE Append(block, x)
  /\ UNCHANGED <<messageCursor, pointer, messageIsInProgress, memory>>

\* Clear leaves the bytes where they are; they are not told apart from memory
\* that was never written.
Clear ==
  /\ typeTags' = <<>>
  /\ messageCursor' = 0
  /\ argumentCurrent' = 0
  /\ elementSizePtr' = Null
  /\ astray' = FALSE
  /\ messageIsInProgress' = FALSE
  /\ block' = <<>>
  /\ slots' = Blank(0)
  /\ headers' = Blank(Unset)
  /\ tagStrings' = Blank(<<>>)
  /\ blocks' = Blank(<<>>)

Next ==
  \/ BeginBundle
  \/ EndBundle
  \/ \E address \in Addresses : BeginMessage(address)
  \/ EndMessage
  \/ \E x \in Arguments : AddArgument(x)
  \/ Clear

Spec == Init /\ [][Next]_vars

-----------------------------------------------------------------------------
(* Properties                                                              *)

\* Type invariant.  It also says that every cursor stays inside the buffer and
\* aligned; of elementSizePtr, which EndElement takes out of a slot, it says so of
\* the lower word alone.
TypeOK ==
  /\ typeTags \in Seq(TypeTags)
  /\ messageCursor \in Offsets
  /\ argumentCurrent \in Offsets
  /\ elementSizePtr \in Offsets \cup {Null}
  /\ astray \in BOOLEAN
  /\ messageIsInProgress \in BOOLEAN
  /\ block \in Seq(Arguments)
  /\ slots \in [Offsets -> Nat]
  /\ headers \in [Offsets -> Addresses \cup {"#bundle", Unset}]
  /\ tagStrings \in [Offsets -> Seq(TypeTags)]
  /\ blocks \in [Offsets -> Seq(Arguments)]

\* While a message is in progress its arguments, growing up, never reach its
\* type tags, growing down from end_, and the finished message, whose tag string
\* is padded, starts with a comma and ends with a zero byte, still fits: the two
\* space checks leave room for what operator<<(MessageTerminator), which checks
\* nothing, will write (OscOutboundPacketStream.cpp:221-240, 359-409).
FinishedMessageFits ==
  messageIsInProgress =>
    /\ argumentCurrent <= Capacity - Len(typeTags)
    /\ argumentCurrent + TypeTagSlotSize <= Capacity

\* "invariant: size() is valid even while building a message"
\* (OscOutboundPacketStream.h:76): Size never exceeds Capacity, and closing a
\* message or a bundle never changes what Size had announced.
SizeIsValid ==
  [][/\ Size' <= Capacity
     /\ EndMessage \/ EndBundle => Size' = Size]_vars

\* "we store an offset rather than the actual pointer to be 64 bit clean"
\* (OscOutboundPacketStream.cpp:168): the pointer that EndElement takes out of a slot
\* leads into the buffer.  With words of 8 bytes it does not (MCOscStream_words.cfg).
PointerStaysInBuffer == ~astray
=============================================================================
