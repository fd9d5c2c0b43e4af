-------------------- MODULE OscOutboundPacketStreamProofs -------------------
(***************************************************************************)
(* OutboundPacketStream, for every capacity, every set of address patterns *)
(* and arguments, and every order of calls: type correctness,              *)
(* FinishedMessageFits, SizeIsValid, and that the stream implements        *)
(* OscPacket.                                                              *)
(*                                                                         *)
(* TypeOK is not inductive: EndElement reads an offset out of the memory,  *)
(* and that it is an offset follows from LinkedStack, the list threaded    *)
(* through the slots of the open elements.  The refinement needs RInv on   *)
(* top of it: the finished elements of every open bundle follow one        *)
(* another exactly, from its header to the next open element, so that a    *)
(* reader that follows the sizes arrives where the writer is.              *)
(***************************************************************************)
EXTENDS OscStreamPacket, TLAPS, WellFoundedInduction, FiniteSetTheorems, SequenceTheorems

\* c[1..n] are the slots of the open elements, outermost first: each holds the
\* offset of the one before it, and lies completely below the cursor.
IsStack(n, c) ==
  /\ elementSizePtr = IF n = 0 THEN Null ELSE c[n]
  /\ n > 0 => c[1] = 0
  /\ \A i \in 2..n : c[i] > 0 /\ slots[c[i]] = c[i - 1]
  /\ \A i, j \in 1..n : i < j => c[i] < c[j]
  /\ \A i \in 1..n : c[i] + 4 <= messageCursor

LinkedStack == \E n \in Nat : \E c \in [1..n -> Offsets] : IsStack(n, c)

CursorsInOrder ==
  /\ messageCursor <= argumentCurrent
  /\ messageIsInProgress => elementSizePtr # Null

IInv == TypeOK /\ CursorsInOrder /\ LinkedStack /\ FinishedMessageFits

\* What the reader needs, which lasts with words of 4 bytes.
PInv == IInv /\ PointerStaysInBuffer

\* The buffer has a size.
LEMMA CapacityIsNat == Capacity \in Nat
  BY ConstantsAssumption

USE CapacityIsNat

\* Room for one more word, in the forms in which the space checks use it.
LEMMA WordBelow ==
  \A a \in Nat, b \in Nat, d \in Nat :
     a + 4 <= b => a < b /\ a <= b /\ b >= 4 /\ (b <= d => a + 4 <= d)
  OBVIOUS

\* Offsets are the multiples of four inside the buffer.
LEMMA OffsetsAreAligned ==
  /\ \A o \in Offsets : o \in Nat /\ o <= Capacity /\ o % 4 = 0
  /\ \A o \in Nat : o <= Capacity /\ o % 4 = 0 => o \in Offsets
  BY DEF Offsets

\* RoundUp4 gives the next multiple of four.
LEMMA RoundUp4Bounds ==
  ASSUME NEW x \in Nat
  PROVE  /\ RoundUp4(x) \in Nat
         /\ RoundUp4(x) % 4 = 0
         /\ x <= RoundUp4(x) /\ RoundUp4(x) <= x + 3
  BY DEF RoundUp4

\* The tag string of a message without arguments, a comma and a zero, is one word.
LEMMA RoundUp4OfTwo == RoundUp4(2) = 4
  BY DEF RoundUp4

\* Every argument occupies whole words.
LEMMA ArgumentSizeAligned ==
  ASSUME NEW x \in Arguments
  PROVE  ArgumentSize(x) \in Nat /\ ArgumentSize(x) % 4 = 0
<1>1. x.tag \in TypeTags /\ x.length \in Nat
  BY ConstantsAssumption
<1>2. /\ RoundUp4(x.length + 1) \in Nat /\ RoundUp4(x.length + 1) % 4 = 0
      /\ RoundUp4(x.length) \in Nat /\ RoundUp4(x.length) % 4 = 0
  BY <1>1, RoundUp4Bounds
<1>3. CASE x.tag \in ZeroTags
  BY <1>3 DEF ArgumentSize, ZeroTags, WordTags, LongTags, TextTags
<1>4. CASE x.tag \in WordTags
  BY <1>4 DEF ArgumentSize, ZeroTags, WordTags, LongTags, TextTags
<1>5. CASE x.tag \in LongTags
  BY <1>5 DEF ArgumentSize, ZeroTags, WordTags, LongTags, TextTags
<1>6. CASE x.tag \in TextTags
  BY <1>2, <1>6 DEF ArgumentSize, ZeroTags, WordTags, LongTags, TextTags
<1>7. CASE x.tag = "b"
  BY <1>2, <1>7 DEF ArgumentSize, ZeroTags, WordTags, LongTags, TextTags
<1>8. QED
  BY <1>1, <1>3, <1>4, <1>5, <1>6, <1>7 DEF TypeTags

\* An address pattern occupies at least one word.
LEMMA AddressSizeAligned ==
  ASSUME NEW address \in Addresses
  PROVE  AddressSize(address) \in Nat /\ AddressSize(address) % 4 = 0 /\ AddressSize(address) >= 1
<1>1. AddressLength[address] + 1 \in Nat /\ AddressLength[address] + 1 >= 1
  BY ConstantsAssumption
<1>2. QED
  BY <1>1, RoundUp4Bounds DEF AddressSize

\* The tag string that EndMessage will write.
LEMMA TagSlot ==
  ASSUME TypeOK
  PROVE  /\ TypeTagSlotSize = RoundUp4(Len(typeTags) + 2)
         /\ TypeTagSlotSize \in Nat
         /\ TypeTagSlotSize % 4 = 0
         /\ TypeTagSlotSize >= 4
         /\ TypeTagSlotSize >= Len(typeTags)
<1>1. Len(typeTags) \in Nat /\ (typeTags = <<>> <=> Len(typeTags) = 0)
  BY DEF TypeOK
<1>2. RoundUp4(Len(typeTags) + 2) >= 2 /\ RoundUp4(Len(typeTags) + 2) \in Nat
      /\ RoundUp4(Len(typeTags) + 2) % 4 = 0
      /\ RoundUp4(Len(typeTags) + 2) >= Len(typeTags) + 2
  <2>1. Len(typeTags) + 2 \in Nat /\ Len(typeTags) + 2 >= 2
    BY <1>1
  <2> HIDE DEF RoundUp4
  <2>2. /\ RoundUp4(Len(typeTags) + 2) \in Nat
        /\ RoundUp4(Len(typeTags) + 2) % 4 = 0
        /\ Len(typeTags) + 2 <= RoundUp4(Len(typeTags) + 2)
    BY <2>1, RoundUp4Bounds
  <2>3. QED
    BY <1>1, <2>2
<1>3. CASE typeTags = <<>>
  BY <1>1, <1>2, <1>3, RoundUp4OfTwo DEF TypeTagSlotSize
<1>4. CASE typeTags # <<>>
  BY <1>1, <1>2, <1>4 DEF TypeTagSlotSize
<1>5. QED
  BY <1>3, <1>4

\* BeginElement pushes the slot at the cursor, if the new element gets one.
LEMMA BeginElementPushes ==
  ASSUME TypeOK, LinkedStack, BeginElement,
         messageCursor' \in Offsets,
         messageCursor' >= messageCursor + SlotSize + 4
  PROVE  /\ elementSizePtr' \in Offsets
         /\ astray' \in BOOLEAN
         /\ slots' \in [Offsets -> Nat]
         /\ LinkedStack'
<1>0. messageCursor \in Offsets /\ slots \in [Offsets -> Nat]
  BY DEF TypeOK
<1>a. PICK n \in Nat : \E c \in [1..n -> Offsets] : IsStack(n, c)
  BY DEF LinkedStack
<1>1. PICK c \in [1..n -> Offsets] : IsStack(n, c)
  BY <1>a
<1>b. astray' \in BOOLEAN
  BY DEF BeginElement
<1>2. CASE elementSizePtr = Null
  <2>1. n = 0
    BY <1>1, <1>2 DEF IsStack, Null, Offsets
  <2>2. elementSizePtr' = 0 /\ slots' = slots
    BY <1>2 DEF BeginElement
  <2>3. 0 \in Offsets
    BY DEF Offsets
  <2> DEFINE d == [i \in 1..1 |-> 0]
  <2>4. d \in [1..1 -> Offsets] /\ d[1] = 0
    BY <2>3
  <2>5. messageCursor' >= 4
    BY <1>0, <1>2 DEF SlotSize, IsBundleInProgress, Offsets
  <2>6. IsStack(1, d)'
    BY <2>2, <2>4, <2>5 DEF IsStack
  <2>7. QED
    BY <1>0, <1>b, <2>2, <2>3, <2>4, <2>6 DEF LinkedStack
<1>3. CASE elementSizePtr # Null
  <2>1. n > 0 /\ elementSizePtr = c[n]
    BY <1>1, <1>3 DEF IsStack
  <2>2. /\ elementSizePtr' = messageCursor
        /\ slots' = [slots EXCEPT ![messageCursor] = elementSizePtr]
    BY <1>3 DEF BeginElement
  <2>a. PICK d \in [1..(n + 1) -> Offsets] :
              d = [i \in 1..(n + 1) |-> IF i = n + 1 THEN messageCursor ELSE c[i]]
    <3> DEFINE e == [i \in 1..(n + 1) |-> IF i = n + 1 THEN messageCursor ELSE c[i]]
    <3>1. ASSUME NEW i \in 1..(n + 1)
          PROVE  (IF i = n + 1 THEN messageCursor ELSE c[i]) \in Offsets
      <4>1. i # n + 1 => i \in 1..n
        OBVIOUS
      <4>2. QED
        BY <1>0, <4>1
    <3>2. e \in [1..(n + 1) -> Offsets]
      BY <3>1
    <3>3. QED
      BY <3>2
  <2>3. d[n + 1] = messageCursor /\ \A i \in 1..n : d[i] = c[i] /\ d[i] \in Offsets
    BY <2>a
  <2>4. \A i \in 1..n : c[i] + 4 <= messageCursor
    BY <1>1 DEF IsStack
  <2>5. messageCursor' >= messageCursor + 4
    BY <1>0, <1>3 DEF SlotSize, IsBundleInProgress, Offsets
  <2>6. elementSizePtr' = d[n + 1] /\ d[1] = 0
    BY <1>1, <2>1, <2>2, <2>3 DEF IsStack
  <2>7. ASSUME NEW i \in 2..(n + 1)
        PROVE  d[i] > 0 /\ slots'[d[i]] = d[i - 1]
    <3>1. CASE i = n + 1
      <4>0. n \in 1..n
        BY <2>1
      <4>1. messageCursor >= 4
        <5>1. c[n] \in Offsets /\ c[n] + 4 <= messageCursor
          BY <2>3, <2>4, <4>0
        <5>2. QED
          BY <1>0, <5>1, OffsetsAreAligned, WordBelow
      <4>2. d[i] = messageCursor /\ d[i - 1] = c[n]
        BY <2>3, <3>1, <4>0
      <4>3. slots'[messageCursor] = c[n]
        BY <1>0, <2>1, <2>2
      <4>4. QED
        BY <1>0, <4>1, <4>2, <4>3, OffsetsAreAligned
    <3>2. CASE i # n + 1
      <4>1. i \in 2..n /\ i - 1 \in 1..n /\ i \in 1..n
        BY <3>2
      <4>2. c[i] > 0 /\ slots[c[i]] = c[i - 1]
        BY <1>1, <4>1 DEF IsStack
      <4>a. c[i] # messageCursor
        <5>1. c[i] \in Offsets /\ c[i] + 4 <= messageCursor
          BY <2>3, <2>4, <4>1
        <5>2. c[i] \in Nat /\ messageCursor \in Nat
          BY <1>0, <5>1, OffsetsAreAligned
        <5>3. c[i] < messageCursor
          BY <5>1, <5>2, WordBelow
        <5>4. QED
          BY <5>2, <5>3
      <4>b. c[i] # messageCursor /\ c[i] \in Offsets /\ d[i] = c[i] /\ d[i - 1] = c[i - 1]
        BY <2>3, <4>1, <4>a
      <4>3. QED
        BY <1>0, <2>2, <4>2, <4>b
    <3>3. QED
      BY <3>1, <3>2
  <2>8. ASSUME NEW i \in 1..(n + 1), NEW j \in 1..(n + 1), i < j
        PROVE  d[i] < d[j]
    <3>1. i \in 1..n
      BY <2>8
    <3>2. CASE j = n + 1
      <4>1. d[i] = c[i] /\ d[i] \in Int /\ c[i] + 4 <= messageCursor
        BY <2>3, <2>4, <3>1 DEF Offsets
      <4>2. messageCursor \in Int
        BY <1>0 DEF Offsets
      <4>3. QED
        BY <2>3, <3>2, <4>1, <4>2
    <3>3. CASE j # n + 1
      BY <1>1, <2>3, <2>8, <3>1, <3>3 DEF IsStack
    <3>4. QED
      BY <3>2, <3>3
  <2>9. \A i \in 1..(n + 1) : d[i] + 4 <= messageCursor'
    <3>1. messageCursor \in Int /\ messageCursor' \in Int
      BY <1>0 DEF Offsets
    <3>2. ASSUME NEW i \in 1..(n + 1) PROVE d[i] + 4 <= messageCursor'
      <4>1. CASE i = n + 1
        BY <2>3, <2>5, <3>1, <4>1
      <4>2. CASE i # n + 1
        <5>1. i \in 1..n
          BY <4>2
        <5>2. d[i] = c[i] /\ d[i] \in Int /\ c[i] + 4 <= messageCursor
          BY <2>3, <2>4, <5>1 DEF Offsets
        <5>3. QED
          BY <2>5, <3>1, <5>2
      <4>3. QED
        BY <4>1, <4>2
    <3>3. QED
      BY <3>2
  <2>10. IsStack(n + 1, d)'
    <3>1. \A i \in 2..(n + 1) : d[i] > 0 /\ slots'[d[i]] = d[i - 1]
      BY <2>7
    <3>2. \A i, j \in 1..(n + 1) : i < j => d[i] < d[j]
      BY <2>8
    <3>3. QED
      BY <2>6, <2>9, <3>1, <3>2 DEF IsStack
  <2>11. slots' \in [Offsets -> Nat]
    BY <1>0, <2>1, <2>2, <2>3 DEF Offsets
  <2>12. QED
    <3>1. n + 1 \in Nat
      OBVIOUS
    <3>2. LinkedStack'
      BY <2>3, <2>10, <3>1 DEF LinkedStack
    <3>3. QED
      BY <1>0, <1>b, <2>2, <2>11, <3>2
<1>4. QED
  BY <1>2, <1>3

\* EndElement pops the innermost slot: what it reads there is the slot below.
LEMMA EndElementPops ==
  ASSUME TypeOK, LinkedStack, elementSizePtr # Null, NEW end \in Nat,
         end >= messageCursor,
         EndElement(end),
         messageCursor' \in Offsets,
         messageCursor' >= messageCursor
  PROVE  /\ elementSizePtr' \in Offsets \cup {Null}
         /\ astray' \in BOOLEAN
         /\ slots' \in [Offsets -> Nat]
         /\ LinkedStack'
<1>0. messageCursor \in Offsets /\ slots \in [Offsets -> Nat]
  BY DEF TypeOK
<1>a. PICK n \in Nat : \E c \in [1..n -> Offsets] : IsStack(n, c)
  BY DEF LinkedStack
<1>1. PICK c \in [1..n -> Offsets] : IsStack(n, c)
  BY <1>a
<1>2. n > 0 /\ elementSizePtr = c[n]
  BY <1>1 DEF IsStack
<1>b. astray' \in BOOLEAN
  <2>1. astray' = FALSE \/ astray' = Overwritten(elementSizePtr)
    BY DEF EndElement
  <2>2. Overwritten(elementSizePtr) \in BOOLEAN
    BY DEF Overwritten
  <2>3. QED
    BY <2>1, <2>2
<1>3. CASE elementSizePtr = 0
  <2>1. elementSizePtr' = Null /\ slots' = slots
    BY <1>3 DEF EndElement
  <2> DEFINE d == [i \in 1..0 |-> 0]
  <2>2. d \in [1..0 -> Offsets] /\ IsStack(0, d)'
    BY <2>1 DEF IsStack
  <2>3. QED
    BY <1>0, <1>b, <2>1, <2>2 DEF LinkedStack
<1>4. CASE elementSizePtr # 0
  <2>1. /\ elementSizePtr' = slots[elementSizePtr]
        /\ slots' = [slots EXCEPT ![elementSizePtr] = end - elementSizePtr - 4]
    BY <1>4 DEF EndElement
  <2>2. n \in 2..n /\ n - 1 \in 1..n
    BY <1>1, <1>2, <1>4 DEF IsStack
  <2>3. elementSizePtr' = c[n - 1]
    BY <1>1, <1>2, <2>1, <2>2 DEF IsStack
  <2>4. \A i \in 1..n : c[i] \in Offsets /\ c[i] + 4 <= messageCursor
    BY <1>1 DEF IsStack
  <2> DEFINE d == [i \in 1..(n - 1) |-> c[i]]
  <2>5. d \in [1..(n - 1) -> Offsets] /\ \A i \in 1..(n - 1) : d[i] = c[i]
    BY <2>4
  <2>6. \A i \in 2..(n - 1) : d[i] > 0 /\ slots'[d[i]] = d[i - 1]
    <3>1. ASSUME NEW i \in 2..(n - 1)
          PROVE  d[i] > 0 /\ slots'[d[i]] = d[i - 1]
      <4>1. i \in 2..n /\ i \in 1..(n - 1) /\ i - 1 \in 1..(n - 1) /\ i \in 1..n
        BY <2>2
      <4>2. c[i] > 0 /\ slots[c[i]] = c[i - 1] /\ c[i] < c[n]
        BY <1>1, <2>2, <4>1 DEF IsStack
      <4>3. c[i] # elementSizePtr /\ c[i] \in Offsets
        BY <1>2, <2>4, <4>1, <4>2 DEF Offsets
      <4>4. QED
        BY <1>0, <2>1, <2>5, <4>1, <4>2, <4>3
    <3>2. QED
      BY <3>1
  <2>7. \A i, j \in 1..(n - 1) : i < j => d[i] < d[j]
    BY <1>1, <2>5 DEF IsStack
  <2>8. \A i \in 1..(n - 1) : d[i] + 4 <= messageCursor'
    <3>1. \A i \in 1..(n - 1) : d[i] \in Offsets /\ d[i] + 4 <= messageCursor
      BY <2>4, <2>5
    <3>2. QED
      BY <1>0, <3>1, OffsetsAreAligned, WordBelow
  <2>9. d[1] = 0 /\ elementSizePtr' = d[n - 1]
    BY <1>1, <2>2, <2>3, <2>5 DEF IsStack
  <2>10. IsStack(n - 1, d)'
    <3> HIDE DEF d
    <3>1. QED
      BY <2>2, <2>6, <2>7, <2>8, <2>9 DEF IsStack
  <2>11. end - elementSizePtr - 4 \in Nat
    <3>1. n \in 1..n /\ c[n] \in Offsets /\ c[n] + 4 <= messageCursor
      BY <2>2, <2>4
    <3>2. c[n] \in Int /\ messageCursor \in Int
      BY <1>0, <3>1 DEF Offsets
    <3>3. QED
      BY <1>2, <3>1, <3>2
  <2>12. slots' \in [Offsets -> Nat]
    BY <1>0, <2>1, <2>11
  <2>13. elementSizePtr' \in Offsets
    BY <2>2, <2>3, <2>4
  <2>14. n - 1 \in Nat
    BY <2>2
  <2>15. QED
    BY <1>b, <2>5, <2>10, <2>12, <2>13, <2>14 DEF LinkedStack
<1>5. QED
  BY <1>3, <1>4

\* Memory in its first state, of any kind.
LEMMA BlankType ==
  ASSUME NEW S, NEW value \in S
  PROVE  Blank(value) \in [Offsets -> S]
  BY DEF Blank

\* A new stream satisfies the invariant.
LEMMA InitInv == Init => IInv
<1> SUFFICES ASSUME Init PROVE IInv
  OBVIOUS
<1> USE DEF Init
<1>1. 0 \in Offsets
  BY DEF Offsets
<1>2. TypeOK
  <2>1. slots \in [Offsets -> Nat]
    BY BlankType, 0 \in Nat
  <2>2. headers \in [Offsets -> Addresses \cup {"#bundle", Unset}]
    BY BlankType, Unset \in Addresses \cup {"#bundle", Unset}
  <2>3. tagStrings \in [Offsets -> Seq(TypeTags)]
    BY BlankType, <<>> \in Seq(TypeTags)
  <2>4. blocks \in [Offsets -> Seq(Arguments)]
    BY BlankType, <<>> \in Seq(Arguments)
  <2>5. typeTags \in Seq(TypeTags) /\ block \in Seq(Arguments)
    OBVIOUS
  <2>6. QED
    BY <1>1, <2>1, <2>2, <2>3, <2>4, <2>5 DEF TypeOK, Null
<1>3. CursorsInOrder /\ FinishedMessageFits
  BY DEF CursorsInOrder, FinishedMessageFits
<1>4. LinkedStack
  <2> DEFINE d == [i \in 1..0 |-> 0]
  <2>1. d \in [1..0 -> Offsets] /\ IsStack(0, d)
    BY DEF IsStack
  <2>2. QED
    BY <2>1 DEF LinkedStack
<1>5. QED
  BY <1>2, <1>3, <1>4 DEF IInv

\* operator<<(BundleInitiator) keeps the invariant.
LEMMA BeginBundleInv ==
  ASSUME IInv, BeginBundle
  PROVE  IInv'
<1>1. /\ TypeOK /\ CursorsInOrder /\ LinkedStack
      /\ messageCursor \in Offsets /\ argumentCurrent \in Offsets
  BY DEF IInv, TypeOK
<1>2. SlotSize \in {0, 4}
  BY DEF SlotSize
<1>3. messageCursor' = messageCursor + SlotSize + 16 /\ argumentCurrent' = messageCursor'
  BY DEF BeginBundle
<1>4. messageCursor + SlotSize + 16 <= Capacity
  BY <1>1, <1>2 DEF BeginBundle, SpaceForBundle, Size, CursorsInOrder, Offsets
<1>5. messageCursor' \in Offsets
  BY <1>1, <1>2, <1>3, <1>4 DEF Offsets
<1>6. /\ elementSizePtr' \in Offsets /\ astray' \in BOOLEAN
      /\ slots' \in [Offsets -> Nat] /\ LinkedStack'
  <2>1. messageCursor' >= messageCursor + SlotSize + 4
    BY <1>1, <1>2, <1>3 DEF Offsets
  <2>2. BeginElement
    BY DEF BeginBundle
  <2>3. QED
    BY <1>1, <1>5, <2>1, <2>2, BeginElementPushes
<1>7. TypeOK'
  <2>1. headers' \in [Offsets -> Addresses \cup {"#bundle", Unset}]
    BY <1>1 DEF TypeOK, BeginBundle
  <2>2. block' = <<>> /\ UNCHANGED <<typeTags, messageIsInProgress, tagStrings, blocks>>
    BY DEF BeginBundle
  <2>3. argumentCurrent' \in Offsets /\ messageCursor' \in Offsets
    BY <1>3, <1>5
  <2>4. typeTags' \in Seq(TypeTags) /\ block' \in Seq(Arguments)
    BY <1>1, <2>2 DEF TypeOK
  <2>5. /\ messageIsInProgress' \in BOOLEAN
        /\ tagStrings' \in [Offsets -> Seq(TypeTags)]
        /\ blocks' \in [Offsets -> Seq(Arguments)]
    BY <1>1, <2>2 DEF TypeOK
  <2>6. QED
    BY <1>5, <1>6, <2>1, <2>3, <2>4, <2>5 DEF TypeOK
<1>8. CursorsInOrder' /\ FinishedMessageFits'
  BY <1>3, <1>5 DEF BeginBundle, CursorsInOrder, FinishedMessageFits, Offsets
<1>9. QED
  BY <1>6, <1>7, <1>8 DEF IInv

\* operator<<(BundleTerminator) keeps the invariant.
LEMMA EndBundleInv ==
  ASSUME IInv, EndBundle
  PROVE  IInv'
<1>1. /\ TypeOK /\ CursorsInOrder /\ LinkedStack
      /\ messageCursor \in Offsets /\ messageCursor \in Nat
  BY DEF IInv, TypeOK, Offsets
<1>2. messageCursor' = messageCursor /\ elementSizePtr # Null /\ EndElement(messageCursor)
  BY DEF EndBundle, cursors, IsBundleInProgress
<1>3. /\ elementSizePtr' \in Offsets \cup {Null} /\ astray' \in BOOLEAN
      /\ slots' \in [Offsets -> Nat]
      /\ LinkedStack'
  <2>1. messageCursor >= messageCursor /\ messageCursor' >= messageCursor
        /\ messageCursor' \in Offsets
    BY <1>1, <1>2
  <2>2. QED
    BY <1>1, <1>2, <2>1, EndElementPops
<1>4. TypeOK'
  BY <1>1, <1>3 DEF TypeOK, EndBundle, cursors
<1>5. CursorsInOrder' /\ FinishedMessageFits'
  BY <1>1 DEF EndBundle, cursors, CursorsInOrder, FinishedMessageFits
<1>6. QED
  BY <1>3, <1>4, <1>5 DEF IInv

\* operator<<(BeginMessage) keeps the invariant: the four bytes its check asks
\* for beyond the address pattern are those of the shortest tag string.
LEMMA BeginMessageInv ==
  ASSUME IInv, NEW address \in Addresses, BeginMessage(address)
  PROVE  IInv'
<1>1. /\ TypeOK /\ CursorsInOrder /\ LinkedStack
      /\ messageCursor \in Offsets /\ argumentCurrent \in Offsets
  BY DEF IInv, TypeOK
<1>2. SlotSize \in {0, 4}
  BY DEF SlotSize
<1>3. /\ messageCursor' = messageCursor + SlotSize + AddressSize(address)
      /\ argumentCurrent' = messageCursor'
      /\ BeginElement
  BY DEF BeginMessage
<1>4. AddressSize(address) \in Nat /\ AddressSize(address) % 4 = 0 /\ AddressSize(address) >= 4
  <2>1. AddressSize(address) \in Nat /\ AddressSize(address) % 4 = 0 /\ AddressSize(address) >= 1
    BY AddressSizeAligned
  <2>2. QED
    BY <2>1
<1>5. messageCursor + SlotSize + AddressSize(address) + 4 <= Capacity
  <2>1. argumentCurrent + SlotSize + AddressSize(address) + 4 <= Capacity
    BY <1>1 DEF BeginMessage, SpaceForMessage, Size, Offsets
  <2>2. QED
    BY <1>1, <1>2, <1>4, <2>1 DEF CursorsInOrder, Offsets
<1>6. messageCursor' \in Offsets
  BY <1>1, <1>2, <1>3, <1>4, <1>5 DEF Offsets
<1>7. /\ elementSizePtr' \in Offsets /\ astray' \in BOOLEAN
      /\ slots' \in [Offsets -> Nat] /\ LinkedStack'
  <2>1. messageCursor' >= messageCursor + SlotSize + 4
    BY <1>1, <1>2, <1>3, <1>4 DEF Offsets
  <2>2. QED
    BY <1>1, <1>3, <1>6, <2>1, BeginElementPushes
<1>8. TypeOK'
  <2>1. headers' \in [Offsets -> Addresses \cup {"#bundle", Unset}]
    BY <1>1 DEF TypeOK, BeginMessage
  <2>2. /\ block' = <<>> /\ typeTags' = <<>> /\ messageIsInProgress' = TRUE
        /\ UNCHANGED <<tagStrings, blocks>>
    BY DEF BeginMessage
  <2>3. argumentCurrent' \in Offsets /\ messageCursor' \in Offsets
    BY <1>3, <1>6
  <2>4. typeTags' \in Seq(TypeTags) /\ block' \in Seq(Arguments)
    BY <1>1, <2>2 DEF TypeOK
  <2>5. /\ messageIsInProgress' \in BOOLEAN
        /\ tagStrings' \in [Offsets -> Seq(TypeTags)]
        /\ blocks' \in [Offsets -> Seq(Arguments)]
    BY <1>1, <2>2 DEF TypeOK
  <2>6. QED
    BY <1>6, <1>7, <2>1, <2>3, <2>4, <2>5 DEF TypeOK
<1>9. CursorsInOrder'
  <2>1. elementSizePtr' # Null
    BY <1>7 DEF Offsets, Null
  <2>2. messageCursor' <= argumentCurrent'
    BY <1>3, <1>6 DEF Offsets
  <2>3. QED
    BY <2>1, <2>2 DEF CursorsInOrder
<1>10. FinishedMessageFits'
  <2>1. typeTags' = <<>> /\ Len(typeTags') = 0
    BY DEF BeginMessage
  <2>2. TypeTagSlotSize' = 4
    BY <2>1 DEF TypeTagSlotSize
  <2>3. argumentCurrent' + 4 <= Capacity /\ argumentCurrent' \in Nat
    BY <1>1, <1>2, <1>3, <1>4, <1>5 DEF Offsets
  <2>4. argumentCurrent' <= Capacity - Len(typeTags')
    <3>1. argumentCurrent' <= Capacity
      BY <2>3, WordBelow
    <3>a. Capacity - 0 = Capacity
      OBVIOUS
    <3>2. QED
      BY <2>1, <3>1, <3>a
  <2>5. QED
    BY <2>2, <2>3, <2>4 DEF FinishedMessageFits
<1>11. QED
  BY <1>7, <1>8, <1>9, <1>10 DEF IInv

\* operator<<(MessageTerminator) keeps the invariant: FinishedMessageFits keeps
\* the cursor inside the buffer.
LEMMA EndMessageInv ==
  ASSUME IInv, EndMessage
  PROVE  IInv'
<1>1. /\ TypeOK /\ CursorsInOrder /\ LinkedStack /\ FinishedMessageFits
      /\ messageCursor \in Offsets /\ argumentCurrent \in Offsets
      /\ messageIsInProgress
  BY DEF IInv, TypeOK, EndMessage
<1>2. /\ messageCursor' = argumentCurrent + TypeTagSlotSize
      /\ argumentCurrent' = messageCursor'
      /\ EndElement(messageCursor')
      /\ typeTags' = <<>> /\ block' = <<>> /\ messageIsInProgress' = FALSE
  BY DEF EndMessage
<1>3. TypeTagSlotSize \in Nat /\ TypeTagSlotSize % 4 = 0
  BY <1>1, TagSlot
<1>4. messageCursor' \in Offsets /\ messageCursor' >= messageCursor /\ messageCursor' \in Nat
  BY <1>1, <1>2, <1>3 DEF FinishedMessageFits, CursorsInOrder, Offsets
<1>5. elementSizePtr # Null
  BY <1>1 DEF CursorsInOrder
<1>6. /\ elementSizePtr' \in Offsets \cup {Null} /\ astray' \in BOOLEAN
      /\ slots' \in [Offsets -> Nat]
      /\ LinkedStack'
  BY <1>1, <1>2, <1>4, <1>5, EndElementPops
<1>7. InsertionOrder \in Seq(TypeTags)
  <2>1. typeTags \in Seq(TypeTags) /\ Len(typeTags) \in Nat
    BY <1>1 DEF TypeOK
  <2>2. \A i \in 1..Len(typeTags) : typeTags[Len(typeTags) + 1 - i] \in TypeTags
    <3>1. ASSUME NEW i \in 1..Len(typeTags)
          PROVE  typeTags[Len(typeTags) + 1 - i] \in TypeTags
      <4>1. Len(typeTags) + 1 - i \in 1..Len(typeTags)
        BY <2>1
      <4> HIDE DEF TypeTags
      <4>2. QED
        BY <2>1, <4>1
    <3>2. QED
      BY <3>1
  <2>3. QED
    BY <2>1, <2>2 DEF InsertionOrder
<1>8. TypeOK'
  <2>1. tagStrings' \in [Offsets -> Seq(TypeTags)]
    BY <1>1, <1>7 DEF TypeOK, EndMessage
  <2>2. blocks' \in [Offsets -> Seq(Arguments)]
    BY <1>1 DEF TypeOK, EndMessage
  <2>3. headers' \in [Offsets -> Addresses \cup {"#bundle", Unset}]
    BY <1>1 DEF TypeOK, EndMessage
  <2>4. argumentCurrent' \in Offsets
    BY <1>2, <1>4
  <2>5. typeTags' \in Seq(TypeTags) /\ block' \in Seq(Arguments)
    BY <1>2
  <2>6. messageIsInProgress' \in BOOLEAN
    BY <1>2
  <2>7. QED
    BY <1>4, <1>6, <2>1, <2>2, <2>3, <2>4, <2>5, <2>6 DEF TypeOK
<1>9. CursorsInOrder' /\ FinishedMessageFits'
  BY <1>2, <1>4 DEF CursorsInOrder, FinishedMessageFits
<1>10. QED
  BY <1>6, <1>8, <1>9 DEF IInv

\* Adding an argument keeps the invariant: the three bytes of its check are the
\* new tag, the comma and the terminating zero.
LEMMA AddArgumentInv ==
  ASSUME IInv, NEW x \in Arguments, AddArgument(x)
  PROVE  IInv'
<1>1. /\ TypeOK /\ CursorsInOrder /\ LinkedStack
      /\ messageCursor \in Offsets /\ argumentCurrent \in Offsets
      /\ typeTags \in Seq(TypeTags) /\ block \in Seq(Arguments)
  BY DEF IInv, TypeOK
<1>2. ArgumentSize(x) \in Nat /\ ArgumentSize(x) % 4 = 0
  BY ArgumentSizeAligned
<1>3. /\ argumentCurrent' = argumentCurrent + ArgumentSize(x)
      /\ typeTags' = <<x.tag>> \o typeTags
      /\ UNCHANGED <<messageCursor, pointer, messageIsInProgress, memory>>
  BY DEF AddArgument
<1>4. x.tag \in TypeTags
  BY ConstantsAssumption
<1>5. typeTags' \in Seq(TypeTags) /\ Len(typeTags') = Len(typeTags) + 1 /\ Len(typeTags) \in Nat
  <2> HIDE DEF TypeTags
  <2>1. QED
    BY <1>1, <1>3, <1>4
<1>6. block' \in Seq(Arguments)
  BY <1>1 DEF AddArgument
<1>7. argumentCurrent' + RoundUp4(Len(typeTags') + 2) <= Capacity
  BY <1>3, <1>5 DEF AddArgument, SpaceForArgument
<1>8. RoundUp4(Len(typeTags') + 2) \in Nat /\ RoundUp4(Len(typeTags') + 2) >= Len(typeTags') + 2
  BY <1>5, RoundUp4Bounds
<1>9. argumentCurrent' \in Offsets
  <2>1. argumentCurrent' <= Capacity
    BY <1>1, <1>2, <1>3, <1>5, <1>7, <1>8 DEF Offsets
  <2>2. argumentCurrent \in Nat /\ argumentCurrent % 4 = 0
    BY <1>1, OffsetsAreAligned
  <2>3. ASSUME NEW m \in Nat, NEW k \in Nat, m % 4 = 0, k % 4 = 0
        PROVE  m + k \in Nat /\ (m + k) % 4 = 0
    BY <2>3
  <2>4. argumentCurrent' \in Nat /\ argumentCurrent' % 4 = 0
    BY <1>2, <1>3, <2>2, <2>3
  <2>5. QED
    BY <2>1, <2>4, OffsetsAreAligned
<1>10. TypeOK'
  BY <1>1, <1>3, <1>5, <1>6, <1>9 DEF TypeOK, pointer, memory
<1>11. CursorsInOrder'
  <2>1. messageCursor \in Nat /\ argumentCurrent \in Nat /\ messageCursor <= argumentCurrent
    BY <1>1, OffsetsAreAligned DEF CursorsInOrder
  <2>2. ASSUME NEW m \in Nat, NEW k \in Nat, NEW l \in Nat, m <= k PROVE m <= k + l
    BY <2>2
  <2>3. messageCursor' <= argumentCurrent'
    BY <1>2, <1>3, <2>1, <2>2
  <2>4. QED
    BY <1>1, <1>3, <2>3 DEF CursorsInOrder, pointer
<1>12. FinishedMessageFits'
  <2>1. TypeTagSlotSize' = RoundUp4(Len(typeTags') + 2)
    BY <1>5 DEF TypeTagSlotSize
  <2>2. QED
    BY <1>5, <1>7, <1>8, <1>9, <2>1 DEF FinishedMessageFits, Offsets
<1>13. LinkedStack'
  BY <1>1, <1>3 DEF LinkedStack, IsStack, pointer, memory
<1>14. QED
  BY <1>10, <1>11, <1>12, <1>13 DEF IInv

\* Clear keeps the invariant.
LEMMA ClearInv ==
  ASSUME Clear
  PROVE  IInv'
<1> USE DEF Clear
<1>1. 0 \in Offsets
  BY DEF Offsets
<1>2. TypeOK'
  <2>1. slots' \in [Offsets -> Nat]
    BY BlankType, 0 \in Nat
  <2>2. headers' \in [Offsets -> Addresses \cup {"#bundle", Unset}]
    BY BlankType, Unset \in Addresses \cup {"#bundle", Unset}
  <2>3. tagStrings' \in [Offsets -> Seq(TypeTags)]
    BY BlankType, <<>> \in Seq(TypeTags)
  <2>4. blocks' \in [Offsets -> Seq(Arguments)]
    BY BlankType, <<>> \in Seq(Arguments)
  <2>5. typeTags' \in Seq(TypeTags) /\ block' \in Seq(Arguments)
    OBVIOUS
  <2>6. QED
    BY <1>1, <2>1, <2>2, <2>3, <2>4, <2>5 DEF TypeOK, Null
<1>3. CursorsInOrder' /\ FinishedMessageFits'
  BY DEF CursorsInOrder, FinishedMessageFits
<1>4. LinkedStack'
  <2> DEFINE d == [i \in 1..0 |-> 0]
  <2>1. d \in [1..0 -> Offsets] /\ IsStack(0, d)'
    BY DEF IsStack
  <2>2. QED
    BY <2>1 DEF LinkedStack
<1>5. QED
  BY <1>2, <1>3, <1>4 DEF IInv

\* The strengthening of TypeOK and FinishedMessageFits is inductive.
THEOREM InductiveInvariant == Spec => []IInv
<1>1. IInv /\ [Next]_vars => IInv'
  <2> SUFFICES ASSUME IInv, [Next]_vars PROVE IInv'
    OBVIOUS
  <2>1. CASE BeginBundle
    BY <2>1, BeginBundleInv
  <2>2. CASE EndBundle
    BY <2>2, EndBundleInv
  <2>3. ASSUME NEW address \in Addresses, BeginMessage(address) PROVE IInv'
    BY <2>3, BeginMessageInv
  <2>4. CASE EndMessage
    BY <2>4, EndMessageInv
  <2>5. ASSUME NEW x \in Arguments, AddArgument(x) PROVE IInv'
    BY <2>5, AddArgumentInv
  <2>6. CASE Clear
    BY <2>6, ClearInv
  <2>7. CASE UNCHANGED vars
    BY <2>7 DEF vars, cursors, pointer, memory, IInv, TypeOK, CursorsInOrder, LinkedStack, IsStack,
                FinishedMessageFits, TypeTagSlotSize
  <2>8. QED
    BY <2>1, <2>2, <2>3, <2>4, <2>5, <2>6, <2>7 DEF Next
<1>2. QED
  BY <1>1, InitInv, PTL DEF Spec

\* Every cursor stays inside the buffer and aligned, and the lower word of what
\* EndElement reads is the slot of the containing element, with words of 4 and of 8
\* bytes (OscOutboundPacketStream.cpp:179-203).
THEOREM TypeCorrect == Spec => []TypeOK
<1>1. IInv => TypeOK
  BY DEF IInv
<1>2. QED
  BY <1>1, InductiveInvariant, PTL

\* operator<<(MessageTerminator), which checks nothing, never writes past the end
\* of the buffer, and arguments never overwrite type tags.
THEOREM MessagesFit == Spec => []FinishedMessageFits
<1>1. IInv => FinishedMessageFits
  BY DEF IInv
<1>2. QED
  BY <1>1, InductiveInvariant, PTL

\* What Size announces is what a finished message would occupy.
LEMMA SizeFits == IInv => Size <= Capacity
<1> SUFFICES ASSUME IInv PROVE Size <= Capacity
  OBVIOUS
<1>1. CASE messageIsInProgress
  <2>1. TypeTagSlotSize = RoundUp4(Len(typeTags) + 2)
    BY TagSlot DEF IInv
  <2>2. QED
    BY <1>1, <2>1 DEF IInv, FinishedMessageFits, Size
<1>2. CASE ~messageIsInProgress
  <2>1. argumentCurrent \in Nat /\ argumentCurrent <= Capacity
    BY OffsetsAreAligned DEF IInv, TypeOK
  <2>2. Size = argumentCurrent
    BY <1>2, <2>1 DEF Size
  <2>3. QED
    BY <2>1, <2>2
<1>3. QED
  BY <1>1, <1>2

\* "size() is valid even while building a message" (OscOutboundPacketStream.h:76):
\* it never exceeds the capacity, and closing a message or a bundle, whose tag
\* string is then padded and moved, changes nothing of what it had announced.
THEOREM SizeValid == Spec => SizeIsValid
<1>1. ASSUME IInv, IInv', [Next]_vars
      PROVE  [/\ Size' <= Capacity
              /\ EndMessage \/ EndBundle => Size' = Size]_vars
  <2>1. Size' <= Capacity
    <3>1. (IInv => Size <= Capacity)'
      BY SizeFits, PTL
    <3>2. QED
      BY <1>1, <3>1
  <2>2. ASSUME EndMessage PROVE Size' = Size
    <3>1. /\ messageIsInProgress /\ messageIsInProgress' = FALSE
          /\ argumentCurrent' = argumentCurrent + TypeTagSlotSize
      BY <2>2 DEF EndMessage
    <3>2. TypeTagSlotSize = RoundUp4(Len(typeTags) + 2) /\ TypeTagSlotSize \in Nat
      BY <1>1, TagSlot DEF IInv
    <3>3. argumentCurrent \in Nat
      BY <1>1, OffsetsAreAligned DEF IInv, TypeOK
    <3>4. QED
      BY <3>1, <3>2, <3>3 DEF Size
  <2>3. ASSUME EndBundle PROVE Size' = Size
    BY <2>3 DEF EndBundle, Size, cursors
  <2>4. QED
    BY <2>1, <2>2, <2>3
<1>2. QED
  BY <1>1, InductiveInvariant, PTL DEF Spec, SizeIsValid

-----------------------------------------------------------------------------
(* Reading: the recursion of Path, ArgumentEnds and Elements.               *)

\* Induction on the natural numbers, for a set.
LEMMA NaturalInduction ==
  ASSUME NEW S, 0 \in S, \A n \in Nat : n \in S => n + 1 \in S
  PROVE  \A n \in Nat : n \in S
<1> DEFINE R == OpToRel(<, Nat)
           T == {n \in Nat : n \notin S}
<1>1. IsWellFoundedOn(R, Nat)
  BY NatLessThanWellFounded
<1>2. \A x, y \in Nat : <<x, y>> \in R <=> x < y
  BY DEF OpToRel
<1> HIDE DEF R
<1>3. SUFFICES ASSUME T # {} PROVE FALSE
  OBVIOUS
<1>4. PICK x \in T : \A y \in T : ~ (<<y, x>> \in R)
  BY <1>1, <1>3, WFMin
<1>5. x \in Nat /\ x # 0 /\ \A y \in T : ~ (y < x)
  BY <1>2, <1>4
<1>6. x - 1 \in Nat /\ x - 1 < x /\ x = (x - 1) + 1
  BY <1>5
<1>7. x - 1 \in S
  BY <1>5, <1>6
<1>8. QED
  BY <1>4, <1>6, <1>7

\* The recursion of Path has a solution, for every memory.
LEMMA PathEquation ==
  \A p \in Offsets :
     Path[p] = IF slots[p] \in Offsets /\ slots[p] < p THEN Append(Path[slots[p]], p) ELSE <<p>>
<1> DEFINE Body(H, p) == IF slots[p] \in Offsets /\ slots[p] < p THEN Append(H[slots[p]], p) ELSE <<p>>
           Upto(n, H) == \A p \in Offsets : p < n => H[p] = Body(H, p)
           S == {n \in Nat : \E H : Upto(n, H)}
<1>1. 0 \in S
  BY OffsetsAreAligned
<1>2. ASSUME NEW n \in S PROVE n + 1 \in S
  <2>1. PICK G : Upto(n, G)
    OBVIOUS
  <2> DEFINE H == [p \in Offsets |-> Body(G, p)]
  <2>2. ASSUME NEW p \in Offsets, p < n PROVE H[p] = G[p]
    BY <2>1, <2>2
  <2>3. ASSUME NEW p \in Offsets, p < n + 1 PROVE H[p] = Body(H, p)
    <3>1. CASE slots[p] \in Offsets /\ slots[p] < p
      <4>1. slots[p] < n
        BY <2>3, <3>1, OffsetsAreAligned
      <4>2. H[slots[p]] = G[slots[p]]
        BY <2>2, <3>1, <4>1
      <4>3. QED
        BY <3>1, <4>2
    <3>2. CASE ~ (slots[p] \in Offsets /\ slots[p] < p)
      BY <3>2
    <3>3. QED
      BY <3>1, <3>2
  <2> HIDE DEF H
  <2>4. Upto(n + 1, H)
    BY <2>3
  <2>5. QED
    BY <2>4
<1>3. Capacity + 1 \in S
  <2> HIDE DEF S
  <2>1. \A n \in Nat : n \in S
    BY <1>1, <1>2, NaturalInduction
  <2>2. QED
    BY <2>1
<1>4. PICK G : Upto(Capacity + 1, G)
  BY <1>3
<1> DEFINE H == [p \in Offsets |-> Body(G, p)]
<1>5. ASSUME NEW p \in Offsets PROVE H[p] = Body(H, p)
  <2>1. \A q \in Offsets : q < Capacity + 1
    BY OffsetsAreAligned
  <2>2. QED
    BY <1>4, <2>1
<1> HIDE DEF H
<1>6. H = [p \in Offsets |-> Body(H, p)]
  <2>1. H = [p \in Offsets |-> H[p]]
    BY DEF H
  <2>2. QED
    BY <1>5, <2>1
<1>7. Path = [p \in Offsets |-> Body(Path, p)]
  <2>1. \E F : F = [p \in Offsets |-> Body(F, p)]
    BY <1>6
  <2>2. QED
    BY <2>1 DEF Path
<1>8. QED
  BY <1>7

\* The recursion of ArgumentEnds has a solution, for every block.
LEMMA ArgumentEndsEquation ==
  ASSUME NEW T, NEW data \in Seq(T)
  PROVE  /\ ArgumentEnds(data)[0] = 0
         /\ \A i \in 1..Len(data) :
               ArgumentEnds(data)[i] = ArgumentEnds(data)[i - 1] + ArgumentSize(data[i])
<1> DEFINE Body(H, i) == IF i = 0 THEN 0 ELSE H[i - 1] + ArgumentSize(data[i])
           Upto(n, H) == \A i \in 0..Len(data) : i < n => H[i] = Body(H, i)
           S == {n \in Nat : \E H : Upto(n, H)}
<1>0. Len(data) \in Nat
  OBVIOUS
<1>1. 0 \in S
  BY <1>0
<1>2. ASSUME NEW n \in S PROVE n + 1 \in S
  <2>1. PICK G : Upto(n, G)
    OBVIOUS
  <2> DEFINE H == [i \in 0..Len(data) |-> Body(G, i)]
  <2>2. ASSUME NEW i \in 0..Len(data), i < n PROVE H[i] = G[i]
    BY <2>1, <2>2
  <2>3. ASSUME NEW i \in 0..Len(data), i < n + 1 PROVE H[i] = Body(H, i)
    <3>1. CASE i = 0
      BY <3>1
    <3>2. CASE i # 0
      <4>1. i - 1 < n /\ i - 1 \in 0..Len(data)
        BY <1>0, <2>3, <3>2
      <4>2. H[i - 1] = G[i - 1]
        BY <2>2, <4>1
      <4>3. H[i] = G[i - 1] + ArgumentSize(data[i])
        BY <2>3, <3>2
      <4>4. QED
        BY <3>2, <4>2, <4>3
    <3>3. QED
      BY <3>1, <3>2
  <2> HIDE DEF H
  <2>4. Upto(n + 1, H)
    BY <2>3
  <2>5. QED
    BY <2>4
<1>3. Len(data) + 1 \in S
  <2> HIDE DEF S
  <2>1. \A n \in Nat : n \in S
    BY <1>1, <1>2, NaturalInduction
  <2>2. QED
    BY <1>0, <2>1
<1>4. PICK G : Upto(Len(data) + 1, G)
  BY <1>3
<1> DEFINE H == [i \in 0..Len(data) |-> Body(G, i)]
<1>5. ASSUME NEW i \in 0..Len(data) PROVE H[i] = Body(H, i)
  <2>1. \A j \in 0..Len(data) : G[j] = Body(G, j)
    BY <1>0, <1>4
  <2>2. \A j \in 0..Len(data) : H[j] = G[j]
    BY <2>1
  <2>3. i # 0 => i - 1 \in 0..Len(data)
    BY <1>0
  <2> HIDE DEF H
  <2>4. QED
    BY <2>1, <2>2, <2>3
<1> HIDE DEF H
<1>6. H = [i \in 0..Len(data) |-> Body(H, i)]
  <2>1. H = [i \in 0..Len(data) |-> H[i]]
    BY DEF H
  <2>2. QED
    BY <1>5, <2>1
<1>7. ArgumentEnds(data) = [i \in 0..Len(data) |-> Body(ArgumentEnds(data), i)]
  <2>1. \E F : F = [i \in 0..Len(data) |-> Body(F, i)]
    BY <1>6
  <2>2. QED
    BY <2>1 DEF ArgumentEnds
<1>8. QED
  BY <1>0, <1>7

\* What the reader looks at beyond a place is read with a shorter rest.
LEMMA ElementsEquation ==
  ASSUME TypeOK
  PROVE  \A p, end \in Offsets : Elements[<<p, end>>] = ReadElements(Elements, p, end)
<1> DEFINE D == Offsets \X Offsets
           Upto(n, H) == \A p, end \in Offsets : end - p < n => H[<<p, end>>] = ReadElements(H, p, end)
           S == {n \in Nat : \E H : Upto(n, H)}
           Below(n, G, H) == \A p, end \in Offsets : end - p < n => H[<<p, end>>] = G[<<p, end>>]
<1>0. slots \in [Offsets -> Nat]
  BY DEF TypeOK
<1>1. ASSUME NEW n \in Nat, NEW G, NEW H, Below(n, G, H),
             NEW p \in Offsets, NEW end \in Offsets, end - p < n + 1
      PROVE  ReadElements(H, p, end) = ReadElements(G, p, end)
  <2> DEFINE next == p + 4 + slots[p]
  <2>1. CASE p < end /\ next <= end /\ slots[p] % 4 = 0
    <3>1. /\ p \in Nat /\ end \in Nat /\ slots[p] \in Nat /\ end <= Capacity /\ p % 4 = 0
      BY <1>0, OffsetsAreAligned
    <3>2. next \in Nat /\ next <= Capacity /\ next % 4 = 0 /\ next > p
      BY <2>1, <3>1
    <3>3. next \in Offsets /\ end - next < n
      BY <1>1, <2>1, <3>1, <3>2, OffsetsAreAligned
    <3>4. H[<<next, end>>] = G[<<next, end>>]
      BY <1>1, <3>3
    <3>5. ASSUME p + 20 <= next PROVE H[<<p + 20, next>>] = G[<<p + 20, next>>]
      <4>1. p + 20 \in Nat /\ (p + 20) % 4 = 0 /\ p + 20 <= Capacity /\ next - (p + 20) < n
        BY <1>1, <2>1, <3>1, <3>2, <3>5
      <4>2. QED
        BY <1>1, <3>3, <4>1, OffsetsAreAligned
    <3>6. ReadElement(H, p + 4, next) = ReadElement(G, p + 4, next)
      <4>1. p + 4 + 16 = p + 20
        BY <3>1
      <4>2. p + 20 \in Nat
        BY <3>1
      <4> HIDE DEF next
      <4>3. p + 20 > next \/ p + 20 <= next
        BY <3>2, <4>2
      <4>4. CASE p + 20 > next
        BY <4>1, <4>4 DEF ReadElement
      <4>5. CASE p + 20 <= next
        BY <3>5, <4>1, <4>5 DEF ReadElement
      <4>6. QED
        BY <4>3, <4>4, <4>5
    <3>7. QED
      BY <3>4, <3>6 DEF ReadElements
  <2>2. CASE ~ (p < end /\ next <= end /\ slots[p] % 4 = 0)
    <3>1. p \in Nat /\ end \in Nat /\ slots[p] \in Nat /\ next \in Nat
      BY <1>0, OffsetsAreAligned
    <3>2. p >= end \/ next > end \/ slots[p] % 4 # 0
      BY <2>2, <3>1
    <3>3. QED
      BY <3>2 DEF ReadElements
  <2>3. QED
    BY <2>1, <2>2
<1>2. 0 \in S
  <2> DEFINE H == [r \in D |-> <<>>]
  <2>1. ASSUME NEW p \in Offsets, NEW end \in Offsets, end - p < 0
        PROVE  H[<<p, end>>] = ReadElements(H, p, end)
    <3>1. p \in Nat /\ end \in Nat /\ p >= end
      BY <2>1, OffsetsAreAligned
    <3>2. H[<<p, end>>] = <<>>
      OBVIOUS
    <3>3. QED
      BY <3>1, <3>2 DEF ReadElements
  <2> HIDE DEF H
  <2>2. QED
    BY <2>1
<1>3. ASSUME NEW n \in S PROVE n + 1 \in S
  <2>1. PICK G : Upto(n, G)
    OBVIOUS
  <2> DEFINE H == [r \in D |-> ReadElements(G, r[1], r[2])]
  <2>2. \A p, end \in Offsets : H[<<p, end>>] = ReadElements(G, p, end)
    OBVIOUS
  <2> HIDE DEF H
  <2>3. Below(n, G, H)
    BY <2>1, <2>2
  <2>4. Upto(n + 1, H)
    BY <1>1, <2>2, <2>3
  <2>5. QED
    BY <2>4
<1>4. Capacity + 1 \in S
  <2> HIDE DEF S
  <2>1. \A n \in Nat : n \in S
    BY <1>2, <1>3, NaturalInduction
  <2>2. QED
    BY <2>1
<1>5. PICK G : Upto(Capacity + 1, G)
  BY <1>4
<1>6. \A p, end \in Offsets : end - p < Capacity + 1
  BY OffsetsAreAligned
<1> DEFINE H == [r \in D |-> ReadElements(G, r[1], r[2])]
<1>7. \A p, end \in Offsets : H[<<p, end>>] = ReadElements(G, p, end) /\ H[<<p, end>>] = G[<<p, end>>]
  BY <1>5, <1>6
<1>8. H = [r \in D |-> H[r]]
  OBVIOUS
<1> HIDE DEF H
<1>9. \A p, end \in Offsets : H[<<p, end>>] = ReadElements(H, p, end)
  <2>1. Below(Capacity + 1, G, H)
    BY <1>7
  <2>2. ASSUME NEW p \in Offsets, NEW end \in Offsets
        PROVE  ReadElements(H, p, end) = ReadElements(G, p, end)
    <3>1. end - p < (Capacity + 1) + 1 /\ Capacity + 1 \in Nat
      BY OffsetsAreAligned
    <3> HIDE DEF Below
    <3>2. QED
      BY <1>1, <2>1, <3>1
  <2>3. QED
    BY <1>7, <2>2
<1>10. H = [r \in D |-> ReadElements(H, r[1], r[2])]
  <2>1. ASSUME NEW r \in D PROVE H[r] = ReadElements(H, r[1], r[2])
    <3>1. r[1] \in Offsets /\ r[2] \in Offsets /\ r = <<r[1], r[2]>>
      OBVIOUS
    <3>2. QED
      BY <1>9, <3>1
  <2>2. QED
    BY <1>8, <2>1
<1>11. Elements = [r \in D |-> ReadElements(Elements, r[1], r[2])]
  <2>1. \E F : F = [r \in D |-> ReadElements(F, r[1], r[2])]
    BY <1>10
  <2>2. QED
    BY <2>1 DEF Elements
<1>12. QED
  <2>1. ASSUME NEW p \in Offsets, NEW end \in Offsets
        PROVE  Elements[<<p, end>>] = ReadElements(Elements, p, end)
    <3>1. <<p, end>> \in D
      OBVIOUS
    <3>2. QED
      BY <1>11, <3>1
  <2>2. QED
    BY <2>1

-----------------------------------------------------------------------------
(* What is read of a message.                                              *)

\* A block grows by the size of each argument added to it.
LEMMA BlockSizeOf ==
  /\ BlockSize(<<>>) = 0
  /\ \A data \in Seq(Arguments) : \A x \in Arguments :
        BlockSize(Append(data, x)) = BlockSize(data) + ArgumentSize(x)
<1>1. BlockSize(<<>>) = 0
  <2>1. <<>> \in Seq(Arguments) /\ Len(<<>>) = 0
    OBVIOUS
  <2>2. ArgumentEnds(<<>>)[0] = 0
    BY <2>1, ArgumentEndsEquation
  <2>3. QED
    BY <2>1, <2>2 DEF BlockSize
<1>2. ASSUME NEW data \in Seq(Arguments), NEW x \in Arguments
      PROVE  BlockSize(Append(data, x)) = BlockSize(data) + ArgumentSize(x)
  <2> DEFINE A == ArgumentEnds(data)
             longer == Append(data, x)
             B == ArgumentEnds(longer)
             S == {n \in Nat : n <= Len(data) => B[n] = A[n]}
  <2>1. /\ Len(data) \in Nat /\ longer \in Seq(Arguments) /\ Len(longer) = Len(data) + 1
        /\ longer[Len(data) + 1] = x /\ \A i \in 1..Len(data) : longer[i] = data[i]
    OBVIOUS
  <2> HIDE DEF longer
  <2>2. A[0] = 0 /\ \A i \in 1..Len(data) : A[i] = A[i - 1] + ArgumentSize(data[i])
    BY ArgumentEndsEquation
  <2>3. B[0] = 0 /\ \A i \in 1..Len(longer) : B[i] = B[i - 1] + ArgumentSize(longer[i])
    BY <2>1, ArgumentEndsEquation
  <2> HIDE DEF A, B
  <2>4. 0 \in S
    BY <2>2, <2>3
  <2>5. ASSUME NEW n \in Nat, n \in S PROVE n + 1 \in S
    <3>1. SUFFICES ASSUME n + 1 <= Len(data) PROVE B[n + 1] = A[n + 1]
      OBVIOUS
    <3>2. n + 1 \in 1..Len(data) /\ n + 1 \in 1..Len(longer) /\ B[n] = A[n] /\ (n + 1) - 1 = n
      BY <2>1, <2>5, <3>1
    <3>3. B[n + 1] = B[n] + ArgumentSize(longer[n + 1])
      BY <2>3, <3>2
    <3>4. A[n + 1] = A[n] + ArgumentSize(data[n + 1])
      BY <2>2, <3>2
    <3>5. QED
      BY <2>1, <3>2, <3>3, <3>4
  <2>6. B[Len(data)] = A[Len(data)]
    <3> HIDE DEF S
    <3>1. Len(data) \in S
      BY <2>1, <2>4, <2>5, NaturalInduction
    <3>2. QED
      BY <2>1, <3>1 DEF S
  <2>7. B[Len(longer)] = B[Len(data)] + ArgumentSize(x)
    <3>1. Len(data) + 1 \in 1..Len(longer) /\ (Len(data) + 1) - 1 = Len(data)
      BY <2>1
    <3>2. QED
      BY <2>1, <2>3, <3>1
  <2>8. QED
    BY <2>6, <2>7 DEF BlockSize, A, B, longer
<1>3. QED
  BY <1>1, <1>2

\* The size of a block is a number.
LEMMA BlockSizeIsNat ==
  ASSUME NEW data \in Seq(Arguments)
  PROVE  BlockSize(data) \in Nat
<1> DEFINE A == ArgumentEnds(data)
           S == {n \in Nat : n <= Len(data) => A[n] \in Nat}
<1>1. Len(data) \in Nat /\ \A i \in 1..Len(data) : data[i] \in Arguments
  OBVIOUS
<1>2. A[0] = 0 /\ \A i \in 1..Len(data) : A[i] = A[i - 1] + ArgumentSize(data[i])
  BY ArgumentEndsEquation
<1> HIDE DEF A
<1>3. 0 \in S
  BY <1>2
<1>4. ASSUME NEW n \in Nat, n \in S PROVE n + 1 \in S
  <2>1. SUFFICES ASSUME n + 1 <= Len(data) PROVE A[n + 1] \in Nat
    OBVIOUS
  <2>2. n + 1 \in 1..Len(data) /\ A[n] \in Nat /\ (n + 1) - 1 = n
    BY <1>1, <1>4, <2>1
  <2>3. ArgumentSize(data[n + 1]) \in Nat
    BY <1>1, <2>2, ArgumentSizeAligned
  <2>4. QED
    BY <1>2, <2>2, <2>3
<1>5. Len(data) \in S
  <2> HIDE DEF S
  <2>1. QED
    BY <1>1, <1>3, <1>4, NaturalInduction
<1>6. QED
  BY <1>1, <1>5 DEF BlockSize, A

\* Arguments without data have no length; the others occupy at least a word.
LEMMA ArgumentKinds ==
  ASSUME NEW x \in Arguments
  PROVE  /\ x = [tag |-> x.tag, length |-> x.length]
         /\ x.tag \in TypeTags
         /\ x.tag \in ZeroTags => x.length = 0
         /\ ArgumentSize(x) = 0 <=> x.tag \in ZeroTags
<1>1. x \in [tag : TypeTags, length : Nat] /\ (x.tag \in ZeroTags => x.length = 0)
  BY ConstantsAssumption
<1>a. x.tag \in TypeTags /\ x.length \in Nat /\ x = [tag |-> x.tag, length |-> x.length]
  <2> HIDE DEF TypeTags
  <2>1. QED
    BY <1>1
<1>2. /\ RoundUp4(x.length + 1) \in Nat /\ RoundUp4(x.length + 1) >= 1
      /\ RoundUp4(x.length) \in Nat
  BY <1>a, RoundUp4Bounds
<1>8. ArgumentSize(x) = 0 <=> x.tag \in ZeroTags
  <2>1. CASE x.tag \in ZeroTags
    BY <2>1 DEF ArgumentSize, ZeroTags, WordTags, LongTags, TextTags
  <2>2. CASE x.tag \notin ZeroTags
    BY <1>a, <1>2, <2>2 DEF ArgumentSize, ZeroTags, WordTags, LongTags, TextTags, TypeTags
  <2>3. QED
    BY <2>1, <2>2
<1>9. QED
  BY <1>1, <1>a, <1>8

\* How many arguments a longer tag string announces.
LEMMA StoredOf ==
  ASSUME NEW tags \in Seq(TypeTags), NEW tag \in TypeTags
  PROVE  /\ \A i \in 0..Len(tags) : Stored(tags, i) \in Nat /\ Stored(Append(tags, tag), i) = Stored(tags, i)
         /\ \A i \in 1..Len(tags) : Stored(tags, i) <= Stored(tags, Len(tags))
         /\ \A i \in 1..Len(tags) : tags[i] \notin ZeroTags => Stored(tags, i) >= 1
         /\ Stored(Append(tags, tag), Len(tags) + 1)
              = IF tag \in ZeroTags THEN Stored(tags, Len(tags)) ELSE Stored(tags, Len(tags)) + 1
<1> DEFINE longer == Append(tags, tag)
           J(i) == {j \in 1..i : tags[j] \notin ZeroTags}
           K(i) == {j \in 1..i : longer[j] \notin ZeroTags}
<1> HIDE DEF TypeTags, ZeroTags
<1>1. /\ Len(tags) \in Nat /\ longer[Len(tags) + 1] = tag
      /\ \A i \in 1..Len(tags) : longer[i] = tags[i]
  OBVIOUS
<1> HIDE DEF longer
<1>2. ASSUME NEW i \in 0..Len(tags)
      PROVE  IsFiniteSet(J(i)) /\ Cardinality(J(i)) \in Nat /\ K(i) = J(i)
  <2>1. IsFiniteSet(1..i) /\ J(i) \in SUBSET (1..i)
    BY <1>1, FS_Interval
  <2>2. IsFiniteSet(J(i))
    BY <2>1, FS_Subset
  <2>3. Cardinality(J(i)) \in Nat
    BY <2>2, FS_CardinalityType
  <2>4. K(i) = J(i)
    <3>1. \A j \in 1..i : j \in 1..Len(tags)
      BY <1>1
    <3>2. QED
      BY <1>1, <3>1
  <2>5. QED
    BY <2>2, <2>3, <2>4
<1>3. ASSUME NEW i \in 1..Len(tags) PROVE Cardinality(J(i)) <= Cardinality(J(Len(tags)))
  <2>1. J(i) \in SUBSET J(Len(tags))
    BY <1>1
  <2>2. Len(tags) \in 0..Len(tags)
    BY <1>1
  <2> HIDE DEF J
  <2>3. QED
    BY <1>2, <2>1, <2>2, FS_Subset
<1>4. ASSUME NEW i \in 1..Len(tags), tags[i] \notin ZeroTags PROVE Cardinality(J(i)) >= 1
  <2>1. i \in J(i) /\ i \in 0..Len(tags)
    BY <1>1, <1>4
  <2> HIDE DEF J
  <2>2. IsFiniteSet(J(i)) /\ Cardinality(J(i)) \in Nat
    BY <1>2, <2>1
  <2>3. Cardinality(J(i)) # 0
    BY <2>1, <2>2, FS_EmptySet
  <2>4. QED
    BY <2>2, <2>3
<1>5. Cardinality(K(Len(tags) + 1))
        = IF tag \in ZeroTags THEN Cardinality(J(Len(tags))) ELSE Cardinality(J(Len(tags))) + 1
  <2> DEFINE n == Len(tags)
  <2>1. n \in 0..n /\ n \in Nat /\ 1..(n + 1) = (1..n) \cup {n + 1} /\ n + 1 \notin 1..n
    BY <1>1
  <2>2. \A j \in 1..n : longer[j] = tags[j]
    BY <1>1
  <2>3. longer[n + 1] = tag
    BY <1>1
  <2>4. CASE tag \in ZeroTags
    <3>1. K(n + 1) = J(n)
      BY <2>1, <2>2, <2>3, <2>4
    <3>2. QED
      BY <2>4, <3>1
  <2>5. CASE tag \notin ZeroTags
    <3>1. K(n + 1) = J(n) \cup {n + 1} /\ n + 1 \notin J(n)
      BY <2>1, <2>2, <2>3, <2>5
    <3>2. IsFiniteSet(J(n))
      BY <1>2, <2>1
    <3> HIDE DEF J, K
    <3>3. Cardinality(J(n) \cup {n + 1}) = Cardinality(J(n)) + 1
      BY <3>1, <3>2, FS_AddElement
    <3>4. QED
      BY <2>5, <3>1, <3>3
  <2>6. QED
    BY <2>4, <2>5
<1>6. \A i : Stored(tags, i) = Cardinality(J(i)) /\ Stored(longer, i) = Cardinality(K(i))
  BY DEF Stored
<1> HIDE DEF J, K
<1>7. QED
  <2>1. \A i \in 0..Len(tags) : Stored(tags, i) \in Nat /\ Stored(longer, i) = Stored(tags, i)
    BY <1>2, <1>6
  <2>2. \A i \in 1..Len(tags) : Stored(tags, i) <= Stored(tags, Len(tags))
    BY <1>3, <1>6
  <2>3. \A i \in 1..Len(tags) : tags[i] \notin ZeroTags => Stored(tags, i) >= 1
    BY <1>4, <1>6
  <2>4. Stored(longer, Len(tags) + 1)
              = IF tag \in ZeroTags THEN Stored(tags, Len(tags)) ELSE Stored(tags, Len(tags)) + 1
    BY <1>5, <1>6
  <2>5. QED
    BY <2>1, <2>2, <2>3, <2>4 DEF longer

\* What is read back after an argument was added is what was read before, and it.
LEMMA ReadArgumentsOf ==
  ASSUME NEW tags \in Seq(TypeTags), NEW data \in Seq(Arguments), NEW x \in Arguments,
         Stored(tags, Len(tags)) = Len(data)
  PROVE  LET more == IF x.tag \in ZeroTags THEN data ELSE Append(data, x)
         IN  /\ Stored(Append(tags, x.tag), Len(tags) + 1) = Len(more)
             /\ ReadArguments(Append(tags, x.tag), more) = Append(ReadArguments(tags, data), x)
<1> PICK more : more = IF x.tag \in ZeroTags THEN data ELSE Append(data, x)
  OBVIOUS
<1> DEFINE n == Len(tags)
           longer == Append(tags, x.tag)
<1>1. /\ x = [tag |-> x.tag, length |-> x.length] /\ x.tag \in TypeTags
      /\ x.tag \in ZeroTags => x.length = 0
  BY ArgumentKinds
<1> HIDE DEF TypeTags, ZeroTags
<1>2. /\ n \in Nat /\ Len(longer) = n + 1 /\ longer[n + 1] = x.tag
      /\ \A i \in 1..n : longer[i] = tags[i]
  BY <1>1
<1>3. /\ \A i \in 1..n : Stored(tags, i) \in Nat /\ Stored(longer, i) = Stored(tags, i)
      /\ \A i \in 1..n : Stored(tags, i) <= Len(data)
      /\ \A i \in 1..n : tags[i] \notin ZeroTags => Stored(tags, i) >= 1
      /\ Stored(longer, n + 1) = IF x.tag \in ZeroTags THEN Len(data) ELSE Len(data) + 1
  <2>1. \A i \in 1..n : i \in 0..n
    BY <1>2
  <2>2. QED
    BY <1>1, <2>1, StoredOf
<1> HIDE DEF longer
<1>4. /\ Len(data) \in Nat /\ Len(more) \in Nat /\ Len(data) <= Len(more)
      /\ \A k \in 1..Len(data) : more[k] = data[k]
      /\ x.tag \notin ZeroTags => Len(more) = Len(data) + 1 /\ more[Len(data) + 1] = x
      /\ x.tag \in ZeroTags => Len(more) = Len(data)
  <2>1. CASE x.tag \in ZeroTags
    BY <2>1
  <2>2. CASE x.tag \notin ZeroTags
    BY <2>2
  <2>3. QED
    BY <2>1, <2>2
<1> DEFINE old == ReadArguments(tags, data)
           new == ReadArguments(longer, more)
<1>5. ASSUME NEW i \in 1..n PROVE new[i] = old[i]
  <2>1. i \in 1..(n + 1) /\ longer[i] = tags[i]
    BY <1>2
  <2>2. CASE tags[i] \in ZeroTags
    BY <1>2, <2>1, <2>2 DEF ReadArguments
  <2>3. CASE tags[i] \notin ZeroTags
    <3>1. /\ Stored(longer, i) = Stored(tags, i) /\ Stored(tags, i) \in 1..Len(data)
          /\ Stored(tags, i) <= Len(more)
      BY <1>3, <1>4, <2>3
    <3>2. more[Stored(tags, i)] = data[Stored(tags, i)]
      BY <1>4, <3>1
    <3>3. QED
      BY <1>2, <1>3, <2>1, <2>3, <3>1, <3>2 DEF ReadArguments
  <2>4. QED
    BY <2>2, <2>3
<1>6. new[n + 1] = x
  <2>1. n + 1 \in 1..Len(longer)
    BY <1>2
  <2>2. CASE x.tag \in ZeroTags
    BY <1>1, <1>2, <2>1, <2>2 DEF ReadArguments
  <2>3. CASE x.tag \notin ZeroTags
    <3>1. Stored(longer, n + 1) = Len(data) + 1 /\ Len(more) = Len(data) + 1
          /\ more[Len(data) + 1] = x /\ longer[n + 1] = x.tag
      BY <1>2, <1>3, <1>4, <2>3
    <3>2. Stored(longer, n + 1) <= Len(more) /\ more[Stored(longer, n + 1)] = x
      BY <1>4, <3>1
    <3>3. QED
      BY <2>1, <2>3, <3>1, <3>2 DEF ReadArguments
  <2>4. QED
    BY <2>2, <2>3
<1> DEFINE V == {new[i] : i \in 1..(n + 1)}
<1>7. /\ old = [i \in 1..n |-> old[i]] /\ new = [i \in 1..(n + 1) |-> new[i]]
  BY <1>2 DEF ReadArguments
<1> HIDE DEF old, new
<1>8. old \in Seq(V) /\ Len(old) = n /\ new \in Seq(V) /\ Len(new) = n + 1 /\ x \in V
  <2>1. \A i \in 1..n : old[i] \in V
    <3>1. \A i \in 1..n : i \in 1..(n + 1)
      BY <1>2
    <3>2. QED
      BY <1>5, <3>1
  <2>2. \A i \in 1..(n + 1) : new[i] \in V
    OBVIOUS
  <2>3. n + 1 \in 1..(n + 1)
    BY <1>2
  <2> HIDE DEF V
  <2>4. old \in [1..n -> V] /\ new \in [1..(n + 1) -> V] /\ n + 1 \in Nat
    BY <1>2, <1>7, <2>1, <2>2
  <2>5. old \in Seq(V) /\ Len(old) = n
    BY <1>2, <2>4, SeqDef, LenProperties
  <2>6. new \in Seq(V) /\ Len(new) = n + 1
    BY <2>4, SeqDef, LenProperties
  <2>7. new[n + 1] \in V
    BY <2>2, <2>3
  <2>8. QED
    BY <1>6, <2>5, <2>6, <2>7
<1> HIDE DEF V
<1>9. Append(old, x) \in Seq(V) /\ Len(Append(old, x)) = n + 1 /\ Append(old, x)[n + 1] = x
      /\ \A i \in 1..n : Append(old, x)[i] = old[i]
  BY <1>2, <1>8
<1>10. new = Append(old, x)
  <2>1. \A i \in 1..Len(new) : new[i] = Append(old, x)[i]
    <3>1. ASSUME NEW i \in 1..(n + 1) PROVE new[i] = Append(old, x)[i]
      <4>1. CASE i = n + 1
        BY <1>6, <1>9, <4>1
      <4>2. CASE i # n + 1
        <5>1. i \in 1..n
          BY <1>2, <4>2
        <5>2. QED
          BY <1>5, <1>9, <5>1
      <4>3. QED
        BY <4>1, <4>2
    <3>2. QED
      BY <1>8, <3>1
  <2>2. QED
    BY <1>8, <1>9, <2>1, SeqEqual
<1>11. Stored(longer, n + 1) = Len(more)
  BY <1>3, <1>4
<1>12. QED
  BY <1>10, <1>11 DEF longer, old, new

-----------------------------------------------------------------------------
(* What is read depends only on the memory between the two offsets.        *)

\* The memory a reader looks at between two offsets stays as it is.
SameBetween(a, e) ==
  \A x \in Offsets : a <= x =>
     /\ x < e => slots'[x] = slots[x]
     /\ x <= e => /\ headers'[x] = headers[x]
                  /\ tagStrings'[x] = tagStrings[x]
                  /\ blocks'[x] = blocks[x]

\* Sums of offsets, as they occur when one element follows another.
LEMMA Aligned ==
  /\ \A x \in Offsets : \A k \in Nat : k % 4 = 0 /\ x + k <= Capacity => x + k \in Offsets
  /\ \A x, e \in Offsets : x < e => x + 4 <= e /\ x + 4 \in Offsets
  /\ 0 \in Offsets
<1>1. ASSUME NEW x \in Offsets, NEW k \in Nat, k % 4 = 0, x + k <= Capacity
      PROVE  x + k \in Offsets
  <2>1. x \in Nat /\ x % 4 = 0
    BY OffsetsAreAligned
  <2>2. x + k \in Nat /\ (x + k) % 4 = 0
    BY <1>1, <2>1
  <2>3. QED
    BY <1>1, <2>2, OffsetsAreAligned
<1>2. ASSUME NEW x \in Offsets, NEW e \in Offsets, x < e
      PROVE  x + 4 <= e /\ x + 4 \in Offsets
  <2>1. x \in Nat /\ x % 4 = 0 /\ e \in Nat /\ e % 4 = 0 /\ e <= Capacity
    BY OffsetsAreAligned
  <2>2. x + 4 <= e
    BY <1>2, <2>1
  <2>3. x + 4 <= Capacity /\ 4 % 4 = 0
    BY <2>1, <2>2
  <2>4. QED
    BY <1>1, <2>2, <2>3
<1>3. QED
  BY <1>1, <1>2, OffsetsAreAligned

\* The element that follows a slot is read the same way when its bytes are.
LEMMA MessageFrame ==
  ASSUME TypeOK, NEW a \in Offsets, NEW e \in Offsets, SameBetween(a, e),
         NEW start \in Offsets, NEW end \in Offsets, a <= start, end <= e, start <= end
  PROVE  ReadMessage(start, end)' = ReadMessage(start, end)
<1>0. /\ a \in Nat /\ e \in Nat /\ start \in Nat /\ end \in Nat /\ e <= Capacity
  BY OffsetsAreAligned
<1>1. headers'[start] = headers[start]
  BY <1>0 DEF SameBetween
<1>2. CASE headers[start] \notin Addresses \/ start + AddressSize(headers[start]) > end
  BY <1>1, <1>2 DEF ReadMessage
<1>3. CASE ~ (headers[start] \notin Addresses \/ start + AddressSize(headers[start]) > end)
  <2> DEFINE tagsBegin == start + AddressSize(headers[start])
             tags == tagStrings[tagsBegin]
             arguments == tagsBegin + RoundUp4(Len(tags) + 2)
  <2>1. headers[start] \in Addresses /\ AddressSize(headers[start]) \in Nat
        /\ AddressSize(headers[start]) % 4 = 0
    BY <1>3, AddressSizeAligned
  <2>2. tagsBegin <= end /\ tagsBegin >= start /\ tagsBegin \in Nat
    BY <1>0, <1>3, <2>1
  <2>3. tagsBegin \in Offsets
    <3>1. tagsBegin <= Capacity
      BY <1>0, <2>2
    <3>2. QED
      BY <2>1, <3>1, Aligned
  <2>4. tagStrings'[tagsBegin] = tags
    <3> HIDE DEF tagsBegin
    <3>1. a <= tagsBegin /\ tagsBegin <= e
      BY <1>0, <2>2
    <3>2. QED
      BY <2>3, <3>1 DEF SameBetween
  <2>5. Len(tags) \in Nat
    <3>1. tags \in Seq(TypeTags)
      BY <2>3 DEF TypeOK
    <3> HIDE DEF tags, TypeTags
    <3>2. QED
      BY <3>1
  <2>6. RoundUp4(Len(tags) + 2) \in Nat /\ RoundUp4(Len(tags) + 2) % 4 = 0
    <3> HIDE DEF tags
    <3>1. Len(tags) + 2 \in Nat
      BY <2>5
    <3>2. QED
      BY <3>1, RoundUp4Bounds
  <2> HIDE DEF tagsBegin
  <2>7. CASE arguments <= end
    <3>1. arguments \in Nat /\ arguments >= tagsBegin /\ arguments <= e /\ a <= arguments
          /\ arguments <= Capacity
      BY <1>0, <2>2, <2>6, <2>7
    <3>2. arguments \in Offsets
      BY <2>3, <2>6, <3>1, Aligned
    <3>3. blocks'[arguments] = blocks[arguments]
      <4> HIDE DEF arguments
      <4>1. QED
        BY <3>1, <3>2 DEF SameBetween
    <3> HIDE DEF arguments, tags
    <3>4. QED
      BY <1>1, <2>4, <3>3 DEF ReadMessage, tagsBegin, arguments, tags
  <2>8. CASE ~ (arguments <= end)
    <3>1. arguments > end
      BY <1>0, <2>2, <2>6, <2>8
    <3> HIDE DEF arguments, tags
    <3>2. QED
      BY <1>1, <2>4, <3>1 DEF ReadMessage, tagsBegin, arguments, tags
  <2>9. QED
    BY <2>7, <2>8
<1>4. QED
  BY <1>2, <1>3

\* What is read between two offsets depends on the memory between them only.
LEMMA ElementsFrame ==
  ASSUME TypeOK, TypeOK', NEW a \in Offsets, NEW e \in Offsets, SameBetween(a, e)
  PROVE  \A p, end \in Offsets : a <= p /\ end <= e => Elements'[<<p, end>>] = Elements[<<p, end>>]
<1>1. \A p, end \in Offsets : Elements[<<p, end>>] = ReadElements(Elements, p, end)
  BY ElementsEquation
<1>2. (TypeOK => \A p, end \in Offsets : Elements[<<p, end>>] = ReadElements(Elements, p, end))'
  BY ElementsEquation, PTL
<1>3. \A p, end \in Offsets : Elements'[<<p, end>>] = ReadElements(Elements, p, end)'
  BY <1>2
<1>4. slots \in [Offsets -> Nat] /\ a \in Nat /\ e \in Nat /\ e <= Capacity
  BY OffsetsAreAligned DEF TypeOK
<1> DEFINE Good(p, end) == Elements'[<<p, end>>] = Elements[<<p, end>>]
           S == {n \in Nat : \A p, end \in Offsets : a <= p /\ end <= e /\ end - p < n => Good(p, end)}
<1>5. ASSUME NEW p \in Offsets, NEW end \in Offsets, p >= end PROVE Good(p, end)
  BY <1>1, <1>3, <1>5 DEF ReadElements
<1>6. 0 \in S
  <2>1. ASSUME NEW p \in Offsets, NEW end \in Offsets, end - p < 0 PROVE p >= end
    <3>1. p \in Nat /\ end \in Nat
      BY OffsetsAreAligned
    <3>2. QED
      BY <2>1, <3>1
  <2> HIDE DEF Good
  <2>2. QED
    BY <1>5, <2>1
<1>7. ASSUME NEW n \in Nat, n \in S PROVE n + 1 \in S
  <2> SUFFICES ASSUME NEW p \in Offsets, NEW end \in Offsets, a <= p, end <= e, end - p < n + 1
               PROVE  Good(p, end)
    OBVIOUS
  <2>1. \A q, f \in Offsets : a <= q /\ f <= e /\ f - q < n => Good(q, f)
    BY <1>7
  <2>a. PICK next : next = p + 4 + slots[p]
    OBVIOUS
  <2>2. p \in Nat /\ next \in Nat /\ end \in Nat /\ slots[p] \in Nat /\ p % 4 = 0 /\ end <= Capacity
    BY <1>4, <2>a, OffsetsAreAligned
  <2>3. CASE p >= end
    BY <1>5, <2>3
  <2>4. CASE p < end
    <3>1. slots'[p] = slots[p]
      <4>1. p < e
        BY <1>4, <2>2, <2>4
      <4>2. QED
        BY <4>1 DEF SameBetween
    <3>a. ~ (p >= end)
      BY <2>2, <2>4
    <3>2. CASE next > end \/ slots[p] % 4 # 0
      <4>1. Elements[<<p, end>>] = <<Malformed>>
        BY <1>1, <2>a, <3>a, <3>2 DEF ReadElements
      <4>2. Elements'[<<p, end>>] = <<Malformed>>
        BY <1>3, <2>a, <3>1, <3>a, <3>2 DEF ReadElements
      <4>3. QED
        BY <4>1, <4>2
    <3>3. CASE ~ (next > end \/ slots[p] % 4 # 0)
      <4>1. next <= end /\ slots[p] % 4 = 0 /\ next \in Nat /\ next >= p + 4 /\ next <= Capacity
        BY <2>2, <2>a, <3>3
      <4>2. next \in Offsets
        <5>1. 4 + slots[p] \in Nat /\ (4 + slots[p]) % 4 = 0 /\ p + (4 + slots[p]) = next
          BY <2>2, <2>a, <4>1
        <5>2. QED
          BY <4>1, <5>1, Aligned
      <4>3. p + 4 \in Offsets
        BY <2>4, Aligned
      <4>4. a <= next /\ end - next < n /\ next <= e /\ a <= p + 4 /\ p + 4 <= next /\ p + 4 <= e
        BY <1>4, <2>2, <4>1
      <4>5. Good(next, end)
        BY <2>1, <4>2, <4>4
      <4>6. headers'[p + 4] = headers[p + 4]
        BY <4>3, <4>4 DEF SameBetween
      <4>7. ReadElement(Elements, p + 4, next)' = ReadElement(Elements, p + 4, next)
        <5>0. p + 4 + 16 = p + 20 /\ p + 20 \in Nat
          BY <2>2
        <5>1. CASE headers[p + 4] # "#bundle"
          <6>1. ReadMessage(p + 4, next)' = ReadMessage(p + 4, next)
            BY <4>2, <4>3, <4>4, MessageFrame
          <6>2. QED
            BY <4>6, <5>1, <6>1 DEF ReadElement
        <5>2. CASE headers[p + 4] = "#bundle" /\ p + 20 > next
          BY <4>6, <5>0, <5>2 DEF ReadElement
        <5>3. CASE headers[p + 4] = "#bundle" /\ p + 20 <= next
          <6>1. 20 \in Nat /\ 20 % 4 = 0 /\ p + 20 <= Capacity
            BY <2>2, <4>1, <5>0, <5>3
          <6>2. p + 20 \in Offsets
            BY <6>1, Aligned
          <6>3. a <= p + 20 /\ next - (p + 20) < n
            BY <1>4, <2>2, <4>1
          <6>4. Good(p + 20, next)
            BY <2>1, <4>2, <4>4, <6>2, <6>3
          <6>5. ~ (p + 20 > next)
            BY <2>2, <4>1, <5>3
          <6>6. QED
            BY <4>6, <5>0, <5>3, <6>4, <6>5 DEF ReadElement
        <5>4. p + 20 > next \/ p + 20 <= next
          BY <4>1, <5>0
        <5>5. QED
          BY <5>1, <5>2, <5>3, <5>4
      <4>8. ~ (next > end)
        BY <2>2, <4>1
      <4>9. Elements[<<p, end>>] = <<ReadElement(Elements, p + 4, next)>> \o Elements[<<next, end>>]
        BY <1>1, <3>a, <3>3, <4>8, <2>a DEF ReadElements
      <4>10. Elements'[<<p, end>>] = <<ReadElement(Elements, p + 4, next)'>> \o Elements'[<<next, end>>]
        BY <1>3, <3>1, <3>a, <3>3, <4>8, <2>a DEF ReadElements
      <4>11. QED
        BY <4>5, <4>7, <4>9, <4>10
    <3>4. QED
      BY <3>2, <3>3
  <2>5. QED
    BY <2>2, <2>3, <2>4
<1>8. ASSUME NEW p \in Offsets, NEW end \in Offsets, a <= p, end <= e PROVE Good(p, end)
  <2>1. \A n \in Nat : n \in S
    <3> HIDE DEF S
    <3>1. QED
      BY <1>6, <1>7, NaturalInduction
  <2>2. p \in Nat /\ end \in Nat
    BY OffsetsAreAligned
  <2>3. CASE p >= end
    BY <1>5, <2>3
  <2>4. CASE p < end
    <3>1. (end - p) + 1 \in Nat /\ end - p < (end - p) + 1
      BY <2>2, <2>4
    <3> DEFINE n == (end - p) + 1
    <3>2. n \in S /\ end - p < n
      BY <2>1, <3>1
    <3> HIDE DEF n, Good
    <3>3. QED
      BY <1>8, <3>2
  <2>5. QED
    BY <2>2, <2>3, <2>4
<1>9. QED
  BY <1>8

-----------------------------------------------------------------------------
(* Elements that follow one another.                                       *)

\* Between p and q the slots lead from one element to the next, and end at q.
Walk(p, q) ==
  \E B \in SUBSET Offsets :
     /\ p \in B
     /\ \A x \in B : /\ x <= q
                     /\ x = q \/ (slots[x] % 4 = 0 /\ x + 4 + slots[x] \in B)

\* Whatever is in memory, what is read from it are sequences.
LEMMA ElementsAreSequences ==
  ASSUME TypeOK
  PROVE  \E T : \A p, end \in Offsets : Elements[<<p, end>>] \in Seq(T)
<1>1. \A p, end \in Offsets : Elements[<<p, end>>] = ReadElements(Elements, p, end)
  BY ElementsEquation
<1>2. slots \in [Offsets -> Nat]
  BY DEF TypeOK
<1> DEFINE S == {n \in Nat : \A p, end \in Offsets : end - p < n => \E T : Elements[<<p, end>>] \in Seq(T)}
<1>3. ASSUME NEW p \in Offsets, NEW end \in Offsets, p >= end PROVE Elements[<<p, end>>] = <<>>
  BY <1>1, <1>3 DEF ReadElements
<1>4. 0 \in S
  <2>1. ASSUME NEW p \in Offsets, NEW end \in Offsets, end - p < 0
        PROVE  \E T : Elements[<<p, end>>] \in Seq(T)
    <3>1. p \in Nat /\ end \in Nat
      BY OffsetsAreAligned
    <3>2. Elements[<<p, end>>] = <<>>
      BY <1>3, <2>1, <3>1
    <3>3. <<>> \in Seq({})
      OBVIOUS
    <3>4. QED
      BY <3>2, <3>3
  <2>2. QED
    BY <2>1
<1>5. ASSUME NEW n \in Nat, n \in S PROVE n + 1 \in S
  <2> SUFFICES ASSUME NEW p \in Offsets, NEW end \in Offsets, end - p < n + 1
               PROVE  \E T : Elements[<<p, end>>] \in Seq(T)
    OBVIOUS
  <2>a. PICK next : next = p + 4 + slots[p]
    OBVIOUS
  <2>1. p \in Nat /\ end \in Nat /\ slots[p] \in Nat /\ end <= Capacity /\ next \in Nat
    BY <1>2, <2>a, OffsetsAreAligned
  <2>2. CASE p >= end
    <3>1. <<>> \in Seq({})
      OBVIOUS
    <3>2. QED
      BY <1>3, <2>2, <3>1
  <2>3. CASE p < end /\ (next > end \/ slots[p] % 4 # 0)
    <3>1. Elements[<<p, end>>] = <<Malformed>>
      <4>1. ~ (p >= end)
        BY <2>1, <2>3
      <4>2. QED
        BY <1>1, <2>a, <2>3, <4>1 DEF ReadElements
    <3>2. <<Malformed>> \in Seq({Malformed})
      OBVIOUS
    <3>3. QED
      BY <3>1, <3>2
  <2>4. CASE p < end /\ next <= end /\ slots[p] % 4 = 0
    <3>1. 4 + slots[p] \in Nat /\ (4 + slots[p]) % 4 = 0 /\ p + (4 + slots[p]) = next
          /\ next <= Capacity
      BY <2>1, <2>a, <2>4
    <3>2. next \in Offsets
      BY <3>1, Aligned
    <3>3. end - next < n
      BY <2>1, <2>a, <2>4
    <3>4. PICK T : Elements[<<next, end>>] \in Seq(T)
      BY <1>5, <3>2, <3>3
    <3>5. PICK e : e = ReadElement(Elements, p + 4, next)
      OBVIOUS
    <3>6. Elements[<<p, end>>] = <<e>> \o Elements[<<next, end>>]
      <4>1. ~ (p >= end) /\ ~ (next > end)
        BY <2>1, <2>4
      <4>2. QED
        BY <1>1, <2>a, <2>4, <3>5, <4>1 DEF ReadElements
    <3>7. <<e>> \in Seq(T \cup {e}) /\ Elements[<<next, end>>] \in Seq(T \cup {e})
      <4>1. Elements[<<next, end>>] \in Seq(T \cup {e})
        BY <3>4, SeqMonotonic, T \subseteq T \cup {e}
      <4>2. QED
        BY <4>1
    <3>8. Elements[<<p, end>>] \in Seq(T \cup {e})
      BY <3>6, <3>7, ConcatProperties
    <3>9. QED
      BY <3>8
  <2>5. QED
    <3>1. p >= end \/ p < end
      BY <2>1
    <3>2. next > end \/ next <= end
      BY <2>1
    <3>3. QED
      BY <2>2, <2>3, <2>4, <3>1, <3>2
<1>6. \A n \in Nat : n \in S
  <2> HIDE DEF S
  <2>1. QED
    BY <1>4, <1>5, NaturalInduction
<1>7. ASSUME NEW p \in Offsets, NEW end \in Offsets PROVE \E T : Elements[<<p, end>>] \in Seq(T)
  <2>1. end - p < Capacity + 1 /\ Capacity + 1 \in Nat
    BY OffsetsAreAligned
  <2>2. QED
    BY <1>6, <2>1
<1> DEFINE V == {Elements[r][i] : r \in Offsets \X Offsets, i \in Nat}
<1>8. ASSUME NEW p \in Offsets, NEW end \in Offsets PROVE Elements[<<p, end>>] \in Seq(V)
  <2>1. PICK T : Elements[<<p, end>>] \in Seq(T)
    BY <1>7
  <2>2. PICK s : s = Elements[<<p, end>>]
    OBVIOUS
  <2>3. <<p, end>> \in Offsets \X Offsets
    OBVIOUS
  <2>4. Len(s) \in Nat /\ s = [i \in 1..Len(s) |-> s[i]]
    BY <2>1, <2>2
  <2>5. \A i \in Nat : s[i] \in V
    BY <2>2, <2>3
  <2> HIDE DEF V
  <2>6. \A i \in 1..Len(s) : s[i] \in V
    BY <2>4, <2>5
  <2>7. s \in [1..Len(s) -> V]
    BY <2>4, <2>6
  <2>8. s \in Seq(V)
    BY <2>4, <2>7, SeqDef
  <2>9. QED
    BY <2>2, <2>8
<1> HIDE DEF V
<1>9. QED
  BY <1>8

\* Two stretches of elements, one after the other.
LEMMA ElementsSplit ==
  ASSUME TypeOK
  PROVE  \A p, q, end \in Offsets :
           Walk(p, q) /\ q <= end => Elements[<<p, end>>] = Elements[<<p, q>>] \o Elements[<<q, end>>]
<1> SUFFICES ASSUME NEW p \in Offsets, NEW q \in Offsets, NEW end \in Offsets, Walk(p, q), q <= end
             PROVE  Elements[<<p, end>>] = Elements[<<p, q>>] \o Elements[<<q, end>>]
  OBVIOUS
<1>1. \A x, e \in Offsets : Elements[<<x, e>>] = ReadElements(Elements, x, e)
  BY ElementsEquation
<1>2. slots \in [Offsets -> Nat] /\ q \in Nat /\ end \in Nat /\ end <= Capacity
  BY OffsetsAreAligned DEF TypeOK
<1>3. PICK T : \A x, e \in Offsets : Elements[<<x, e>>] \in Seq(T)
  BY ElementsAreSequences
<1>4. PICK B \in SUBSET Offsets :
              /\ p \in B
              /\ \A x \in B : /\ x <= q
                              /\ x = q \/ (slots[x] % 4 = 0 /\ x + 4 + slots[x] \in B)
  BY DEF Walk
<1> DEFINE Good(x) == Elements[<<x, end>>] = Elements[<<x, q>>] \o Elements[<<q, end>>]
           S == {n \in Nat : \A x \in B : q - x < n => Good(x)}
<1>5. 0 \in S
  <2>1. \A x \in B : ~ (q - x < 0)
    BY <1>2, <1>4, OffsetsAreAligned
  <2> HIDE DEF Good
  <2>2. QED
    BY <2>1
<1>6. ASSUME NEW n \in Nat, n \in S PROVE n + 1 \in S
  <2> HIDE DEF Good
  <2> SUFFICES ASSUME NEW x \in B, q - x < n + 1 PROVE Good(x)
    OBVIOUS
  <2>1. x \in Offsets /\ x \in Nat /\ x <= q /\ slots[x] \in Nat
    BY <1>2, <1>4, OffsetsAreAligned
  <2>2. CASE x = q
    <3>1. Elements[<<x, q>>] = <<>>
      <4>1. x >= q
        BY <1>2, <2>2
      <4>2. Elements[<<x, q>>] = ReadElements(Elements, x, q)
        BY <1>1, <2>1
      <4>3. QED
        BY <4>1, <4>2 DEF ReadElements
    <3>2. Elements[<<q, end>>] \in Seq(T)
      BY <1>3
    <3>3. QED
      BY <2>2, <3>1, <3>2, ConcatEmptySeq DEF Good
  <2>3. CASE x # q
    <3>a. PICK next : next = x + 4 + slots[x]
      OBVIOUS
    <3>1. slots[x] % 4 = 0 /\ next \in B
      BY <1>4, <2>3, <3>a
    <3>2. next \in Offsets /\ next \in Nat /\ next <= q
      BY <1>2, <1>4, <3>1, OffsetsAreAligned
    <3>3. ~ (x >= q) /\ ~ (x >= end) /\ ~ (next > q) /\ ~ (next > end) /\ q - next < n
      BY <1>2, <2>1, <2>3, <3>2, <3>a
    <3>4. PICK e : e = ReadElement(Elements, x + 4, next)
      OBVIOUS
    <3>5. Elements[<<x, end>>] = <<e>> \o Elements[<<next, end>>]
      BY <1>1, <2>1, <3>1, <3>3, <3>4, <3>a DEF ReadElements
    <3>6. Elements[<<x, q>>] = <<e>> \o Elements[<<next, q>>]
      BY <1>1, <2>1, <3>1, <3>3, <3>4, <3>a DEF ReadElements
    <3>7. Good(next)
      BY <1>6, <3>1, <3>3
    <3>8. Elements[<<next, end>>] = Elements[<<next, q>>] \o Elements[<<q, end>>]
      BY <3>7 DEF Good
    <3>9. PICK U : T \subseteq U /\ e \in U
      <4>1. T \subseteq T \cup {e} /\ e \in T \cup {e}
        OBVIOUS
      <4>2. QED
        BY <4>1
    <3>10. <<e>> \in Seq(U)
      BY <3>9
    <3>11. Elements[<<next, q>>] \in Seq(U) /\ Elements[<<q, end>>] \in Seq(U)
      BY <1>3, <3>2, <3>9, SeqMonotonic
    <3>12. <<e>> \o (Elements[<<next, q>>] \o Elements[<<q, end>>])
             = (<<e>> \o Elements[<<next, q>>]) \o Elements[<<q, end>>]
      <4>1. PICK f, s, t : f = <<e>> /\ s = Elements[<<next, q>>] /\ t = Elements[<<q, end>>]
        OBVIOUS
      <4>2. f \in Seq(U) /\ s \in Seq(U) /\ t \in Seq(U)
        BY <3>10, <3>11, <4>1
      <4>3. (f \o s) \o t = f \o (s \o t)
        BY <4>2, ConcatAssociative
      <4>4. QED
        BY <4>1, <4>3
    <3>13. QED
      BY <3>5, <3>6, <3>8, <3>12 DEF Good
  <2>4. QED
    BY <2>2, <2>3
<1>7. \A n \in Nat : n \in S
  <2> HIDE DEF S
  <2>1. QED
    BY <1>5, <1>6, NaturalInduction
<1>8. p \in Nat /\ p <= q /\ (q - p) + 1 \in Nat /\ q - p < (q - p) + 1
  BY <1>2, <1>4, OffsetsAreAligned
<1>9. PICK n \in Nat : q - p < n
  BY <1>8
<1>10. n \in S
  BY <1>7
<1> HIDE DEF Good
<1>11. Good(p)
  BY <1>4, <1>9, <1>10
<1>12. QED
  BY <1>11 DEF Good

\* The path to an offset depends on the slots up to it only.
LEMMA PathFrame ==
  ASSUME NEW m, \A x \in Offsets : x < m => slots'[x] = slots[x],
         m \in Int
  PROVE  \A p \in Offsets : p < m => Path'[p] = Path[p]
<1>1. \A p \in Offsets :
        Path[p] = IF slots[p] \in Offsets /\ slots[p] < p THEN Append(Path[slots[p]], p) ELSE <<p>>
  BY PathEquation
<1>2. \A p \in Offsets :
        Path'[p] = IF slots'[p] \in Offsets /\ slots'[p] < p THEN Append(Path'[slots'[p]], p) ELSE <<p>>
  <2>1. (\A p \in Offsets :
        Path[p] = IF slots[p] \in Offsets /\ slots[p] < p THEN Append(Path[slots[p]], p) ELSE <<p>>)'
    BY PathEquation, PTL
  <2>2. QED
    BY <2>1
<1> DEFINE S == {n \in Nat : \A p \in Offsets : p < n /\ p < m => Path'[p] = Path[p]}
<1>3. 0 \in S
  BY OffsetsAreAligned
<1>4. ASSUME NEW n \in Nat, n \in S PROVE n + 1 \in S
  <2> SUFFICES ASSUME NEW p \in Offsets, p < n + 1, p < m PROVE Path'[p] = Path[p]
    OBVIOUS
  <2>1. slots'[p] = slots[p]
    OBVIOUS
  <2>2. CASE slots[p] \in Offsets /\ slots[p] < p
    <3>1. slots[p] \in Nat /\ p \in Nat
      BY <2>2, OffsetsAreAligned
    <3>2. slots[p] < n /\ slots[p] < m
      BY <2>2, <3>1
    <3>3. Path'[slots[p]] = Path[slots[p]]
      BY <1>4, <2>2, <3>2
    <3>4. QED
      BY <1>1, <1>2, <2>1, <2>2, <3>3
  <2>3. CASE ~ (slots[p] \in Offsets /\ slots[p] < p)
    BY <1>1, <1>2, <2>1, <2>3
  <2>4. QED
    BY <2>2, <2>3
<1>5. \A n \in Nat : n \in S
  <2> HIDE DEF S
  <2>1. QED
    BY <1>3, <1>4, NaturalInduction
<1>6. \A p \in Offsets : p < Capacity + 1 /\ Capacity + 1 \in Nat
  BY OffsetsAreAligned
<1>7. QED
  BY <1>5, <1>6

-----------------------------------------------------------------------------
(* The stack of open elements.                                             *)

\* Every path is a sequence of offsets.
LEMMA PathIsSequence == \A p \in Offsets : Path[p] \in Seq(Offsets)
<1> DEFINE S == {n \in Nat : \A p \in Offsets : p < n => Path[p] \in Seq(Offsets)}
<1>1. 0 \in S
  BY OffsetsAreAligned
<1>2. ASSUME NEW n \in Nat, n \in S PROVE n + 1 \in S
  <2> SUFFICES ASSUME NEW p \in Offsets, p < n + 1 PROVE Path[p] \in Seq(Offsets)
    OBVIOUS
  <2>1. CASE slots[p] \in Offsets /\ slots[p] < p
    <3>1. slots[p] < n
      BY <2>1, OffsetsAreAligned
    <3>2. Path[slots[p]] \in Seq(Offsets)
      BY <1>2, <2>1, <3>1
    <3>3. Path[p] = Append(Path[slots[p]], p)
      BY <2>1, PathEquation
    <3>4. QED
      BY <3>2, <3>3
  <2>2. CASE ~ (slots[p] \in Offsets /\ slots[p] < p)
    <3>1. Path[p] = <<p>>
      BY <2>2, PathEquation
    <3>2. QED
      BY <3>1
  <2>3. QED
    BY <2>1, <2>2
<1>3. \A n \in Nat : n \in S
  <2> HIDE DEF S
  <2>1. QED
    BY <1>1, <1>2, NaturalInduction
<1>4. \A p \in Offsets : p < Capacity + 1 /\ Capacity + 1 \in Nat
  BY OffsetsAreAligned
<1>5. QED
  BY <1>3, <1>4

\* Following the slots from the innermost open element finds the whole stack.
LEMMA ChainIsStack ==
  ASSUME TypeOK, ~astray, NEW n \in Nat, NEW c \in [1..n -> Offsets], IsStack(n, c)
  PROVE  Chain \in Seq(Offsets) /\ Len(Chain) = n /\ \A i \in 1..n : Chain[i] = c[i]
<1>1. \A p \in Offsets :
        Path[p] = IF slots[p] \in Offsets /\ slots[p] < p THEN Append(Path[slots[p]], p) ELSE <<p>>
  BY PathEquation
<1>2. /\ elementSizePtr = IF n = 0 THEN Null ELSE c[n]
      /\ n > 0 => c[1] = 0
      /\ \A i \in 2..n : c[i] > 0 /\ slots[c[i]] = c[i - 1]
      /\ \A i, j \in 1..n : i < j => c[i] < c[j]
  BY DEF IsStack
<1> DEFINE Good(i) == /\ Path[c[i]] \in Seq(Offsets)
                      /\ Len(Path[c[i]]) = i
                      /\ \A j \in 1..i : Path[c[i]][j] = c[j]
           S == {i \in Nat : i + 1 <= n => Good(i + 1)}
<1>3. 0 \in S
  <2> SUFFICES ASSUME 1 <= n PROVE Good(1)
    OBVIOUS
  <2>1. c[1] = 0 /\ 0 \in Offsets /\ slots[0] \in Nat
    BY <1>2, Aligned DEF TypeOK
  <2>2. Path[0] = <<0>>
    <3>1. ~ (slots[0] < 0)
      BY <2>1
    <3>2. QED
      BY <1>1, <2>1, <3>1
  <2>3. QED
    BY <2>1, <2>2
<1>4. ASSUME NEW i \in Nat, i \in S PROVE i + 1 \in S
  <2> HIDE DEF Good
  <2> SUFFICES ASSUME i + 2 <= n PROVE Good(i + 2)
    OBVIOUS
  <2>1. Good(i + 1) /\ i + 1 \in 1..n /\ i + 2 \in 2..n /\ i + 2 \in 1..n /\ i + 1 < i + 2
        /\ (i + 2) - 1 = i + 1
    BY <1>4
  <2>2. slots[c[i + 2]] = c[i + 1] /\ c[i + 1] < c[i + 2] /\ c[i + 1] \in Offsets /\ c[i + 2] \in Offsets
    BY <1>2, <2>1
  <2>3. Path[c[i + 2]] = Append(Path[c[i + 1]], c[i + 2])
    BY <1>1, <2>2
  <2>4. PICK s : s = Path[c[i + 1]]
    OBVIOUS
  <2>5. s \in Seq(Offsets) /\ Len(s) = i + 1 /\ \A j \in 1..(i + 1) : s[j] = c[j]
    BY <2>1, <2>4 DEF Good
  <2>6. PICK t : t = Append(s, c[i + 2])
    OBVIOUS
  <2>7. t \in Seq(Offsets) /\ Len(t) = i + 2 /\ t[i + 2] = c[i + 2]
        /\ \A j \in 1..(i + 1) : t[j] = s[j]
    BY <2>2, <2>5, <2>6
  <2>8. \A j \in 1..(i + 2) : t[j] = c[j]
    <3>1. ASSUME NEW j \in 1..(i + 2) PROVE t[j] = c[j]
      <4>1. CASE j = i + 2
        BY <2>7, <4>1
      <4>2. CASE j # i + 2
        <5>1. j \in 1..(i + 1)
          BY <4>2
        <5>2. QED
          BY <2>5, <2>7, <5>1
      <4>3. QED
        BY <4>1, <4>2
    <3>2. QED
      BY <3>1
  <2>9. Path[c[i + 2]] = t
    BY <2>3, <2>4, <2>6
  <2>10. QED
    BY <2>7, <2>8, <2>9 DEF Good
<1>5. \A i \in Nat : i \in S
  <2> HIDE DEF S
  <2>1. QED
    BY <1>3, <1>4, NaturalInduction
<1>6. CASE n = 0
  BY <1>2, <1>6 DEF Chain
<1>7. CASE n > 0
  <2>1. n - 1 \in Nat /\ (n - 1) + 1 = n /\ n \in 1..n
    BY <1>7
  <2>2. Good(n)
    <3> HIDE DEF Good
    <3>1. \A i \in Nat : i + 1 <= n => Good(i + 1)
      BY <1>5
    <3>2. Good((n - 1) + 1)
      BY <2>1, <3>1
    <3>3. QED
      BY <2>1, <3>2
  <2>3. elementSizePtr = c[n] /\ c[n] \in Offsets
    BY <1>2, <1>7, <2>1
  <2>4. elementSizePtr # Null
    BY <2>3, OffsetsAreAligned DEF Null
  <2>5. QED
    BY <2>2, <2>3, <2>4 DEF Chain
<1>8. QED
  BY <1>6, <1>7

\* The slots of the open elements, in the words of IsStack.
LEMMA ChainOrder ==
  ASSUME PInv
  PROVE  /\ Chain \in Seq(Offsets) /\ Len(Chain) \in Nat
         /\ elementSizePtr = IF Len(Chain) = 0 THEN Null ELSE Chain[Len(Chain)]
         /\ Len(Chain) > 0 => Chain[1] = 0
         /\ \A i \in 2..Len(Chain) : Chain[i] > 0 /\ slots[Chain[i]] = Chain[i - 1]
         /\ \A i, j \in 1..Len(Chain) : i < j => Chain[i] < Chain[j]
         /\ \A i \in 1..Len(Chain) : Chain[i] \in Offsets /\ Chain[i] + 4 <= messageCursor
<1>1. TypeOK /\ LinkedStack /\ ~astray
  BY DEF PInv, IInv, PointerStaysInBuffer
<1>2. PICK n \in Nat : \E c \in [1..n -> Offsets] : IsStack(n, c)
  BY <1>1 DEF LinkedStack
<1>3. PICK c \in [1..n -> Offsets] : IsStack(n, c)
  BY <1>2
<1>4. Chain \in Seq(Offsets) /\ Len(Chain) = n /\ \A i \in 1..n : Chain[i] = c[i]
  BY <1>1, <1>3, ChainIsStack
<1>5. /\ elementSizePtr = IF n = 0 THEN Null ELSE c[n]
      /\ n > 0 => c[1] = 0
      /\ \A i \in 2..n : c[i] > 0 /\ slots[c[i]] = c[i - 1]
      /\ \A i, j \in 1..n : i < j => c[i] < c[j]
      /\ \A i \in 1..n : c[i] + 4 <= messageCursor
  BY <1>3 DEF IsStack
<1> HIDE DEF Chain
<1>6. n > 0 => n \in 1..n /\ 1 \in 1..n
  OBVIOUS
<1>7. \A i \in 2..n : i \in 1..n /\ i - 1 \in 1..n
  OBVIOUS
<1>8. QED
  BY <1>4, <1>5, <1>6, <1>7

\* BeginElement adds the slot of the new element to the chain.
LEMMA ChainPushed ==
  ASSUME PInv, BeginElement, NEW top, top = IF elementSizePtr = Null THEN 0 ELSE messageCursor
  PROVE  Chain' = Append(Chain, top)
<1>0. TypeOK /\ messageCursor \in Offsets /\ slots \in [Offsets -> Nat] /\ 0 \in Offsets
  BY Aligned DEF PInv, IInv, TypeOK
<1>a. ~astray /\ ~astray'
  BY DEF PInv, PointerStaysInBuffer, BeginElement
<1>1. (\A p \in Offsets :
        Path[p] = IF slots[p] \in Offsets /\ slots[p] < p THEN Append(Path[slots[p]], p) ELSE <<p>>)'
  BY PathEquation, PTL
<1>2. \A p \in Offsets :
        Path'[p] = IF slots'[p] \in Offsets /\ slots'[p] < p THEN Append(Path'[slots'[p]], p) ELSE <<p>>
  BY <1>1
<1>3. CASE elementSizePtr = Null
  <2>1. elementSizePtr' = 0 /\ slots' = slots
    BY <1>3 DEF BeginElement
  <2>2. Path'[0] = <<0>>
    <3>1. slots'[0] \in Nat
      BY <1>0, <2>1
    <3>2. ~ (slots'[0] < 0)
      BY <3>1
    <3>3. QED
      BY <1>0, <1>2, <3>2
  <2>3. Chain = <<>> /\ Chain' = <<0>>
    BY <1>a, <1>3, <2>1, <2>2 DEF Chain, Null
  <2>4. QED
    BY <1>3, <2>3
<1>4. CASE elementSizePtr # Null
  <2>1. elementSizePtr' = messageCursor /\ slots' = [slots EXCEPT ![messageCursor] = elementSizePtr]
    BY <1>4 DEF BeginElement
  <2>2. elementSizePtr \in Offsets /\ elementSizePtr < messageCursor /\ messageCursor \in Nat
    <3>1. Len(Chain) \in Nat /\ Len(Chain) # 0 /\ elementSizePtr = Chain[Len(Chain)]
      BY <1>4, ChainOrder
    <3>2. elementSizePtr \in Offsets /\ elementSizePtr + 4 <= messageCursor
      BY <3>1, ChainOrder
    <3>3. QED
      BY <1>0, <3>2, OffsetsAreAligned, WordBelow
  <2>3. slots'[messageCursor] = elementSizePtr
    BY <1>0, <2>1
  <2>4. Path'[messageCursor] = Append(Path'[elementSizePtr], messageCursor)
    BY <1>0, <1>2, <2>2, <2>3
  <2>5. \A x \in Offsets : x < messageCursor => slots'[x] = slots[x]
    BY <1>0, <2>1, <2>2
  <2>6. Path'[elementSizePtr] = Path[elementSizePtr]
    <3>1. PICK m : m = messageCursor
      OBVIOUS
    <3>2. m \in Int /\ \A x \in Offsets : x < m => slots'[x] = slots[x]
      BY <2>2, <2>5, <3>1
    <3>3. QED
      BY <2>2, <3>1, <3>2, PathFrame
  <2>7. Chain = Path[elementSizePtr]
    BY <1>a, <1>4 DEF Chain
  <2>8. Chain' = Path'[messageCursor]
    BY <1>a, <2>1, <2>2 DEF Chain, Null
  <2>9. QED
    BY <1>4, <2>4, <2>6, <2>7, <2>8
<1>5. QED
  BY <1>3, <1>4

\* EndElement takes the slot of the finished element off the chain.
LEMMA ChainPopped ==
  ASSUME PInv, PointerStaysInBuffer', elementSizePtr # Null, NEW end, EndElement(end)
  PROVE  /\ Len(Chain) \in Nat /\ Len(Chain) >= 1
         /\ Len(Chain') = Len(Chain) - 1
         /\ \A i \in 1..(Len(Chain) - 1) : Chain'[i] = Chain[i]
         /\ elementSizePtr' = Null <=> Len(Chain) = 1
<1>0. TypeOK /\ slots \in [Offsets -> Nat]
  BY DEF PInv, IInv, TypeOK
<1>a. ~astray /\ ~astray'
  BY DEF PInv, PointerStaysInBuffer
<1>1. PICK c, n : c = Chain /\ n = Len(Chain)
  OBVIOUS
<1>2. /\ c \in Seq(Offsets) /\ n \in Nat /\ n = Len(c) /\ n # 0 /\ elementSizePtr = c[n]
      /\ c[1] = 0 /\ \A i \in 2..n : c[i] > 0 /\ slots[c[i]] = c[i - 1]
      /\ \A i, j \in 1..n : i < j => c[i] < c[j]
  BY <1>1, ChainOrder
<1>3. n \in 1..n /\ c[n] \in Offsets
  BY <1>2
<1>4. CASE elementSizePtr = 0
  <2>1. elementSizePtr' = Null
    BY <1>4 DEF EndElement
  <2>2. n = 1
    <3>1. n \notin 2..n
      <4>1. c[n] = 0 /\ ~ (0 > 0)
        BY <1>2, <1>4
      <4>2. \A i \in 2..n : c[i] > 0
        BY <1>2
      <4>3. QED
        BY <4>1, <4>2
    <3>2. QED
      BY <1>3, <3>1
  <2>3. Chain' = <<>>
    BY <1>a, <2>1 DEF Chain
  <2>4. QED
    BY <1>1, <2>1, <2>2, <2>3
<1>5. CASE elementSizePtr # 0
  <2>1. elementSizePtr' = slots[elementSizePtr]
        /\ slots' = [slots EXCEPT ![elementSizePtr] = end - elementSizePtr - 4]
    BY <1>5 DEF EndElement
  <2>2. n \in 2..n /\ n - 1 \in 1..n /\ n - 1 < n
    BY <1>2, <1>3, <1>5
  <2>3. slots[c[n]] = c[n - 1] /\ c[n - 1] \in Offsets /\ c[n - 1] < c[n] /\ c[n] \in Nat
        /\ c[n - 1] \in Nat
    BY <1>2, <1>3, <2>2, OffsetsAreAligned
  <2>4. elementSizePtr' = c[n - 1] /\ elementSizePtr' # Null
    BY <1>2, <2>1, <2>3 DEF Null
  <2>5. \A x \in Offsets : x < c[n] => slots'[x] = slots[x]
    BY <1>0, <1>2, <2>1, <2>3
  <2>6. Path'[c[n - 1]] = Path[c[n - 1]]
    <3>1. PICK m : m = c[n]
      OBVIOUS
    <3>2. m \in Int /\ \A x \in Offsets : x < m => slots'[x] = slots[x]
      BY <2>3, <2>5, <3>1
    <3>3. QED
      BY <2>3, <3>1, <3>2, PathFrame
  <2>7. Path[c[n]] = Append(Path[c[n - 1]], c[n])
    BY <1>3, <2>3, PathEquation
  <2>8. Chain = Path[c[n]] /\ Chain' = Path'[c[n - 1]]
    BY <1>a, <1>2, <1>5, <2>4 DEF Chain
  <2>9. PICK s : s = Path[c[n - 1]]
    OBVIOUS
  <2>10. c = Append(s, c[n]) /\ Chain' = s
    BY <1>1, <2>6, <2>7, <2>8, <2>9
  <2>11. s \in Seq(Offsets)
    BY <2>3, <2>9, PathIsSequence
  <2>12. Len(c) = Len(s) + 1 /\ \A i \in 1..Len(s) : c[i] = s[i]
    BY <2>10, <2>11
  <2>13. Len(s) = n - 1
    BY <1>2, <2>11, <2>12
  <2>14. n # 1
    BY <2>2
  <2>15. QED
    BY <1>1, <1>2, <2>4, <2>10, <2>12, <2>13, <2>14
<1>6. QED
  BY <1>4, <1>5

-----------------------------------------------------------------------------
(* The invariant of the reader.                                            *)

\* An open bundle has its header, and the elements it has so far follow one
\* another up to e.
OpenAt(slot, e) ==
  /\ Contents(slot) + 16 <= e
  /\ headers[Contents(slot)] = "#bundle"
  /\ Walk(Contents(slot) + 16, e)

BundlesReadable == \A i \in 1..OpenBundles : OpenAt(Chain[i], ContentsEnd[i])

\* The message in progress has its address pattern, and its arguments are those
\* the type tags announce.
MessageReadable ==
  messageIsInProgress =>
    /\ headers[Contents(elementSizePtr)] \in Addresses
    /\ messageCursor = Contents(elementSizePtr) + AddressSize(headers[Contents(elementSizePtr)])
    /\ argumentCurrent = messageCursor + BlockSize(block)
    /\ Stored(InsertionOrder, Len(typeTags)) = Len(block)

\* The element in a slot, had it just been finished.
Finished ==
  [slot \in Offsets |-> ReadElement(Elements, Contents(slot), messageCursor)]

NothingPending == ~messageIsInProgress => argumentCurrent = messageCursor

RInv == BundlesReadable /\ MessageReadable /\ NothingPending

\* An open bundle that nothing is written into stays open, and its elements stay.
LEMMA OpenFrame ==
  ASSUME TypeOK, TypeOK', NEW slot \in Offsets, NEW e \in Offsets, OpenAt(slot, e),
         SameBetween(0, e)
  PROVE  /\ OpenAt(slot, e)'
         /\ Contents(slot) + 16 \in Offsets
         /\ Elements'[<<Contents(slot) + 16, e>>] = Elements[<<Contents(slot) + 16, e>>]
<1>1. PICK start : start = Contents(slot) + 16
  OBVIOUS
<1>2. start <= e /\ headers[Contents(slot)] = "#bundle" /\ Walk(start, e)
  BY <1>1 DEF OpenAt
<1>3. Contents(slot) \in Nat /\ Contents(slot) <= start /\ start \in Nat /\ e \in Nat /\ e <= Capacity
      /\ 0 \in Offsets /\ slot \in Nat
  BY <1>1, OffsetsAreAligned, Aligned DEF Contents
<1>4. Contents(slot) \in Offsets /\ start \in Offsets
  <2>1. slot \in Nat /\ start <= Capacity
    BY <1>2, <1>3
  <2>2. CASE slot = 0
    <3>1. Contents(slot) = 0 /\ start = 0 + 16 /\ 16 % 4 = 0
      BY <1>1, <2>2 DEF Contents
    <3>2. QED
      BY <1>3, <2>1, <3>1, Aligned
  <2>3. CASE slot # 0
    <3>1. Contents(slot) = slot + 4 /\ start = slot + 20 /\ 4 % 4 = 0 /\ 20 % 4 = 0
          /\ slot + 4 <= Capacity
      BY <1>1, <2>1, <2>3 DEF Contents
    <3>2. QED
      BY <1>3, <2>1, <3>1, Aligned
  <2>4. QED
    BY <2>2, <2>3
<1>5. Elements'[<<start, e>>] = Elements[<<start, e>>]
  <2>1. 0 <= start /\ e <= e
    BY <1>3
  <2>2. QED
    BY <1>3, <1>4, <2>1, ElementsFrame
<1>6. headers'[Contents(slot)] = "#bundle"
  <2>1. 0 <= Contents(slot) /\ Contents(slot) <= e
    BY <1>2, <1>3
  <2>2. QED
    BY <1>2, <1>4, <2>1 DEF SameBetween
<1>7. Walk(start, e)'
  <2>1. PICK B \in SUBSET Offsets :
          /\ start \in B
          /\ \A x \in B : x <= e /\ (x = e \/ (slots[x] % 4 = 0 /\ x + 4 + slots[x] \in B))
    BY <1>2 DEF Walk
  <2>2. \A x \in B : x # e => slots'[x] = slots[x]
    <3>1. ASSUME NEW x \in B, x # e PROVE slots'[x] = slots[x]
      <4>1. x \in Offsets /\ 0 <= x /\ x < e
        BY <1>3, <2>1, <3>1, OffsetsAreAligned
      <4>2. QED
        BY <4>1 DEF SameBetween
    <3>2. QED
      BY <3>1
  <2>3. \A x \in B : x <= e /\ (x = e \/ (slots'[x] % 4 = 0 /\ x + 4 + slots'[x] \in B))
    BY <2>1, <2>2
  <2>4. QED
    BY <2>1, <2>3 DEF Walk
<1>8. OpenAt(slot, e)'
  BY <1>1, <1>2, <1>6, <1>7 DEF OpenAt
<1>9. QED
  BY <1>1, <1>4, <1>5, <1>8

\* Where what is written of each open element ends.
LEMMA ContentsEndOf ==
  ASSUME PInv
  PROVE  \A i \in 1..Len(Chain) :
           /\ ContentsEnd[i] \in Offsets
           /\ ContentsEnd[i] <= messageCursor
           /\ i < Len(Chain) => ContentsEnd[i] = Chain[i + 1]
           /\ i = Len(Chain) => ContentsEnd[i] = messageCursor
<1> SUFFICES ASSUME NEW i \in 1..Len(Chain)
             PROVE /\ ContentsEnd[i] \in Offsets
                   /\ ContentsEnd[i] <= messageCursor
                   /\ i < Len(Chain) => ContentsEnd[i] = Chain[i + 1]
                   /\ i = Len(Chain) => ContentsEnd[i] = messageCursor
  OBVIOUS
<1>1. messageCursor \in Offsets /\ messageCursor \in Nat
  BY OffsetsAreAligned DEF PInv, IInv, TypeOK
<1>2. PICK n \in Nat : n = Len(Chain)
  BY ChainOrder
<1>3. CASE i < n
  <2>1. i + 1 \in 1..n
    BY <1>2, <1>3
  <2>2. Chain[i + 1] \in Offsets /\ Chain[i + 1] + 4 <= messageCursor
    BY <1>2, <2>1, ChainOrder
  <2>3. Chain[i + 1] <= messageCursor
    BY <1>1, <2>2, OffsetsAreAligned, WordBelow
  <2>4. ContentsEnd[i] = Chain[i + 1] /\ i # n
    BY <1>2, <1>3 DEF ContentsEnd
  <2>5. QED
    BY <1>2, <2>2, <2>3, <2>4
<1>4. CASE ~ (i < n)
  <2>1. ContentsEnd[i] = messageCursor
    BY <1>2, <1>4 DEF ContentsEnd
  <2>2. QED
    BY <1>1, <1>2, <1>4, <2>1
<1>5. QED
  BY <1>3, <1>4

\* A new element goes behind everything that is open.
LEMMA Opening ==
  ASSUME OnePacket, PInv, PInv', RInv, MayOpen, ~messageIsInProgress, BeginElement,
         NEW h, headers' = [headers EXCEPT ![messageCursor + SlotSize] = h],
         UNCHANGED <<tagStrings, blocks>>,
         NEW n, n = Len(Chain)
  PROVE  /\ n \in Nat /\ Len(Chain') = n + 1 /\ elementSizePtr' = Chain'[n + 1]
         /\ Contents(elementSizePtr') = messageCursor + SlotSize
         /\ OpenBundles = n
         /\ n = 0 => messageCursor = 0
         /\ \A i \in 1..n : /\ OpenAt(Chain[i], ContentsEnd[i])'
                            /\ Elements'[<<Contents(Chain'[i]) + 16, ContentsEnd'[i]>>]
                                 = Elements[<<Contents(Chain[i]) + 16, ContentsEnd[i]>>]
<1>0. /\ TypeOK /\ TypeOK' /\ messageCursor \in Offsets /\ messageCursor \in Nat
      /\ slots \in [Offsets -> Nat]
      /\ headers \in [Offsets -> Addresses \cup {"#bundle", Unset}]
      /\ 0 \in Offsets
  BY OffsetsAreAligned, Aligned DEF PInv, IInv, TypeOK
<1>1. PICK c : c = Chain
  OBVIOUS
<1>2. /\ c \in Seq(Offsets) /\ n \in Nat /\ n = Len(c)
      /\ elementSizePtr = IF n = 0 THEN Null ELSE c[n]
      /\ n > 0 => c[1] = 0
      /\ \A i \in 1..n : c[i] \in Offsets /\ c[i] + 4 <= messageCursor
  BY <1>1, ChainOrder
<1>3. elementSizePtr = Null <=> n = 0
  <2>1. n # 0 => c[n] \in Offsets
    BY <1>2
  <2>2. n # 0 => c[n] # Null
    BY <2>1, OffsetsAreAligned DEF Null
  <2>3. QED
    BY <1>2, <2>2
<1>4. n = 0 => messageCursor = 0
  BY <1>3 DEF MayOpen, IsBundleInProgress
<1>5. PICK top : top = IF elementSizePtr = Null THEN 0 ELSE messageCursor
  OBVIOUS
<1>6. Chain' = Append(c, top) /\ top \in Offsets
  BY <1>0, <1>1, <1>5, ChainPushed
<1>7. Len(Chain') = n + 1 /\ Chain'[n + 1] = top /\ \A i \in 1..n : Chain'[i] = c[i]
  BY <1>2, <1>6
<1>8. elementSizePtr' = top
  BY <1>5 DEF BeginElement
<1>9. n > 0 => messageCursor >= 4
  <2>1. SUFFICES ASSUME n > 0 PROVE messageCursor >= 4
    OBVIOUS
  <2>2. 1 \in 1..n /\ c[1] = 0
    BY <1>2, <2>1
  <2>3. 0 + 4 <= messageCursor
    BY <1>2, <2>2
  <2>4. QED
    BY <1>0, <2>3
<1>10. Contents(top) = messageCursor + SlotSize
  <2>1. CASE n = 0
    BY <1>3, <1>4, <1>5, <2>1 DEF Contents, SlotSize, IsBundleInProgress
  <2>2. CASE n # 0
    BY <1>0, <1>2, <1>3, <1>5, <1>9, <2>2 DEF Contents, SlotSize, IsBundleInProgress
  <2>3. QED
    BY <2>1, <2>2
<1>11. OpenBundles = n
  BY <1>2, <1>1 DEF OpenBundles
<1>12. ASSUME NEW i \in 1..n
       PROVE  /\ OpenAt(Chain[i], ContentsEnd[i])'
              /\ Elements'[<<Contents(Chain'[i]) + 16, ContentsEnd'[i]>>]
                   = Elements[<<Contents(Chain[i]) + 16, ContentsEnd[i]>>]
  <2>1. PICK s, e : s = Chain[i] /\ e = ContentsEnd[i]
    OBVIOUS
  <2>2. OpenAt(s, e)
    BY <1>11, <2>1 DEF RInv, BundlesReadable
  <2>3. s \in Offsets /\ e \in Offsets /\ e <= messageCursor
        /\ (i < n => e = c[i + 1]) /\ (i = n => e = messageCursor)
    BY <1>1, <1>2, <2>1, ContentsEndOf
  <2>4. Chain'[i] = s
    BY <1>1, <1>7, <2>1
  <2>5. ContentsEnd'[i] = e
    <3>1. i < n + 1
      BY <1>2
    <3>2. ContentsEnd'[i] = Chain'[i + 1]
      BY <1>7, <3>1 DEF ContentsEnd
    <3>3. CASE i < n
      <4>1. i + 1 \in 1..n
        BY <1>2, <3>3
      <4>2. QED
        BY <1>7, <2>3, <3>2, <3>3, <4>1
    <3>4. CASE i = n
      <4>1. n # 0
        BY <1>2, <3>4
      <4>2. QED
        BY <1>3, <1>5, <1>7, <2>3, <3>2, <3>4, <4>1
    <3>5. QED
      BY <1>2, <3>3, <3>4
  <2>6. SameBetween(0, e)
    <3>1. n # 0
      BY <1>2
    <3>2. slots' = [slots EXCEPT ![messageCursor] = elementSizePtr] /\ SlotSize = 4
      BY <1>3, <3>1 DEF BeginElement, SlotSize, IsBundleInProgress
    <3>3. ASSUME NEW x \in Offsets
          PROVE /\ x < e => slots'[x] = slots[x]
                /\ x <= e => /\ headers'[x] = headers[x]
                             /\ tagStrings'[x] = tagStrings[x]
                             /\ blocks'[x] = blocks[x]
      <4>1. x \in Nat /\ e \in Nat
        BY <2>3, OffsetsAreAligned
      <4>2. x < e => x # messageCursor
        BY <1>0, <2>3, <4>1
      <4>3. x <= e => x # messageCursor + 4
        BY <1>0, <2>3, <4>1
      <4>4. QED
        BY <1>0, <3>2, <4>2, <4>3
    <3>4. QED
      BY <3>3 DEF SameBetween
  <2>7. OpenAt(s, e)' /\ Elements'[<<Contents(s) + 16, e>>] = Elements[<<Contents(s) + 16, e>>]
    BY <1>0, <2>2, <2>3, <2>6, OpenFrame
  <2>8. OpenAt(Chain[i], ContentsEnd[i])'
    BY <2>4, <2>5, <2>7 DEF OpenAt, Walk
  <2>9. QED
    BY <2>1, <2>4, <2>5, <2>7, <2>8
<1>13. QED
  BY <1>2, <1>4, <1>7, <1>8, <1>10, <1>11, <1>12

\* The two facts about the reader, in the next state.
LEMMA NextElements ==
  ASSUME TypeOK'
  PROVE  /\ \A p, e \in Offsets : Elements'[<<p, e>>] = ReadElements(Elements, p, e)'
         /\ \A p, q, e \in Offsets :
              Walk(p, q)' /\ q <= e => Elements'[<<p, e>>] = Elements'[<<p, q>>] \o Elements'[<<q, e>>]
<1>1. (TypeOK => \A p, end \in Offsets : Elements[<<p, end>>] = ReadElements(Elements, p, end))'
  BY ElementsEquation, PTL
<1>2. (TypeOK => \A p, q, end \in Offsets :
          Walk(p, q) /\ q <= end => Elements[<<p, end>>] = Elements[<<p, q>>] \o Elements[<<q, end>>])'
  BY ElementsSplit, PTL
<1>3. QED
  BY <1>1, <1>2

\* A finished element joins the elements of the bundle around it.
LEMMA Closing ==
  ASSUME PInv, PInv', RInv, elementSizePtr # Null, EndElement(messageCursor'),
         messageIsInProgress' = FALSE, argumentCurrent' = messageCursor',
         messageCursor' >= messageCursor,
         headers' = headers,
         \A x \in Offsets : x < messageCursor => tagStrings'[x] = tagStrings[x] /\ blocks'[x] = blocks[x]
  PROVE  \E n \in Nat :
         /\ n = Len(Chain) /\ n >= 1 /\ Len(Chain') = n - 1 /\ OpenBundles' = n - 1
         /\ elementSizePtr \in Offsets /\ messageCursor' \in Offsets
         /\ elementSizePtr + 4 <= messageCursor /\ elementSizePtr = Chain[n]
         /\ n = 1 => elementSizePtr = 0 /\ elementSizePtr' = Null /\ packet' = Finished'[elementSizePtr]
         /\ n # 1 => elementSizePtr # 0 /\ elementSizePtr' # Null
         /\ BundlesReadable'
         /\ \A i \in 1..(n - 2) : Elements'[<<Contents(Chain'[i]) + 16, ContentsEnd'[i]>>]
                                    = Elements[<<Contents(Chain[i]) + 16, ContentsEnd[i]>>]
         /\ n # 1 => Elements'[<<Contents(Chain'[n - 1]) + 16, ContentsEnd'[n - 1]>>]
                       = Append(Elements[<<Contents(Chain[n - 1]) + 16, ContentsEnd[n - 1]>>],
                                Finished'[elementSizePtr])
<1> PICK n, last, end : n = Len(Chain) /\ last = elementSizePtr /\ end = messageCursor'
  OBVIOUS
<1> PICK element : element = Finished'[last]
  OBVIOUS
<1>0. /\ TypeOK /\ TypeOK' /\ messageCursor \in Offsets /\ messageCursor \in Nat
      /\ end \in Offsets /\ end \in Nat /\ end <= Capacity /\ end % 4 = 0
      /\ slots \in [Offsets -> Nat]
      /\ 0 \in Offsets
  BY OffsetsAreAligned, Aligned DEF PInv, IInv, TypeOK
<1>1. PICK c : c = Chain
  OBVIOUS
<1>2. /\ c \in Seq(Offsets) /\ n \in Nat /\ n = Len(c)
      /\ last = IF n = 0 THEN Null ELSE c[n]
      /\ n > 0 => c[1] = 0
      /\ \A i \in 2..n : c[i] > 0
      /\ \A i, j \in 1..n : i < j => c[i] < c[j]
      /\ \A i \in 1..n : c[i] \in Offsets /\ c[i] + 4 <= messageCursor
  BY <1>1, ChainOrder
<1>3. /\ n >= 1 /\ Len(Chain') = n - 1
      /\ \A i \in 1..(n - 1) : Chain'[i] = c[i]
      /\ elementSizePtr' = Null <=> n = 1
  BY <1>1, ChainPopped DEF PInv
<1>4. last = c[n] /\ last \in Offsets /\ last + 4 <= messageCursor /\ last \in Nat /\ last % 4 = 0
  <2>1. n \in 1..n
    BY <1>2, <1>3
  <2>2. QED
    BY <1>2, <1>3, <2>1, OffsetsAreAligned
<1> element = ReadElement(Elements, Contents(last), end)'
  BY <1>4 DEF Finished, ReadElement, ReadMessage
<1>5. last < messageCursor /\ last < end /\ end >= 4
  BY <1>0, <1>4
<1>6. OpenBundles' = n - 1 /\ (\A i \in 1..(n - 1) : OpenAt(c[i], ContentsEnd[i]))
  <2>1. OpenBundles' = n - 1
    BY <1>2, <1>3 DEF OpenBundles
  <2>2. OpenBundles = n \/ OpenBundles = n - 1
    BY <1>1, <1>2 DEF OpenBundles
  <2>3. \A i \in 1..(n - 1) : i \in 1..OpenBundles
    BY <1>2, <2>2
  <2>4. QED
    BY <1>1, <2>1, <2>3 DEF RInv, BundlesReadable
<1>7. n = 1 => last = 0 /\ elementSizePtr' = Null /\ packet' = element
  <2> SUFFICES ASSUME n = 1 PROVE last = 0 /\ elementSizePtr' = Null /\ packet' = element
    OBVIOUS
  <2>1. last = 0 /\ elementSizePtr' = Null
    BY <1>2, <1>3, <1>4
  <2>2. Contents(last) = 0
    BY <2>1 DEF Contents
  <2>3. Size' = end
    BY <1>0 DEF Size
  <2>4. IsReady' /\ Size' # 0
    BY <1>5, <1>0, <2>1, <2>3 DEF IsReady, IsBundleInProgress
  <2>5. packet' = ReadElement(Elements, 0, Size)'
    BY <2>4 DEF packet
  <2>6. packet' = element
    BY <2>2, <2>3, <2>5 DEF ReadElement, ReadMessage
  <2>7. QED
    BY <2>1, <2>6
<1>8. \A x \in Offsets : x # last => slots'[x] = slots[x]
  BY <1>0 DEF EndElement
<1>9. ASSUME NEW i \in 1..(n - 1)
      PROVE  /\ c[i] \in Offsets /\ ContentsEnd[i] = c[i + 1] /\ c[i + 1] \in Offsets
             /\ c[i + 1] <= last
             /\ OpenAt(c[i], c[i + 1])'
             /\ Contents(c[i]) + 16 \in Offsets
             /\ Elements'[<<Contents(c[i]) + 16, c[i + 1]>>] = Elements[<<Contents(c[i]) + 16, c[i + 1]>>]
  <2>1. i \in 1..n /\ i + 1 \in 1..n /\ i < n /\ n \in 1..n
    BY <1>2, <1>3
  <2>2. c[i] \in Offsets /\ ContentsEnd[i] = c[i + 1] /\ c[i + 1] \in Offsets
    BY <1>1, <1>2, <2>1, ContentsEndOf
  <2>3. c[i + 1] <= last
    <3>1. CASE i + 1 = n
      BY <1>4, <3>1
    <3>2. CASE i + 1 # n
      <4>1. i + 1 < n
        BY <1>2, <2>1, <3>2
      <4>2. c[i + 1] < c[n]
        BY <1>2, <2>1, <4>1
      <4>3. QED
        <5>1. c[i + 1] \in Nat /\ c[i + 1] < last
          BY <1>4, <2>2, <4>2, OffsetsAreAligned
        <5>2. QED
          BY <1>4, <5>1
    <3>3. QED
      BY <3>1, <3>2
  <2>4. PICK s, e : s = c[i] /\ e = c[i + 1]
    OBVIOUS
  <2>5. s \in Offsets /\ e \in Offsets /\ e <= last /\ e \in Nat /\ OpenAt(s, e)
    BY <1>6, <2>2, <2>3, <2>4, OffsetsAreAligned
  <2>6. SameBetween(0, e)
    <3>1. ASSUME NEW x \in Offsets
          PROVE /\ x < e => slots'[x] = slots[x]
                /\ x <= e => /\ headers'[x] = headers[x]
                             /\ tagStrings'[x] = tagStrings[x]
                             /\ blocks'[x] = blocks[x]
      <4>1. x \in Nat
        BY OffsetsAreAligned
      <4>2. x < e => x # last
        BY <1>4, <2>5, <4>1
      <4>3. x <= e => x < messageCursor
        BY <1>0, <1>4, <1>5, <2>5, <4>1
      <4>4. QED
        BY <1>8, <4>2, <4>3
    <3>2. QED
      BY <3>1 DEF SameBetween
  <2>7. OpenAt(s, e)' /\ Contents(s) + 16 \in Offsets
        /\ Elements'[<<Contents(s) + 16, e>>] = Elements[<<Contents(s) + 16, e>>]
    BY <1>0, <2>5, <2>6, OpenFrame
  <2>8. QED
    BY <2>2, <2>3, <2>4, <2>7 DEF OpenAt, Walk
<1>10. ASSUME NEW i \in 1..(n - 2)
       PROVE  /\ OpenAt(Chain[i], ContentsEnd[i])'
              /\ Elements'[<<Contents(Chain'[i]) + 16, ContentsEnd'[i]>>]
                   = Elements[<<Contents(Chain[i]) + 16, ContentsEnd[i]>>]
  <2>1. i \in 1..(n - 1) /\ i + 1 \in 1..(n - 1) /\ i < n - 1
    BY <1>2
  <2>2. Chain'[i] = c[i] /\ ContentsEnd'[i] = c[i + 1]
    BY <1>3, <2>1 DEF ContentsEnd
  <2>3. /\ ContentsEnd[i] = c[i + 1] /\ OpenAt(c[i], c[i + 1])'
        /\ Elements'[<<Contents(c[i]) + 16, c[i + 1]>>] = Elements[<<Contents(c[i]) + 16, c[i + 1]>>]
    BY <1>9, <2>1 DEF OpenAt, Walk
  <2>4. OpenAt(Chain[i], ContentsEnd[i])'
    BY <2>2, <2>3 DEF OpenAt, Walk
  <2>5. QED
    BY <1>1, <2>2, <2>3, <2>4
<1>11. ASSUME n # 1
       PROVE  /\ last # 0
              /\ OpenAt(Chain[n - 1], ContentsEnd[n - 1])'
              /\ Elements'[<<Contents(Chain'[n - 1]) + 16, ContentsEnd'[n - 1]>>]
                   = Append(Elements[<<Contents(Chain[n - 1]) + 16, ContentsEnd[n - 1]>>], element)
  <2>1. n - 1 \in 1..(n - 1) /\ n \in 2..n /\ (n - 1) + 1 = n
    BY <1>2, <1>3, <1>11
  <2>2. last # 0
    <3>1. c[n] > 0
      BY <1>2, <2>1
    <3>2. QED
      BY <1>4, <3>1
  <2>3. PICK s, start : s = c[n - 1] /\ start = Contents(s) + 16
    OBVIOUS
  <2>4. /\ s \in Offsets /\ start \in Offsets /\ OpenAt(s, last)'
        /\ Elements'[<<start, last>>] = Elements[<<start, last>>]
        /\ ContentsEnd[n - 1] = last
    <3>1. /\ c[n - 1] \in Offsets /\ ContentsEnd[n - 1] = c[n]
          /\ OpenAt(c[n - 1], c[n])'
          /\ Contents(c[n - 1]) + 16 \in Offsets
          /\ Elements'[<<Contents(c[n - 1]) + 16, c[n]>>] = Elements[<<Contents(c[n - 1]) + 16, c[n]>>]
      BY <1>9, <2>1 DEF OpenAt, Walk
    <3>2. QED
      BY <1>4, <2>3, <3>1 DEF OpenAt, Walk
  <2>5. Chain'[n - 1] = s /\ ContentsEnd'[n - 1] = end
    BY <1>3, <2>1, <2>3 DEF ContentsEnd
  <2>6. slots'[last] = end - last - 4
    <3>1. slots' = [slots EXCEPT ![last] = end - last - 4]
      BY <2>2 DEF EndElement
    <3>2. QED
      BY <1>0, <1>4, <3>1
  <2>7. slots'[last] \in Nat /\ slots'[last] % 4 = 0 /\ last + 4 + slots'[last] = end
        /\ last + 4 <= end
    <3>1. last + 4 <= end
      BY <1>0, <1>4
    <3>2. PICK k \in Nat : k = slots'[last]
      BY <1>0, <1>4, <2>6, <3>1
    <3>3. k = end - last - 4
      BY <2>6, <3>2
    <3>4. k % 4 = 0 /\ last + 4 + k = end
      <4>1. ASSUME NEW u \in Nat, NEW v \in Nat, u % 4 = 0, v % 4 = 0, NEW w \in Nat, w = u - v - 4
            PROVE  w % 4 = 0 /\ v + 4 + w = u
        BY <4>1
      <4>2. QED
        BY <1>0, <1>4, <3>3, <4>1
    <3>5. QED
      BY <3>1, <3>2, <3>4
  <2>8. PICK B \in SUBSET Offsets :
          /\ start \in B
          /\ \A x \in B : x <= last /\ (x = last \/ (slots'[x] % 4 = 0 /\ x + 4 + slots'[x] \in B))
    BY <2>3, <2>4 DEF OpenAt, Walk
  <2>9. Walk(start, last)' /\ start <= last
    BY <2>8 DEF Walk
  <2>10. Walk(start, end)'
    <3>1. PICK C : C = B \cup {end}
      OBVIOUS
    <3>2. C \in SUBSET Offsets /\ start \in C
      BY <1>0, <2>8, <3>1
    <3>3. ASSUME NEW x \in C
          PROVE  x <= end /\ (x = end \/ (slots'[x] % 4 = 0 /\ x + 4 + slots'[x] \in C))
      <4>1. CASE x = end
        BY <1>0, <4>1
      <4>2. CASE x # end
        <5>1. x \in B
          BY <3>1, <4>2
        <5>2. x \in Nat /\ x <= last
          BY <2>8, <5>1, OffsetsAreAligned
        <5>3. x <= end
          BY <1>0, <1>4, <1>5, <5>2
        <5>4. CASE x = last
          BY <2>7, <3>1, <5>3, <5>4
        <5>5. CASE x # last
          BY <2>8, <3>1, <5>1, <5>3, <5>5
        <5>6. QED
          BY <5>4, <5>5
      <4>3. QED
        BY <4>1, <4>2
    <3>4. QED
      BY <3>2, <3>3 DEF Walk
  <2>11. headers'[Contents(s)] = "#bundle"
    BY <2>4 DEF OpenAt
  <2>12. start <= end
    <3>1. start \in Nat
      BY <2>4, OffsetsAreAligned
    <3>2. QED
      BY <1>0, <1>4, <1>5, <2>9, <3>1
  <2>13. OpenAt(Chain[n - 1], ContentsEnd[n - 1])'
    BY <2>3, <2>5, <2>10, <2>11, <2>12 DEF OpenAt, Walk
  <2>14. Elements'[<<start, end>>] = Elements'[<<start, last>>] \o Elements'[<<last, end>>]
    <3>2. last <= end
      BY <1>0, <1>4, <1>5
    <3>3. QED
      BY <1>0, <1>4, <2>4, <2>9, <3>2, NextElements
  <2>15. \A p, e \in Offsets : Elements'[<<p, e>>] = ReadElements(Elements, p, e)'
    BY <1>0, NextElements
  <2>16. Elements'[<<last, end>>] = <<element>>
    <3>1. Elements'[<<end, end>>] = <<>>
      <4>1. end >= end
        BY <1>0
      <4>2. Elements'[<<end, end>>] = ReadElements(Elements, end, end)'
        BY <1>0, <2>15
      <4>3. QED
        BY <4>1, <4>2 DEF ReadElements
    <3>2. Contents(last) = last + 4
      BY <2>2 DEF Contents
    <3>3. element = ReadElement(Elements, last + 4, end)'
      BY <3>2 DEF ReadElement, ReadMessage
    <3>4. Elements'[<<last, end>>] = ReadElements(Elements, last, end)'
      BY <1>0, <1>4, <2>15
    <3>5. ~ (last >= end) /\ ~ (end > end)
      BY <1>0, <1>4, <1>5
    <3>6. Elements'[<<last, end>>] = <<ReadElement(Elements, last + 4, end)'>> \o Elements'[<<end, end>>]
      BY <2>7, <3>4, <3>5 DEF ReadElements, ReadElement, ReadMessage
    <3>7. <<element>> \o <<>> = <<element>>
      <4>1. <<element>> \in Seq({element})
        OBVIOUS
      <4>2. QED
        BY <4>1, ConcatEmptySeq
    <3>8. QED
      BY <3>1, <3>3, <3>6, <3>7
  <2>17. Elements[<<start, last>>] \o <<element>> = Append(Elements[<<start, last>>], element)
    <3>1. PICK T : \A p, e \in Offsets : Elements[<<p, e>>] \in Seq(T)
      BY <1>0, ElementsAreSequences
    <3>2. PICK f : f = Elements[<<start, last>>]
      OBVIOUS
    <3>3. f \in Seq(T)
      BY <1>4, <2>4, <3>1, <3>2
    <3>4. f \in Seq(T \cup {element}) /\ element \in T \cup {element}
      BY <3>3, SeqMonotonic, T \subseteq T \cup {element}
    <3>5. Append(f, element) = f \o <<element>>
      BY <3>4, AppendIsConcat
    <3>6. QED
      BY <3>2, <3>5
  <2>18. QED
    BY <1>1, <2>2, <2>3, <2>4, <2>5, <2>13, <2>14, <2>16, <2>17
<1>12. \A i \in 1..(n - 1) : OpenAt(Chain[i], ContentsEnd[i])'
  <2>1. ASSUME NEW i \in 1..(n - 1) PROVE OpenAt(Chain[i], ContentsEnd[i])'
    <3>1. CASE i = n - 1
      <4>1. n # 1
        BY <1>2, <3>1
      <4>2. QED
        BY <1>11, <3>1, <4>1 DEF OpenAt, Walk
    <3>2. CASE i # n - 1
      <4>1. i \in 1..(n - 2)
        BY <1>2, <3>2
      <4>2. QED
        BY <1>10, <4>1
    <3>3. QED
      BY <3>1, <3>2
  <2>2. QED
    BY <2>1
<1>13. BundlesReadable'
  BY <1>6, <1>12 DEF BundlesReadable
<1>14. QED
  BY <1>0, <1>1, <1>2, <1>3, <1>4, <1>6, <1>7, <1>10, <1>11, <1>13

-----------------------------------------------------------------------------
(* The open bundles.                                                       *)

\* The elements of the open bundles, as a sequence.
LEMMA OpenIs ==
  ASSUME PInv
  PROVE  /\ OpenBundles \in Nat /\ Len(open) = OpenBundles
         /\ OpenBundles <= Len(Chain)
         /\ \A i \in 1..OpenBundles : open[i] = Elements[<<Contents(Chain[i]) + 16, ContentsEnd[i]>>]
         /\ \E T : open \in Seq(T)
<1>1. Len(Chain) \in Nat
  BY ChainOrder
<1>2. messageIsInProgress => Len(Chain) >= 1
  <2>1. messageIsInProgress => elementSizePtr # Null
    BY DEF PInv, IInv, CursorsInOrder
  <2>2. Len(Chain) = 0 => elementSizePtr = Null
    BY ChainOrder
  <2>3. QED
    BY <1>1, <2>1, <2>2
<1>3. OpenBundles \in Nat /\ OpenBundles <= Len(Chain)
  BY <1>1, <1>2 DEF OpenBundles
<1>4. PICK n \in Nat : n = OpenBundles
  BY <1>3
<1>5. open = [i \in 1..n |-> Elements[<<Contents(Chain[i]) + 16, ContentsEnd[i]>>]]
  BY <1>4 DEF open
<1>6. PICK T : T = {open[i] : i \in 1..n}
  OBVIOUS
<1>7. \A i \in 1..n : open[i] \in T /\ open[i] = Elements[<<Contents(Chain[i]) + 16, ContentsEnd[i]>>]
  BY <1>5, <1>6
<1>8. open \in [1..n -> T]
  <2>1. open = [i \in 1..n |-> open[i]]
    BY <1>5
  <2>2. PICK f : f = open
    OBVIOUS
  <2>3. f = [i \in 1..n |-> f[i]] /\ \A i \in 1..n : f[i] \in T
    BY <1>7, <2>1, <2>2
  <2>4. f \in [1..n -> T]
    BY <2>3
  <2>5. QED
    BY <2>2, <2>4
<1>9. open \in Seq(T) /\ Len(open) = n
  <2>1. PICK f : f = open
    OBVIOUS
  <2>2. f \in [1..n -> T]
    BY <1>8, <2>1
  <2>3. f \in Seq(T) /\ Len(f) = n
    BY <2>2, SeqDef, LenProperties
  <2>4. QED
    BY <2>1, <2>3
<1>10. QED
  BY <1>3, <1>4, <1>7, <1>9

\* Sequences of the same length with the same elements.
LEMMA SameElements ==
  ASSUME NEW S, NEW T, NEW s \in Seq(S), NEW t \in Seq(T), Len(s) = Len(t),
         \A i \in 1..Len(s) : s[i] = t[i]
  PROVE  s = t
<1>1. s \in Seq(S \cup T) /\ t \in Seq(S \cup T)
  BY SeqMonotonic, S \subseteq S \cup T, T \subseteq S \cup T
<1>2. QED
  BY <1>1, SeqEqual

\* The open bundles after one of them got an element.
LEMMA Delivered ==
  ASSUME NEW S, NEW T, NEW s \in Seq(S), NEW t \in Seq(T), NEW element, Len(s) = Len(t),
         \A i \in 1..(Len(s) - 1) : t[i] = s[i],
         Len(s) # 0 => t[Len(s)] = Append(s[Len(s)], element)
  PROVE  t = IF Len(s) = 0 THEN s ELSE [s EXCEPT ![Len(s)] = Append(@, element)]
<1>1. PICK n \in Nat : n = Len(s)
  OBVIOUS
<1>2. CASE n = 0
  <2>1. s = t
    <3>1. \A i \in 1..Len(s) : s[i] = t[i]
      BY <1>1, <1>2
    <3>2. QED
      BY <3>1, SameElements
  <2>2. QED
    BY <1>1, <1>2, <2>1
<1>3. CASE n # 0
  <2>1. PICK last : last = Append(s[n], element)
    OBVIOUS
  <2>2. PICK U : U = (S \cup T) \cup {last}
    OBVIOUS
  <2>3. s \in Seq(U) /\ t \in Seq(U) /\ last \in U
    <3>1. S \subseteq U /\ T \subseteq U /\ last \in U
      BY <2>2
    <3>2. QED
      BY <3>1, SeqMonotonic
  <2>4. PICK u : u = [s EXCEPT ![n] = last]
    OBVIOUS
  <2>5. n \in 1..Len(s)
    BY <1>1, <1>3
  <2>6. u \in Seq(U) /\ Len(u) = Len(s) /\ \A j \in 1..Len(s) : u[j] = IF j = n THEN last ELSE s[j]
    BY <2>3, <2>4, <2>5, ExceptSeq
  <2>7. \A j \in 1..n : t[j] = u[j]
    <3>1. ASSUME NEW j \in 1..n PROVE t[j] = u[j]
      <4>1. CASE j = n
        BY <1>1, <1>3, <2>1, <2>6, <4>1
      <4>2. CASE j # n
        <5>1. j \in 1..(n - 1)
          BY <4>2
        <5>2. QED
          BY <1>1, <2>6, <4>2, <5>1
      <4>3. QED
        BY <4>1, <4>2
    <3>2. QED
      BY <3>1
  <2>8. t = u
    BY <1>1, <2>3, <2>6, <2>7, SeqEqual
  <2>9. QED
    BY <1>1, <1>3, <2>1, <2>4, <2>8
<1>4. QED
  BY <1>2, <1>3

\* The bundles that were open before a step and stay open.
LEMMA OpenPrimed ==
  ASSUME PInv'
  PROVE  /\ OpenBundles' \in Nat /\ Len(open') = OpenBundles'
         /\ \A i \in 1..OpenBundles' : open'[i] = Elements'[<<Contents(Chain'[i]) + 16, ContentsEnd'[i]>>]
         /\ \E T : open' \in Seq(T)
<1>1. (PInv => /\ OpenBundles \in Nat /\ Len(open) = OpenBundles
               /\ OpenBundles <= Len(Chain)
               /\ \A i \in 1..OpenBundles : open[i] = Elements[<<Contents(Chain[i]) + 16, ContentsEnd[i]>>]
               /\ \E T : open \in Seq(T))'
  BY OpenIs, PTL
<1>2. QED
  BY <1>1

\* A step that touches neither the memory nor the stack leaves the open bundles.
LEMMA MemoryUnchanged ==
  ASSUME PInv, PInv', RInv, UNCHANGED <<memory, messageCursor, elementSizePtr, messageIsInProgress>>
  PROVE  Chain' = Chain /\ BundlesReadable' /\ open' = open
<1>0. /\ TypeOK /\ TypeOK' /\ UNCHANGED <<slots, headers, tagStrings, blocks>>
      /\ UNCHANGED <<messageCursor, elementSizePtr, messageIsInProgress>>
      /\ ~astray /\ ~astray'
  BY DEF PInv, IInv, PointerStaysInBuffer, memory
<1>1. Chain' = Chain
  <2>1. \A p \in Offsets : Path'[p] = Path[p]
    <3>1. PICK m : m = Capacity + 1
      OBVIOUS
    <3>2. m \in Int /\ \A x \in Offsets : x < m => slots'[x] = slots[x]
      BY <1>0, <3>1
    <3>3. \A p \in Offsets : p < m
      BY <3>1, OffsetsAreAligned
    <3>4. QED
      BY <3>2, <3>3, PathFrame
  <2>2. elementSizePtr = Null \/ elementSizePtr \in Offsets
    BY <1>0 DEF TypeOK
  <2>3. QED
    BY <1>0, <2>1, <2>2 DEF Chain
<1>2. OpenBundles' = OpenBundles
  BY <1>0, <1>1 DEF OpenBundles
<1>3. \A i \in 1..OpenBundles : ContentsEnd'[i] = ContentsEnd[i]
  BY <1>0, <1>1 DEF ContentsEnd
<1>4. ASSUME NEW i \in 1..OpenBundles
      PROVE  OpenAt(Chain[i], ContentsEnd[i])' /\ open'[i] = open[i]
  <2>1. PICK s, e : s = Chain[i] /\ e = ContentsEnd[i]
    OBVIOUS
  <2>2. i \in 1..Len(Chain)
    BY OpenIs, ChainOrder
  <2>3. OpenAt(s, e) /\ s \in Offsets /\ e \in Offsets
    BY <2>1, <2>2, ChainOrder, ContentsEndOf DEF RInv, BundlesReadable
  <2>4. SameBetween(0, e)
    BY <1>0 DEF SameBetween
  <2>5. OpenAt(s, e)' /\ Elements'[<<Contents(s) + 16, e>>] = Elements[<<Contents(s) + 16, e>>]
    BY <1>0, <2>3, <2>4, OpenFrame
  <2>6. OpenAt(Chain[i], ContentsEnd[i])'
    BY <1>1, <1>3, <2>1, <2>5 DEF OpenAt, Walk
  <2>7. open[i] = Elements[<<Contents(s) + 16, e>>]
    BY <2>1, OpenIs
  <2>8. open'[i] = Elements'[<<Contents(s) + 16, e>>]
    BY <1>1, <1>2, <1>3, <2>1, OpenPrimed
  <2>9. QED
    BY <2>5, <2>6, <2>7, <2>8
<1>5. BundlesReadable'
  BY <1>2, <1>4 DEF BundlesReadable
<1>6. open' = open
  <2>1. PICK f, g, n : f = open /\ g = open' /\ n = OpenBundles
    OBVIOUS
  <2>2. Len(f) = n /\ Len(g) = n /\ \A i \in 1..n : g[i] = f[i]
    BY <1>2, <1>4, <2>1, OpenIs, OpenPrimed
  <2>3. PICK T : f \in Seq(T)
    BY <2>1, OpenIs
  <2>4. PICK U : g \in Seq(U)
    BY <2>1, OpenPrimed
  <2>5. g = f
    BY <2>2, <2>3, <2>4, SameElements
  <2>6. QED
    BY <2>1, <2>5
<1>7. QED
  BY <1>1, <1>5, <1>6

-----------------------------------------------------------------------------
(* Every call implements the call on the packet.                           *)

\* The tags in the order of the arguments.
LEMMA InsertionOrderIs ==
  ASSUME TypeOK
  PROVE  /\ InsertionOrder \in Seq(TypeTags) /\ Len(InsertionOrder) = Len(typeTags)
         /\ Len(typeTags) \in Nat
         /\ \A i \in 1..Len(typeTags) : InsertionOrder[i] = typeTags[Len(typeTags) + 1 - i]
<1> HIDE DEF TypeTags
<1>1. typeTags \in Seq(TypeTags) /\ Len(typeTags) \in Nat
  BY DEF TypeOK
<1>2. \A i \in 1..Len(typeTags) : typeTags[Len(typeTags) + 1 - i] \in TypeTags
  <2>1. ASSUME NEW i \in 1..Len(typeTags)
        PROVE  typeTags[Len(typeTags) + 1 - i] \in TypeTags
    <3>1. Len(typeTags) + 1 - i \in 1..Len(typeTags)
      BY <1>1
    <3>2. QED
      BY <1>1, <3>1
  <2>2. QED
    BY <2>1
<1>3. PICK n \in Nat : n = Len(typeTags)
  BY <1>1
<1>4. InsertionOrder \in [1..n -> TypeTags]
  BY <1>2, <1>3 DEF InsertionOrder
<1>5. InsertionOrder \in Seq(TypeTags) /\ Len(InsertionOrder) = n
  <2>1. PICK f : f = InsertionOrder
    OBVIOUS
  <2>2. f \in [1..n -> TypeTags]
    BY <1>4, <2>1
  <2>3. f \in Seq(TypeTags) /\ Len(f) = n
    BY <2>2, SeqDef, LenProperties
  <2>4. QED
    BY <2>1, <2>3
<1>6. QED
  BY <1>1, <1>3, <1>5 DEF InsertionOrder

\* The new tag is the last one.
LEMMA InsertionOrderGrows ==
  ASSUME TypeOK, TypeOK', NEW tag \in TypeTags, typeTags' = <<tag>> \o typeTags
  PROVE  InsertionOrder' = Append(InsertionOrder, tag)
<1> HIDE DEF TypeTags
<1>1. PICK n \in Nat : n = Len(typeTags)
  BY InsertionOrderIs
<1>2. typeTags \in Seq(TypeTags) /\ <<tag>> \in Seq(TypeTags) /\ Len(<<tag>>) = 1 /\ <<tag>>[1] = tag
  BY DEF TypeOK
<1>3. Len(typeTags') = n + 1 /\ \A i \in 1..(n + 1) : typeTags'[i] = IF i = 1 THEN tag ELSE typeTags[i - 1]
  <2>1. /\ Len(<<tag>> \o typeTags) = Len(<<tag>>) + Len(typeTags)
        /\ \A i \in 1..(Len(<<tag>>) + Len(typeTags)) :
             (<<tag>> \o typeTags)[i] = IF i <= Len(<<tag>>) THEN <<tag>>[i] ELSE typeTags[i - Len(<<tag>>)]
    BY <1>2, ConcatProperties
  <2>2. Len(typeTags') = n + 1
    BY <1>1, <1>2, <2>1
  <2>3. ASSUME NEW i \in 1..(n + 1) PROVE typeTags'[i] = IF i = 1 THEN tag ELSE typeTags[i - 1]
    <3>1. i \in 1..(Len(<<tag>>) + Len(typeTags)) /\ (i <= Len(<<tag>>) <=> i = 1)
      BY <1>1, <1>2
    <3>2. QED
      BY <1>2, <2>1, <3>1
  <2>4. QED
    BY <2>2, <2>3
<1>4. PICK old : old = InsertionOrder
  OBVIOUS
<1>5. old \in Seq(TypeTags) /\ Len(old) = n /\ \A i \in 1..n : old[i] = typeTags[n + 1 - i]
  BY <1>1, <1>4, InsertionOrderIs
<1>6. (TypeOK =>  /\ InsertionOrder \in Seq(TypeTags) /\ Len(InsertionOrder) = Len(typeTags)
         /\ Len(typeTags) \in Nat
         /\ \A i \in 1..Len(typeTags) : InsertionOrder[i] = typeTags[Len(typeTags) + 1 - i])'
  BY InsertionOrderIs, PTL
<1>7. PICK new : new = InsertionOrder'
  OBVIOUS
<1>8. new \in Seq(TypeTags) /\ Len(new) = n + 1 /\ \A i \in 1..(n + 1) : new[i] = typeTags'[n + 2 - i]
  <2>1. new \in Seq(TypeTags) /\ Len(new) = n + 1
        /\ \A i \in 1..(n + 1) : new[i] = typeTags'[(n + 1) + 1 - i]
    BY <1>3, <1>6, <1>7
  <2>2. \A i \in 1..(n + 1) : (n + 1) + 1 - i = n + 2 - i
    OBVIOUS
  <2>3. QED
    BY <2>1, <2>2
<1>9. \A i \in 1..n : new[i] = old[i]
  <2>1. ASSUME NEW i \in 1..n PROVE new[i] = old[i]
    <3>1. i \in 1..(n + 1) /\ n + 2 - i \in 1..(n + 1) /\ n + 2 - i # 1 /\ (n + 2 - i) - 1 = n + 1 - i
      OBVIOUS
    <3>2. new[i] = typeTags'[n + 2 - i]
      BY <1>8, <3>1
    <3>3. typeTags'[n + 2 - i] = typeTags[n + 1 - i]
      BY <1>3, <3>1
    <3>4. QED
      BY <1>5, <3>2, <3>3
  <2>2. QED
    BY <2>1
<1>10. new[n + 1] = tag
  <2>1. n + 1 \in 1..(n + 1) /\ n + 2 - (n + 1) = 1 /\ 1 \in 1..(n + 1)
    OBVIOUS
  <2>2. QED
    BY <1>3, <1>8, <2>1
<1>11. PICK more : more = Append(old, tag)
  OBVIOUS
<1>12. more \in Seq(TypeTags) /\ Len(more) = n + 1 /\ more[n + 1] = tag /\ \A i \in 1..n : more[i] = old[i]
  BY <1>5, <1>11
<1>13. \A i \in 1..(n + 1) : new[i] = more[i]
  <2>1. ASSUME NEW i \in 1..(n + 1) PROVE new[i] = more[i]
    <3>1. i = n + 1 \/ i \in 1..n
      OBVIOUS
    <3>2. QED
      BY <1>9, <1>10, <1>12, <3>1
  <2>2. QED
    BY <2>1
<1>14. new = more
  BY <1>8, <1>12, <1>13, SeqEqual
<1>15. QED
  BY <1>4, <1>7, <1>11, <1>14

\* A message without arguments.
LEMMA EmptyMessage ==
  /\ Stored(<<>>, 0) = 0
  /\ ReadArguments(<<>>, <<>>) = <<>>
<1>1. Stored(<<>>, 0) = 0
  <2>1. {j \in 1..0 : <<>>[j] \notin ZeroTags} = {}
    OBVIOUS
  <2>2. QED
    BY <2>1, FS_EmptySet DEF Stored
<1>2. ReadArguments(<<>>, <<>>) = <<>>
  BY DEF ReadArguments
<1>3. QED
  BY <1>1, <1>2

\* A new stream is empty.
LEMMA InitReads == Init => RInv /\ OscPacket!Init
<1> SUFFICES ASSUME Init PROVE RInv /\ OscPacket!Init
  OBVIOUS
<1>1. PInv
  BY InitInv DEF PInv, Init, PointerStaysInBuffer
<1>2. Chain = <<>> /\ OpenBundles = 0
  BY DEF Init, Chain, OpenBundles
<1>3. RInv
  BY <1>2 DEF Init, RInv, BundlesReadable, MessageReadable, NothingPending
<1>4. open = <<>>
  BY <1>2 DEF open
<1>5. message = [kind |-> "none"] /\ packet = [kind |-> "none"]
  BY DEF Init, message, packet, Size, IsReady, IsBundleInProgress
<1>6. QED
  BY <1>3, <1>4, <1>5 DEF OscPacket!Init, OscPacket!None

\* Clear starts again.
LEMMA ClearReads ==
  ASSUME Clear
  PROVE  RInv' /\ OscPacket!Clear
<1>1. Chain' = <<>> /\ OpenBundles' = 0
  BY DEF Clear, Chain, OpenBundles
<1>2. RInv'
  BY <1>1 DEF Clear, RInv, BundlesReadable, MessageReadable, NothingPending
<1>3. open' = <<>>
  BY <1>1 DEF open
<1>4. message' = [kind |-> "none"] /\ packet' = [kind |-> "none"]
  BY DEF Clear, message, packet, Size, IsReady, IsBundleInProgress
<1>5. QED
  BY <1>2, <1>3, <1>4 DEF OscPacket!Clear, OscPacket!None

\* Nothing else reads the memory.
LEMMA StutterReads ==
  ASSUME PInv, PInv', RInv, UNCHANGED vars
  PROVE  RInv' /\ UNCHANGED OscPacket!vars
<1>1. /\ UNCHANGED <<memory, messageCursor, elementSizePtr, messageIsInProgress>>
      /\ UNCHANGED <<typeTags, argumentCurrent, block>>
  BY DEF vars, cursors, pointer
<1>2. BundlesReadable' /\ open' = open
  BY <1>1, MemoryUnchanged
<1>3. UNCHANGED <<slots, headers, tagStrings, blocks>>
  BY <1>1 DEF memory
<1>4. MessageReadable' /\ NothingPending' /\ message' = message
  BY <1>1, <1>3 DEF RInv, MessageReadable, NothingPending, InsertionOrder, message
<1>5. packet' = packet
  <2>1. IsReady' = IsReady /\ Size' = Size
    BY <1>1 DEF IsReady, IsBundleInProgress, Size
  <2>2. CASE ~IsReady \/ Size = 0
    BY <2>1, <2>2 DEF packet
  <2>3. CASE ~(~IsReady \/ Size = 0)
    <3>1. PICK n : n = Size
      OBVIOUS
    <3>2. n \in Offsets /\ n \in Nat /\ n <= Capacity /\ 0 \in Offsets /\ ~messageIsInProgress
      <4>1. argumentCurrent \in Offsets /\ ~messageIsInProgress
        BY <2>3 DEF PInv, IInv, TypeOK, IsReady
      <4>2. argumentCurrent \in Nat
        BY <4>1, OffsetsAreAligned
      <4>3. Size = argumentCurrent
        BY <4>1, <4>2 DEF Size
      <4>4. QED
        BY <3>1, <4>1, <4>3, OffsetsAreAligned, Aligned
    <3>3. ReadElement(Elements, 0, n)' = ReadElement(Elements, 0, n)
      <4>1. SameBetween(0, n) /\ TypeOK /\ TypeOK'
        BY <1>3 DEF SameBetween, PInv, IInv
      <4>2. headers'[0] = headers[0]
        BY <1>3
      <4>3. CASE headers[0] # "#bundle"
        <5>1. ReadMessage(0, n)' = ReadMessage(0, n)
          <6>1. 0 <= 0 /\ n <= n /\ 0 <= n
            BY <3>2
          <6>2. QED
            BY <3>2, <4>1, <6>1, MessageFrame
        <5>2. QED
          BY <4>2, <4>3, <5>1 DEF ReadElement
      <4>4. CASE headers[0] = "#bundle" /\ 0 + 16 > n
        BY <4>2, <4>4 DEF ReadElement
      <4>5. CASE headers[0] = "#bundle" /\ ~ (0 + 16 > n)
        <5>1. 0 + 16 \in Offsets
          <6>1. 0 + 16 <= Capacity /\ 16 \in Nat /\ 16 % 4 = 0
            BY <3>2, <4>5
          <6>2. QED
            BY <3>2, <6>1, Aligned
        <5>2. Elements'[<<0 + 16, n>>] = Elements[<<0 + 16, n>>]
          <6>1. 0 <= 0 + 16 /\ n <= n
            BY <3>2
          <6>2. QED
            BY <3>2, <4>1, <5>1, <6>1, ElementsFrame
        <5>3. QED
          BY <4>2, <4>5, <5>2 DEF ReadElement
      <4>6. QED
        BY <4>3, <4>4, <4>5
    <3>4. packet = ReadElement(Elements, 0, n) /\ packet' = ReadElement(Elements, 0, n)'
      BY <2>1, <2>3, <3>1 DEF packet, ReadElement, ReadMessage
    <3>5. QED
      BY <3>3, <3>4
  <2>4. QED
    BY <2>2, <2>3
<1>6. QED
  BY <1>2, <1>4, <1>5 DEF RInv, OscPacket!vars

\* While an element is open there is no packet yet.
LEMMA NoPacket ==
  ASSUME PInv, RInv, elementSizePtr # Null \/ messageIsInProgress \/ messageCursor = 0
  PROVE  packet = [kind |-> "none"]
<1>1. messageCursor = 0 /\ ~messageIsInProgress => Size = 0
  BY DEF RInv, NothingPending, Size
<1>2. elementSizePtr # Null \/ messageIsInProgress => ~IsReady
  BY DEF IsReady, IsBundleInProgress
<1>3. QED
  BY <1>1, <1>2 DEF packet

\* operator<<(BundleInitiator) opens an empty bundle.
LEMMA BeginBundleReads ==
  ASSUME OnePacket, PInv, PInv', RInv, BeginBundle
  PROVE  RInv' /\ OscPacket!BeginBundle
<1>1. PICK n : n = Len(Chain)
  OBVIOUS
<1>2. /\ MayOpen /\ ~messageIsInProgress /\ BeginElement
      /\ headers' = [headers EXCEPT ![messageCursor + SlotSize] = "#bundle"]
      /\ messageCursor' = messageCursor + SlotSize + 16 /\ argumentCurrent' = messageCursor'
      /\ UNCHANGED <<typeTags, messageIsInProgress, tagStrings, blocks>>
  BY DEF BeginBundle
<1>3. /\ n \in Nat /\ Len(Chain') = n + 1 /\ elementSizePtr' = Chain'[n + 1]
      /\ Contents(elementSizePtr') = messageCursor + SlotSize
      /\ OpenBundles = n
      /\ n = 0 => messageCursor = 0
      /\ \A i \in 1..n : /\ OpenAt(Chain[i], ContentsEnd[i])'
                         /\ Elements'[<<Contents(Chain'[i]) + 16, ContentsEnd'[i]>>]
                              = Elements[<<Contents(Chain[i]) + 16, ContentsEnd[i]>>]
  BY <1>1, <1>2, Opening
<1>4. PICK start : start = messageCursor + SlotSize
  OBVIOUS
<1>5. /\ TypeOK /\ TypeOK' /\ messageCursor \in Offsets /\ messageCursor \in Nat
      /\ messageCursor' \in Offsets /\ messageCursor' \in Nat /\ messageCursor' = start + 16
      /\ messageCursor' <= Capacity /\ start \in Nat
  <2>1. TypeOK /\ TypeOK' /\ messageCursor \in Offsets /\ messageCursor' \in Offsets
    BY DEF PInv, IInv, TypeOK
  <2>2. messageCursor \in Nat /\ messageCursor' \in Nat /\ messageCursor' <= Capacity
    BY <2>1, OffsetsAreAligned
  <2>3. start \in Nat
    BY <1>4, <2>2 DEF SlotSize
  <2>4. QED
    BY <1>2, <1>4, <2>1, <2>2, <2>3
<1>6. start \in Offsets
  <2>1. start <= Capacity
    BY <1>5
  <2>2. SlotSize \in Nat /\ SlotSize % 4 = 0
    BY DEF SlotSize
  <2>3. QED
    BY <1>4, <1>5, <2>1, <2>2, Aligned
<1>7. headers'[start] = "#bundle"
  <2>1. headers \in [Offsets -> Addresses \cup {"#bundle", Unset}]
    BY <1>5 DEF TypeOK
  <2>2. QED
    BY <1>2, <1>4, <1>6, <2>1
<1>8. ContentsEnd'[n + 1] = messageCursor' /\ Contents(Chain'[n + 1]) = start /\ OpenBundles' = n + 1
  BY <1>2, <1>3, <1>4 DEF ContentsEnd, OpenBundles
<1>9. OpenAt(Chain[n + 1], ContentsEnd[n + 1])'
  <2>1. PICK q : q = start + 16
    OBVIOUS
  <2>2. q \in Offsets /\ q \in Nat
    BY <1>5, <2>1
  <2>3. Walk(q, q)'
    <3>1. {q} \in SUBSET Offsets /\ q \in {q} /\ \A x \in {q} : x <= q /\ x = q
      BY <2>2
    <3>2. QED
      BY <3>1 DEF Walk
  <2>4. start + 16 <= messageCursor'
    BY <1>5
  <2>5. QED
    BY <1>5, <1>7, <1>8, <2>1, <2>3, <2>4 DEF OpenAt, Walk
<1>10. BundlesReadable'
  <2>1. ASSUME NEW i \in 1..(n + 1) PROVE OpenAt(Chain[i], ContentsEnd[i])'
    <3>1. i = n + 1 \/ i \in 1..n
      BY <1>3
    <3>2. CASE i = n + 1
      BY <1>9, <3>2 DEF OpenAt, Walk
    <3>3. CASE i \in 1..n
      BY <1>3, <3>3
    <3>4. QED
      BY <3>1, <3>2, <3>3
  <2>2. QED
    BY <1>8, <2>1 DEF BundlesReadable
<1>11. RInv'
  BY <1>2, <1>10 DEF RInv, MessageReadable, NothingPending
<1>12. open' = Append(open, <<>>)
  <2>1. PICK f, g : f = open /\ g = open'
    OBVIOUS
  <2>2. Len(f) = n /\ Len(g) = n + 1
    BY <1>3, <1>8, <2>1, OpenIs, OpenPrimed
  <2>3. \A i \in 1..n : g[i] = f[i]
    <3>1. ASSUME NEW i \in 1..n PROVE g[i] = f[i]
      <4>1. i \in 1..(n + 1)
        BY <1>3
      <4>2. f[i] = Elements[<<Contents(Chain[i]) + 16, ContentsEnd[i]>>]
        BY <1>3, <2>1, OpenIs
      <4>3. g[i] = Elements'[<<Contents(Chain'[i]) + 16, ContentsEnd'[i]>>]
        BY <1>8, <2>1, <4>1, OpenPrimed
      <4>4. QED
        BY <1>3, <4>2, <4>3
    <3>2. QED
      BY <3>1
  <2>4. g[n + 1] = <<>>
    <3>1. n + 1 \in 1..(n + 1)
      BY <1>3
    <3>2. g[n + 1] = Elements'[<<start + 16, messageCursor'>>]
      BY <1>8, <2>1, <3>1, OpenPrimed
    <3>3. Elements'[<<messageCursor', messageCursor'>>] = <<>>
      <4>1. PICK q : q = messageCursor'
        OBVIOUS
      <4>2. q \in Offsets /\ q >= q
        BY <1>5, <4>1
      <4>3. Elements'[<<q, q>>] = ReadElements(Elements, q, q)'
        BY <1>5, <4>2, NextElements
      <4>4. Elements'[<<q, q>>] = <<>>
        BY <4>2, <4>3 DEF ReadElements
      <4>5. QED
        BY <4>1, <4>4
    <3>4. QED
      BY <1>5, <3>2, <3>3
  <2>5. PICK T : f \in Seq(T)
    BY <2>1, OpenIs
  <2>6. PICK U : g \in Seq(U)
    BY <2>1, OpenPrimed
  <2>7. PICK h : h = Append(f, <<>>)
    OBVIOUS
  <2>8. f \in Seq(T \cup {<<>>}) /\ <<>> \in T \cup {<<>>}
    BY <2>5, SeqMonotonic, T \subseteq T \cup {<<>>}
  <2>9. h \in Seq(T \cup {<<>>}) /\ Len(h) = n + 1 /\ h[n + 1] = <<>> /\ \A i \in 1..n : h[i] = f[i]
    BY <2>2, <2>7, <2>8
  <2>10. \A i \in 1..Len(g) : g[i] = h[i]
    <3>1. ASSUME NEW i \in 1..(n + 1) PROVE g[i] = h[i]
      <4>1. i = n + 1 \/ i \in 1..n
        BY <1>3
      <4>2. QED
        BY <2>3, <2>4, <2>9, <4>1
    <3>2. QED
      BY <2>2, <3>1
  <2>11. g = h
    BY <2>2, <2>6, <2>9, <2>10, SameElements
  <2>12. QED
    BY <2>1, <2>7, <2>11
<1>13. message = [kind |-> "none"] /\ message' = [kind |-> "none"]
  BY <1>2 DEF message
<1>14. packet = [kind |-> "none"]
  BY <1>2, NoPacket DEF MayOpen, IsBundleInProgress
<1>15. packet' = [kind |-> "none"]
  <2>1. elementSizePtr' # Null
    <3>1. elementSizePtr' = 0 \/ elementSizePtr' = messageCursor
      BY <1>2 DEF BeginElement
    <3>2. QED
      BY <1>5, <3>1 DEF Null
  <2>2. ~IsReady'
    BY <2>1 DEF IsReady, IsBundleInProgress
  <2>3. QED
    BY <2>2 DEF packet
<1>16. QED
  BY <1>11, <1>12, <1>13, <1>14, <1>15 DEF OscPacket!BeginBundle, OscPacket!None

\* operator<<(BeginMessage) opens a message without arguments.
LEMMA BeginMessageReads ==
  ASSUME OnePacket, PInv, PInv', RInv, NEW address \in Addresses, BeginMessage(address)
  PROVE  RInv' /\ OscPacket!BeginMessage(address)
<1>1. PICK n : n = Len(Chain)
  OBVIOUS
<1>2. /\ MayOpen /\ ~messageIsInProgress /\ messageIsInProgress' = TRUE /\ BeginElement
      /\ headers' = [headers EXCEPT ![messageCursor + SlotSize] = address]
      /\ messageCursor' = messageCursor + SlotSize + AddressSize(address)
      /\ argumentCurrent' = messageCursor'
      /\ block' = <<>> /\ typeTags' = <<>>
      /\ UNCHANGED <<tagStrings, blocks>>
  BY DEF BeginMessage
<1>3. /\ n \in Nat /\ Len(Chain') = n + 1 /\ elementSizePtr' = Chain'[n + 1]
      /\ Contents(elementSizePtr') = messageCursor + SlotSize
      /\ OpenBundles = n
      /\ n = 0 => messageCursor = 0
      /\ \A i \in 1..n : /\ OpenAt(Chain[i], ContentsEnd[i])'
                         /\ Elements'[<<Contents(Chain'[i]) + 16, ContentsEnd'[i]>>]
                              = Elements[<<Contents(Chain[i]) + 16, ContentsEnd[i]>>]
  BY <1>1, <1>2, Opening
<1>4. PICK start : start = messageCursor + SlotSize
  OBVIOUS
<1>a. AddressSize(address) \in Nat
  BY AddressSizeAligned
<1>5. /\ TypeOK /\ TypeOK' /\ messageCursor \in Offsets /\ messageCursor \in Nat
      /\ messageCursor' \in Nat /\ messageCursor' = start + AddressSize(address)
      /\ messageCursor' <= Capacity /\ start \in Nat
  <2>1. TypeOK /\ TypeOK' /\ messageCursor \in Offsets /\ messageCursor' \in Offsets
    BY DEF PInv, IInv, TypeOK
  <2>2. messageCursor \in Nat /\ messageCursor' \in Nat /\ messageCursor' <= Capacity
    BY <2>1, OffsetsAreAligned
  <2>3. start \in Nat
    BY <1>4, <2>2 DEF SlotSize
  <2>4. QED
    BY <1>2, <1>4, <2>1, <2>2, <2>3
<1>6. start \in Offsets
  <2>1. start <= Capacity
    BY <1>5, <1>a
  <2>2. SlotSize \in Nat /\ SlotSize % 4 = 0
    BY DEF SlotSize
  <2>3. QED
    BY <1>4, <1>5, <2>1, <2>2, Aligned
<1>7. headers'[start] = address
  <2>1. headers \in [Offsets -> Addresses \cup {"#bundle", Unset}]
    BY <1>5 DEF TypeOK
  <2>2. QED
    BY <1>2, <1>4, <1>6, <2>1
<1>8. OpenBundles' = n
  BY <1>2, <1>3 DEF OpenBundles
<1>9. BundlesReadable'
  BY <1>3, <1>8 DEF BundlesReadable
<1>10. InsertionOrder' = <<>>
  BY <1>2 DEF InsertionOrder
<1>11. MessageReadable'
  <2>1. messageCursor' + BlockSize(<<>>) = messageCursor'
    BY <1>5, BlockSizeOf
  <2>2. Stored(InsertionOrder', Len(typeTags')) = Len(block')
    BY <1>2, <1>10, EmptyMessage
  <2>3. headers'[Contents(elementSizePtr')] = address
    BY <1>3, <1>4, <1>7
  <2>4. QED
    BY <1>2, <1>3, <1>4, <1>5, <2>1, <2>2, <2>3 DEF MessageReadable
<1>12. RInv'
  BY <1>2, <1>9, <1>11 DEF RInv, NothingPending
<1>13. open' = open
  <2>1. PICK f, g : f = open /\ g = open'
    OBVIOUS
  <2>2. Len(f) = n /\ Len(g) = n
    BY <1>3, <1>8, <2>1, OpenIs, OpenPrimed
  <2>3. \A i \in 1..n : g[i] = f[i]
    <3>1. ASSUME NEW i \in 1..n PROVE g[i] = f[i]
      <4>1. f[i] = Elements[<<Contents(Chain[i]) + 16, ContentsEnd[i]>>]
        BY <1>3, <2>1, OpenIs
      <4>2. g[i] = Elements'[<<Contents(Chain'[i]) + 16, ContentsEnd'[i]>>]
        BY <1>8, <2>1, OpenPrimed
      <4>3. QED
        BY <1>3, <4>1, <4>2
    <3>2. QED
      BY <3>1
  <2>4. PICK T : f \in Seq(T)
    BY <2>1, OpenIs
  <2>5. PICK U : g \in Seq(U)
    BY <2>1, OpenPrimed
  <2>6. g = f
    BY <2>2, <2>3, <2>4, <2>5, SameElements
  <2>7. QED
    BY <2>1, <2>6
<1>14. message = [kind |-> "none"]
  BY <1>2 DEF message
<1>15. message' = [kind |-> "message", address |-> address, arguments |-> <<>>]
  <2>1. headers'[Contents(elementSizePtr')] = address
    BY <1>3, <1>4, <1>7
  <2>2. ReadArguments(InsertionOrder', block') = <<>>
    BY <1>2, <1>10, EmptyMessage
  <2>3. QED
    BY <1>2, <2>1, <2>2 DEF message
<1>16. packet = [kind |-> "none"]
  BY <1>2, NoPacket DEF MayOpen, IsBundleInProgress
<1>17. packet' = [kind |-> "none"]
  BY <1>2 DEF packet, IsReady
<1>18. QED
  BY <1>12, <1>13, <1>14, <1>15, <1>16, <1>17
     DEF OscPacket!BeginMessage, OscPacket!None, OscPacket!Message

\* operator<< of an argument adds it to the message.
LEMMA AddArgumentReads ==
  ASSUME OnePacket, PInv, PInv', RInv, NEW x \in Arguments, AddArgument(x)
  PROVE  RInv' /\ OscPacket!AddArgument(x)
<1>1. /\ messageIsInProgress
      /\ typeTags' = <<x.tag>> \o typeTags
      /\ argumentCurrent' = argumentCurrent + ArgumentSize(x)
      /\ block' = IF ArgumentSize(x) = 0 THEN block ELSE Append(block, x)
      /\ UNCHANGED <<messageCursor, elementSizePtr, messageIsInProgress, memory>>
  BY DEF AddArgument, pointer
<1>2. BundlesReadable' /\ open' = open
  BY <1>1, MemoryUnchanged
<1>3. x.tag \in TypeTags /\ (ArgumentSize(x) = 0 <=> x.tag \in ZeroTags) /\ ArgumentSize(x) \in Nat
  BY ArgumentKinds, ArgumentSizeAligned
<1>4. /\ TypeOK /\ TypeOK' /\ block \in Seq(Arguments)
      /\ messageCursor \in Nat /\ argumentCurrent \in Nat
  BY OffsetsAreAligned DEF PInv, IInv, TypeOK
<1>5. InsertionOrder' = Append(InsertionOrder, x.tag)
  BY <1>1, <1>3, <1>4, InsertionOrderGrows
<1>6. PICK tags : tags = InsertionOrder
  OBVIOUS
<1>7. tags \in Seq(TypeTags) /\ Len(tags) = Len(typeTags) /\ Stored(tags, Len(tags)) = Len(block)
      /\ Len(typeTags) \in Nat
  BY <1>1, <1>4, <1>6, InsertionOrderIs DEF RInv, MessageReadable
<1>8. block' = IF x.tag \in ZeroTags THEN block ELSE Append(block, x)
  BY <1>1, <1>3
<1>9. PICK more : more = block'
  OBVIOUS
<1>10. /\ Stored(Append(tags, x.tag), Len(tags) + 1) = Len(more)
       /\ ReadArguments(Append(tags, x.tag), more) = Append(ReadArguments(tags, block), x)
  <2>1. PICK d : d = block
    OBVIOUS
  <2>2. more = IF x.tag \in ZeroTags THEN d ELSE Append(d, x)
    BY <1>8, <1>9, <2>1
  <2>3. d \in Seq(Arguments) /\ tags \in Seq(TypeTags) /\ Stored(tags, Len(tags)) = Len(d)
    BY <1>4, <1>7, <2>1
  <2>4. /\ Stored(Append(tags, x.tag), Len(tags) + 1) = Len(more)
        /\ ReadArguments(Append(tags, x.tag), more) = Append(ReadArguments(tags, d), x)
    BY <2>2, <2>3, ReadArgumentsOf
  <2>5. QED
    BY <2>1, <2>4
<1>11. Len(typeTags') = Len(tags) + 1
  <2>1. (TypeOK =>  /\ InsertionOrder \in Seq(TypeTags) /\ Len(InsertionOrder) = Len(typeTags)
         /\ Len(typeTags) \in Nat
         /\ \A i \in 1..Len(typeTags) : InsertionOrder[i] = typeTags[Len(typeTags) + 1 - i])'
    BY InsertionOrderIs, PTL
  <2>2. Len(Append(tags, x.tag)) = Len(tags) + 1
    <3> HIDE DEF TypeTags
    <3>1. QED
      BY <1>3, <1>7
  <2>3. QED
    BY <1>4, <1>5, <1>6, <2>1, <2>2
<1>12. argumentCurrent' = messageCursor + BlockSize(more)
  <2>1. argumentCurrent = messageCursor + BlockSize(block)
    BY <1>1 DEF RInv, MessageReadable
  <2>2. CASE x.tag \in ZeroTags
    BY <1>1, <1>3, <1>4, <1>8, <1>9, <2>1, <2>2
  <2>3. CASE x.tag \notin ZeroTags
    <3>1. BlockSize(more) = BlockSize(block) + ArgumentSize(x)
      BY <1>4, <1>8, <1>9, <2>3, BlockSizeOf
    <3>2. BlockSize(block) \in Nat
      BY <1>4, BlockSizeIsNat
    <3>3. QED
      BY <1>1, <1>3, <1>4, <2>1, <3>1, <3>2
  <2>4. QED
    BY <2>2, <2>3
<1>13. RInv'
  <2>1. UNCHANGED <<headers, messageCursor, elementSizePtr, messageIsInProgress>>
    BY <1>1 DEF memory
  <2>2. MessageReadable'
    BY <1>1, <1>5, <1>6, <1>9, <1>10, <1>11, <1>12, <2>1 DEF RInv, MessageReadable
  <2>3. QED
    BY <1>1, <1>2, <2>2 DEF RInv, NothingPending
<1>14. /\ message # [kind |-> "none"]
       /\ message' = [message EXCEPT !.arguments = Append(@, x)]
  <2>1. PICK h, a, b : /\ h = headers[Contents(elementSizePtr)] /\ a = ReadArguments(tags, block)
                       /\ b = Append(a, x)
    OBVIOUS
  <2>2. message = [kind |-> "message", address |-> h, arguments |-> a]
    BY <1>1, <1>6, <2>1 DEF message
  <2>3. message' = [kind |-> "message", address |-> h, arguments |-> b]
    BY <1>1, <1>5, <1>6, <1>9, <1>10, <2>1 DEF message, memory
  <2>4. PICK m : m = message
    OBVIOUS
  <2>5. m = [kind |-> "message", address |-> h, arguments |-> a]
    BY <2>2, <2>4
  <2>6. m # [kind |-> "none"]
    <3>1. m.kind = "message" /\ [kind |-> "none"].kind = "none"
      BY <2>5
    <3>2. QED
      BY <3>1
  <2>7. [m EXCEPT !.arguments = b] = [kind |-> "message", address |-> h, arguments |-> b]
    BY <2>5
  <2>8. m.arguments = a
    BY <2>5
  <2>9. QED
    BY <2>1, <2>3, <2>4, <2>6, <2>7, <2>8
<1>15. packet = [kind |-> "none"] /\ packet' = [kind |-> "none"]
  BY <1>1 DEF packet, IsReady
<1>16. QED
  BY <1>2, <1>13, <1>14, <1>15 DEF OscPacket!AddArgument, OscPacket!None

\* operator<<(BundleTerminator) hands the bundle to the one around it.
LEMMA EndBundleReads ==
  ASSUME PInv, PInv', RInv, EndBundle
  PROVE  RInv' /\ OscPacket!EndBundle
<1>1. PICK last, end : last = elementSizePtr /\ end = messageCursor'
  OBVIOUS
<1>2. /\ elementSizePtr # Null /\ ~messageIsInProgress /\ messageIsInProgress' = FALSE
      /\ EndElement(messageCursor) /\ messageCursor' = messageCursor /\ argumentCurrent' = argumentCurrent
      /\ UNCHANGED <<headers, tagStrings, blocks>>
  <2>1. messageIsInProgress \in BOOLEAN
    BY DEF PInv, IInv, TypeOK
  <2>2. QED
    BY <2>1 DEF EndBundle, IsBundleInProgress, cursors
<1>3. argumentCurrent' = messageCursor'
  BY <1>2 DEF RInv, NothingPending
<1>4. PICK element : element = Finished'[last]
  OBVIOUS
<1>5. TypeOK /\ TypeOK' /\ messageCursor \in Nat /\ messageCursor \in Offsets
  BY OffsetsAreAligned DEF PInv, IInv, TypeOK
<1>6. PICK n \in Nat :
      /\ n = Len(Chain) /\ n >= 1 /\ Len(Chain') = n - 1 /\ OpenBundles' = n - 1
      /\ last \in Offsets /\ end \in Offsets /\ last + 4 <= messageCursor /\ last = Chain[n]
      /\ n = 1 => last = 0 /\ elementSizePtr' = Null /\ packet' = element
      /\ n # 1 => last # 0 /\ elementSizePtr' # Null
      /\ BundlesReadable'
      /\ \A i \in 1..(n - 2) : Elements'[<<Contents(Chain'[i]) + 16, ContentsEnd'[i]>>]
                                 = Elements[<<Contents(Chain[i]) + 16, ContentsEnd[i]>>]
      /\ n # 1 => Elements'[<<Contents(Chain'[n - 1]) + 16, ContentsEnd'[n - 1]>>]
                    = Append(Elements[<<Contents(Chain[n - 1]) + 16, ContentsEnd[n - 1]>>], element)
  <2>1. EndElement(messageCursor')
    BY <1>2 DEF EndElement
  <2>2. messageCursor' >= messageCursor
    BY <1>2, <1>5
  <2>3. QED
    BY <1>1, <1>2, <1>3, <1>4, <2>1, <2>2, Closing
<1>7. RInv'
  BY <1>2, <1>3, <1>6 DEF RInv, MessageReadable, NothingPending
<1>8. OpenBundles = n /\ Len(open) = n /\ open[n] = Elements[<<Contents(last) + 16, end>>]
      /\ Contents(last) + 16 <= end /\ headers[Contents(last)] = "#bundle"
  <2>1. OpenBundles = n
    BY <1>1, <1>2, <1>6 DEF OpenBundles
  <2>2. n \in 1..n /\ ContentsEnd[n] = end
    BY <1>1, <1>2, <1>6, ContentsEndOf
  <2>3. OpenAt(Chain[n], ContentsEnd[n])
    BY <2>1, <2>2 DEF RInv, BundlesReadable
  <2>4. QED
    BY <1>6, <2>1, <2>2, <2>3, OpenIs DEF OpenAt
<1>9. element = [kind |-> "bundle", elements |-> open[n]]
  <2>1. PICK start : start = Contents(last) + 16
    OBVIOUS
  <2>2. last \in Nat /\ end \in Nat /\ end <= Capacity /\ last % 4 = 0
    BY <1>6, OffsetsAreAligned
  <2>3. start \in Nat /\ start <= end /\ start > last
    BY <1>8, <2>1, <2>2 DEF Contents
  <2>4. start \in Offsets
    <3>1. CASE last = 0
      <4>1. start = last + 16 /\ 16 % 4 = 0 /\ 16 \in Nat
        BY <2>1, <3>1 DEF Contents
      <4>2. last + 16 <= Capacity
        BY <2>2, <2>3, <4>1
      <4>3. QED
        BY <1>6, <4>1, <4>2, Aligned
    <3>2. CASE last # 0
      <4>1. start = last + 20 /\ 20 % 4 = 0 /\ 20 \in Nat
        BY <2>1, <2>2, <3>2 DEF Contents
      <4>2. last + 20 <= Capacity
        BY <2>2, <2>3, <4>1
      <4>3. QED
        BY <1>6, <4>1, <4>2, Aligned
    <3>3. QED
      BY <3>1, <3>2
  <2>5. SameBetween(start, end)
    <3>1. slots \in [Offsets -> Nat]
      BY <1>5 DEF TypeOK
    <3>2. \A x \in Offsets : start <= x => x # last
      BY <2>2, <2>3, OffsetsAreAligned
    <3>3. \A x \in Offsets : start <= x => slots'[x] = slots[x]
      BY <1>1, <1>2, <3>1, <3>2 DEF EndElement
    <3>4. QED
      BY <1>2, <3>3 DEF SameBetween
  <2>6. Elements'[<<start, end>>] = Elements[<<start, end>>]
    <3>1. start <= start /\ end <= end
      BY <2>2, <2>3
    <3>2. \A p, e \in Offsets : start <= p /\ e <= end => Elements'[<<p, e>>] = Elements[<<p, e>>]
      BY <1>5, <1>6, <2>4, <2>5, ElementsFrame
    <3>3. QED
      BY <1>6, <2>4, <3>1, <3>2
  <2>7. ~ (start > end)
    BY <2>2, <2>3
  <2>8. element = [kind |-> "bundle", elements |-> Elements'[<<start, end>>]]
    BY <1>1, <1>2, <1>4, <1>6, <1>8, <2>1, <2>7 DEF Finished, ReadElement, ReadMessage
  <2>9. QED
    BY <1>8, <2>1, <2>6, <2>8
<1>10. PICK f, g, s : f = open /\ g = open' /\ s = SubSeq(f, 1, n - 1)
  OBVIOUS
<1>11. PICK T : f \in Seq(T)
  BY <1>10, OpenIs
<1>12. PICK U : g \in Seq(U)
  BY <1>10, OpenPrimed
<1>13. s \in Seq(T) /\ Len(s) = n - 1 /\ \A i \in 1..(n - 1) : s[i] = f[i]
  <2>1. 1 \in Int /\ n - 1 \in Int /\ \A i \in 1..(n - 1) : f[i] \in T
    <3>1. \A i \in 1..(n - 1) : i \in 1..Len(f)
      BY <1>6, <1>8, <1>10
    <3>2. QED
      BY <1>6, <1>11, <3>1, ElementOfSeq
  <2>2. /\ s \in Seq(T) /\ Len(s) = IF 1 <= n - 1 THEN (n - 1) - 1 + 1 ELSE 0
        /\ \A i \in 1..((n - 1) - 1 + 1) : s[i] = f[1 + i - 1]
    BY <1>10, <2>1, SubSeqProperties
  <2>3. Len(s) = n - 1 /\ (n - 1) - 1 + 1 = n - 1
    BY <1>6, <2>2
  <2>4. \A i \in 1..(n - 1) : 1 + i - 1 = i
    BY <1>6
  <2>5. QED
    BY <2>2, <2>3, <2>4
<1>14. Len(g) = n - 1
  BY <1>6, <1>10, OpenPrimed
<1>15. \A i \in 1..(n - 2) : g[i] = s[i]
  <2>1. ASSUME NEW i \in 1..(n - 2) PROVE g[i] = s[i]
    <3>1. i \in 1..(n - 1) /\ i \in 1..n
      BY <1>6
    <3>2. g[i] = Elements'[<<Contents(Chain'[i]) + 16, ContentsEnd'[i]>>]
      BY <1>6, <1>10, <3>1, OpenPrimed
    <3>3. f[i] = Elements[<<Contents(Chain[i]) + 16, ContentsEnd[i]>>]
      BY <1>8, <1>10, <3>1, OpenIs
    <3>4. QED
      BY <1>6, <1>13, <3>1, <3>2, <3>3
  <2>2. QED
    BY <2>1
<1>16. n # 1 => g[n - 1] = Append(s[n - 1], element)
  <2>1. SUFFICES ASSUME n # 1 PROVE g[n - 1] = Append(s[n - 1], element)
    OBVIOUS
  <2>2. n - 1 \in 1..(n - 1) /\ n - 1 \in 1..n
    BY <1>6, <2>1
  <2>3. g[n - 1] = Elements'[<<Contents(Chain'[n - 1]) + 16, ContentsEnd'[n - 1]>>]
    BY <1>6, <1>10, <2>2, OpenPrimed
  <2>4. f[n - 1] = Elements[<<Contents(Chain[n - 1]) + 16, ContentsEnd[n - 1]>>]
    BY <1>8, <1>10, <2>2, OpenIs
  <2>5. QED
    BY <1>6, <1>13, <2>1, <2>2, <2>3, <2>4
<1>17. g = IF n - 1 = 0 THEN s ELSE [s EXCEPT ![n - 1] = Append(@, element)]
  <2>1. Len(s) = Len(g)
    BY <1>13, <1>14
  <2>2. (n - 1) - 1 = n - 2 /\ (n - 1 # 0 <=> n # 1)
    BY <1>6
  <2>3. \A i \in 1..(Len(s) - 1) : g[i] = s[i]
    BY <1>13, <1>15, <2>2
  <2>4. Len(s) # 0 => g[Len(s)] = Append(s[Len(s)], element)
    BY <1>13, <1>16, <2>2
  <2>5. g = IF Len(s) = 0 THEN s ELSE [s EXCEPT ![Len(s)] = Append(@, element)]
    BY <1>12, <1>13, <2>1, <2>3, <2>4, Delivered
  <2>6. QED
    BY <1>13, <2>5
<1>18. packet = [kind |-> "none"] /\ (n # 1 => packet' = [kind |-> "none"])
  <2>1. packet = [kind |-> "none"]
    BY <1>2, NoPacket
  <2>2. n # 1 => ~IsReady'
    BY <1>6 DEF IsReady, IsBundleInProgress
  <2>3. QED
    BY <2>1, <2>2 DEF packet
<1>19. message = [kind |-> "none"] /\ message' = [kind |-> "none"]
  BY <1>2 DEF message
<1>20. OscPacket!Deliver(element, s)
  <2>1. n - 1 = 0 <=> n = 1
    BY <1>6
  <2>2. CASE n = 1
    BY <1>6, <1>10, <1>13, <1>17, <2>1, <2>2 DEF OscPacket!Deliver
  <2>3. CASE n # 1
    BY <1>10, <1>13, <1>17, <1>18, <2>1, <2>3 DEF OscPacket!Deliver
  <2>4. QED
    BY <2>2, <2>3
<1>21. open # <<>>
  <2>1. Len(<<>>) = 0 /\ n # 0
    BY <1>6
  <2>2. QED
    BY <1>8, <2>1
<1>22. OscPacket!EndBundle
  BY <1>8, <1>9, <1>10, <1>19, <1>20, <1>21
     DEF OscPacket!EndBundle, OscPacket!Bundle, OscPacket!None, OscPacket!Deliver
<1>23. QED
  BY <1>7, <1>22

\* operator<<(MessageTerminator) hands the message to the bundle around it.
LEMMA EndMessageReads ==
  ASSUME PInv, PInv', RInv, EndMessage
  PROVE  RInv' /\ OscPacket!EndMessage
<1>1. PICK last, end : last = elementSizePtr /\ end = messageCursor'
  OBVIOUS
<1>2. /\ messageIsInProgress /\ messageIsInProgress' = FALSE
      /\ tagStrings' = [tagStrings EXCEPT ![messageCursor] = InsertionOrder]
      /\ blocks' = [blocks EXCEPT ![messageCursor + TypeTagSlotSize] = block]
      /\ messageCursor' = argumentCurrent + TypeTagSlotSize
      /\ argumentCurrent' = messageCursor'
      /\ EndElement(messageCursor')
      /\ headers' = headers
  BY DEF EndMessage
<1>3. elementSizePtr # Null
  BY <1>2 DEF PInv, IInv, CursorsInOrder
<1>4. PICK element : element = Finished'[last]
  OBVIOUS
<1>5. /\ TypeOK /\ TypeOK' /\ messageCursor \in Nat /\ messageCursor \in Offsets
      /\ argumentCurrent \in Nat /\ messageCursor <= argumentCurrent
      /\ end \in Offsets /\ end \in Nat /\ end <= Capacity
  BY <1>1, OffsetsAreAligned DEF PInv, IInv, TypeOK, CursorsInOrder
<1>6. PICK slot : slot = TypeTagSlotSize
  OBVIOUS
<1>7. slot = RoundUp4(Len(typeTags) + 2) /\ slot \in Nat /\ slot % 4 = 0 /\ slot >= 4
      /\ end = argumentCurrent + slot
  BY <1>1, <1>2, <1>5, <1>6, TagSlot
<1>8. messageCursor + slot \in Offsets
  <2>1. messageCursor + slot <= Capacity
    BY <1>5, <1>7
  <2>2. QED
    BY <1>5, <1>7, <2>1, Aligned
<1>9. tagStrings \in [Offsets -> Seq(TypeTags)] /\ blocks \in [Offsets -> Seq(Arguments)]
  BY <1>5 DEF TypeOK
<1>10. PICK n \in Nat :
       /\ n = Len(Chain) /\ n >= 1 /\ Len(Chain') = n - 1 /\ OpenBundles' = n - 1
       /\ last \in Offsets /\ end \in Offsets /\ last + 4 <= messageCursor /\ last = Chain[n]
       /\ n = 1 => last = 0 /\ elementSizePtr' = Null /\ packet' = element
       /\ n # 1 => last # 0 /\ elementSizePtr' # Null
       /\ BundlesReadable'
       /\ \A i \in 1..(n - 2) : Elements'[<<Contents(Chain'[i]) + 16, ContentsEnd'[i]>>]
                                  = Elements[<<Contents(Chain[i]) + 16, ContentsEnd[i]>>]
       /\ n # 1 => Elements'[<<Contents(Chain'[n - 1]) + 16, ContentsEnd'[n - 1]>>]
                     = Append(Elements[<<Contents(Chain[n - 1]) + 16, ContentsEnd[n - 1]>>], element)
  <2>1. messageCursor' >= messageCursor
    BY <1>1, <1>5, <1>7
  <2>2. ASSUME NEW x \in Offsets, x < messageCursor
        PROVE  tagStrings'[x] = tagStrings[x] /\ blocks'[x] = blocks[x]
    <3>1. x \in Nat
      BY OffsetsAreAligned
    <3>2. x # messageCursor /\ x # messageCursor + slot
      BY <1>5, <1>7, <2>2, <3>1
    <3>3. QED
      BY <1>2, <1>6, <1>9, <3>2
  <2>3. QED
    BY <1>1, <1>2, <1>3, <1>4, <2>1, <2>2, Closing
<1>11. RInv'
  BY <1>2, <1>10 DEF RInv, MessageReadable, NothingPending
<1>12. PICK h, tags, d : h = headers[Contents(last)] /\ tags = InsertionOrder /\ d = block
  OBVIOUS
<1>13. /\ h \in Addresses /\ messageCursor = Contents(last) + AddressSize(h)
       /\ argumentCurrent = messageCursor + BlockSize(d)
       /\ Len(tags) = Len(typeTags)
  BY <1>1, <1>2, <1>5, <1>12, InsertionOrderIs DEF RInv, MessageReadable
<1>14. message = [kind |-> "message", address |-> h, arguments |-> ReadArguments(tags, d)]
  BY <1>1, <1>2, <1>12 DEF message
<1>15. element = message
  <2>1. h # "#bundle"
    BY <1>13, ConstantsAssumption
  <2>2. headers'[Contents(last)] = h
    BY <1>2, <1>12
  <2>3. element = ReadMessage(Contents(last), end)'
    BY <1>1, <1>4, <1>10, <2>1, <2>2 DEF Finished, ReadElement, ReadMessage
  <2>4. tagStrings'[messageCursor] = tags /\ blocks'[messageCursor + slot] = d
    BY <1>2, <1>5, <1>6, <1>8, <1>9, <1>12
  <2>5. PICK begin, arguments : begin = messageCursor /\ arguments = messageCursor + slot
    OBVIOUS
  <2>6. /\ begin = Contents(last) + AddressSize(h) /\ ~ (begin > end)
        /\ arguments = begin + RoundUp4(Len(tags) + 2)
        /\ ~ (arguments > end) /\ arguments + BlockSize(d) = end
    <3>1. BlockSize(d) \in Nat
      <4>1. d \in Seq(Arguments)
        BY <1>5, <1>12 DEF TypeOK
      <4>2. QED
        BY <4>1, BlockSizeIsNat
    <3>2. arguments + BlockSize(d) = end
      BY <1>5, <1>7, <1>13, <2>5, <3>1
    <3>3. begin <= end /\ arguments <= end
      BY <1>5, <1>7, <2>5
    <3>4. arguments = begin + RoundUp4(Len(tags) + 2)
      BY <1>7, <1>13, <2>5
    <3>5. arguments \in Nat /\ begin \in Nat
      BY <1>5, <1>7, <2>5
    <3>6. QED
      BY <1>5, <1>13, <2>5, <3>2, <3>3, <3>4, <3>5
  <2>7. tagStrings'[begin] = tags /\ blocks'[arguments] = d
    BY <2>4, <2>5
  <2>8. ReadMessage(Contents(last), end)'
          = [kind |-> "message", address |-> h, arguments |-> ReadArguments(tags, d)]
    <3>1. ~ (headers'[Contents(last)] \notin Addresses
             \/ Contents(last) + AddressSize(headers'[Contents(last)]) > end)
      BY <1>13, <2>2, <2>6
    <3>2. Contents(last) + AddressSize(headers'[Contents(last)]) = begin
      BY <2>2, <2>6
    <3>3. begin + RoundUp4(Len(tagStrings'[begin]) + 2) = arguments
      BY <2>6, <2>7
    <3>4. ~ (arguments > end \/ arguments + BlockSize(blocks'[arguments]) # end)
      BY <2>6, <2>7
    <3>5. QED
      BY <2>2, <2>7, <3>1, <3>2, <3>3, <3>4 DEF ReadMessage
  <2>9. QED
    BY <1>14, <2>3, <2>8
<1>16. PICK f, g : f = open /\ g = open'
  OBVIOUS
<1>17. OpenBundles = n - 1
  BY <1>1, <1>2, <1>10 DEF OpenBundles
<1>18. PICK T : f \in Seq(T)
  BY <1>16, OpenIs
<1>19. PICK U : g \in Seq(U)
  BY <1>16, OpenPrimed
<1>20. Len(f) = n - 1 /\ Len(g) = n - 1
  BY <1>10, <1>16, <1>17, OpenIs, OpenPrimed
<1>21. \A i \in 1..(n - 2) : g[i] = f[i]
  <2>1. ASSUME NEW i \in 1..(n - 2) PROVE g[i] = f[i]
    <3>1. i \in 1..(n - 1)
      BY <1>10
    <3>2. g[i] = Elements'[<<Contents(Chain'[i]) + 16, ContentsEnd'[i]>>]
      BY <1>10, <1>16, <3>1, OpenPrimed
    <3>3. f[i] = Elements[<<Contents(Chain[i]) + 16, ContentsEnd[i]>>]
      BY <1>16, <1>17, <3>1, OpenIs
    <3>4. QED
      BY <1>10, <3>2, <3>3
  <2>2. QED
    BY <2>1
<1>22. n # 1 => g[n - 1] = Append(f[n - 1], element)
  <2>1. SUFFICES ASSUME n # 1 PROVE g[n - 1] = Append(f[n - 1], element)
    OBVIOUS
  <2>2. n - 1 \in 1..(n - 1)
    BY <1>10, <2>1
  <2>3. g[n - 1] = Elements'[<<Contents(Chain'[n - 1]) + 16, ContentsEnd'[n - 1]>>]
    BY <1>10, <1>16, <2>2, OpenPrimed
  <2>4. f[n - 1] = Elements[<<Contents(Chain[n - 1]) + 16, ContentsEnd[n - 1]>>]
    BY <1>16, <1>17, <2>2, OpenIs
  <2>5. QED
    BY <1>10, <2>1, <2>3, <2>4
<1>23. g = IF n - 1 = 0 THEN f ELSE [f EXCEPT ![n - 1] = Append(@, element)]
  <2>1. (n - 1) - 1 = n - 2 /\ (n - 1 # 0 <=> n # 1)
    BY <1>10
  <2>2. \A i \in 1..(Len(f) - 1) : g[i] = f[i]
    BY <1>20, <1>21, <2>1
  <2>3. Len(f) # 0 => g[Len(f)] = Append(f[Len(f)], element)
    BY <1>20, <1>22, <2>1
  <2>4. g = IF Len(f) = 0 THEN f ELSE [f EXCEPT ![Len(f)] = Append(@, element)]
    BY <1>18, <1>19, <1>20, <2>2, <2>3, Delivered
  <2>5. QED
    BY <1>20, <2>4
<1>24. packet = [kind |-> "none"] /\ (n # 1 => packet' = [kind |-> "none"])
  <2>1. packet = [kind |-> "none"]
    BY <1>2, NoPacket
  <2>2. n # 1 => ~IsReady'
    BY <1>10 DEF IsReady, IsBundleInProgress
  <2>3. QED
    BY <2>1, <2>2 DEF packet
<1>25. message # [kind |-> "none"] /\ message' = [kind |-> "none"]
  <2>1. PICK m : m = message
    OBVIOUS
  <2>2. m.kind = "message" /\ [kind |-> "none"].kind = "none"
    BY <1>14, <2>1
  <2>3. m # [kind |-> "none"]
    BY <2>2
  <2>4. QED
    BY <1>2, <2>1, <2>3 DEF message
<1>26. OscPacket!Deliver(element, f)
  <2>1. n - 1 = 0 <=> n = 1
    BY <1>10
  <2>2. CASE n = 1
    BY <1>10, <1>16, <1>20, <1>23, <2>1, <2>2 DEF OscPacket!Deliver
  <2>3. CASE n # 1
    BY <1>16, <1>20, <1>23, <1>24, <2>1, <2>3 DEF OscPacket!Deliver
  <2>4. QED
    BY <2>2, <2>3
<1>27. OscPacket!EndMessage
  BY <1>15, <1>16, <1>25, <1>26 DEF OscPacket!EndMessage, OscPacket!None, OscPacket!Deliver
<1>28. QED
  BY <1>11, <1>27

\* Every call on the stream is the call on the packet, and keeps what is written
\* readable.
LEMMA StepReads ==
  ASSUME OnePacket, PInv, PInv', RInv, [Next]_vars
  PROVE  RInv' /\ [OscPacket!Next]_(OscPacket!vars)
<1>1. CASE BeginBundle
  BY <1>1, BeginBundleReads DEF OscPacket!Next
<1>2. CASE EndBundle
  BY <1>2, EndBundleReads DEF OscPacket!Next
<1>3. ASSUME NEW address \in Addresses, BeginMessage(address)
      PROVE  RInv' /\ [OscPacket!Next]_(OscPacket!vars)
  BY <1>3, BeginMessageReads DEF OscPacket!Next
<1>4. CASE EndMessage
  BY <1>4, EndMessageReads DEF OscPacket!Next
<1>5. ASSUME NEW x \in Arguments, AddArgument(x)
      PROVE  RInv' /\ [OscPacket!Next]_(OscPacket!vars)
  BY <1>5, AddArgumentReads DEF OscPacket!Next
<1>6. CASE Clear
  BY <1>6, ClearReads DEF OscPacket!Next
<1>7. CASE UNCHANGED vars
  BY <1>7, StutterReads
<1>8. QED
  BY <1>1, <1>2, <1>3, <1>4, <1>5, <1>6, <1>7 DEF Next

\* With words of 4 bytes the pointer to the open element leads into the buffer.
LEMMA NeverAstray ==
  ASSUME WordSize = 4
  PROVE  Spec => [](IInv /\ PointerStaysInBuffer)
<1>1. Init => PointerStaysInBuffer
  BY DEF Init, PointerStaysInBuffer
<1>2. PointerStaysInBuffer /\ [Next]_vars => PointerStaysInBuffer'
  <2> SUFFICES ASSUME ~astray, [Next]_vars PROVE ~astray'
    BY DEF PointerStaysInBuffer
  <2>1. ASSUME BeginElement PROVE ~astray'
    BY <2>1 DEF BeginElement
  <2>2. ASSUME NEW end, EndElement(end) PROVE ~astray'
    <3>1. ~Overwritten(elementSizePtr)
      BY DEF Overwritten
    <3>2. QED
      BY <2>2, <3>1 DEF EndElement
  <2>3. CASE BeginBundle \/ EndBundle
    BY <2>1, <2>2, <2>3 DEF BeginBundle, EndBundle
  <2>4. ASSUME NEW address \in Addresses, BeginMessage(address) PROVE ~astray'
    BY <2>1, <2>4 DEF BeginMessage
  <2>5. CASE EndMessage
    BY <2>2, <2>5 DEF EndMessage
  <2>6. ASSUME NEW x \in Arguments, AddArgument(x) PROVE ~astray'
    BY <2>6 DEF AddArgument, pointer
  <2>7. CASE Clear \/ UNCHANGED vars
    BY <2>7 DEF Clear, vars, pointer
  <2>8. QED
    BY <2>3, <2>4, <2>5, <2>6, <2>7 DEF Next
<1>3. QED
  BY <1>1, <1>2, InductiveInvariant, PTL DEF Spec

\* With words of 4 bytes, for a caller that writes one outermost element, what is written
\* of every open element can be read back at any time: the size slots of the finished
\* elements lead exactly to where the next element is going to be
\* (OscOutboundPacketStream.cpp:158-203).
THEOREM AlwaysReadable == ASSUME OnePacket, WordSize = 4 PROVE Spec => []RInv
<1>1. Init => RInv
  BY InitReads
<1>2. PInv /\ PInv' /\ RInv /\ [Next]_vars => RInv'
  BY StepReads
<1>3. QED
  BY <1>1, <1>2, NeverAstray, PTL DEF Spec, PInv

\* With words of 4 bytes, for a caller that writes one outermost element, the memory of
\* the stream always holds the tree of bundles and messages the calls asked for, whatever
\* their order, nesting and sizes: OutboundPacketStream implements OscPacket
\* (OscOutboundPacketStream.cpp:158-409).
THEOREM PacketImplemented == ASSUME OnePacket, WordSize = 4 PROVE Spec => ImplementsPacket
<1>1. Init => OscPacket!Init
  BY InitReads
<1>2. PInv /\ PInv' /\ RInv /\ [Next]_vars => [OscPacket!Next]_(OscPacket!vars)
  BY StepReads
<1>3. QED
  BY <1>1, <1>2, NeverAstray, AlwaysReadable, PTL
  DEF Spec, PInv, ImplementsPacket, OscPacket!Spec
=============================================================================
