------------------------- MODULE RndisFramingProofs -------------------------
(***************************************************************************)
(* RndisFraming, for fields and headers of every size and for every        *)
(* transfer: frames lie inside their messages, apart from each other and   *)
(* behind their headers, and what was built is found again.                *)
(*                                                                         *)
(* None of this is inductive alone.  Frames are apart because each ends at *)
(* or before the place where the loop goes on, and the fields that place a *)
(* frame are numbers of 32 bits only where they are read inside the        *)
(* transfer; FramingInv adds both.  That all frames are found needs where  *)
(* the iterator is among the messages of the transfer (RoundInv).          *)
(***************************************************************************)
EXTENDS RndisFraming, SequenceTheorems, TLAPS

FrameRecord ==
  [msg : Nat, len : Nat, wrapped : BOOLEAN, start : Nat, end : Nat]

\* Frames found so far lie before the next message.
FoundBehind == \A i \in DOMAIN found : found[i].end <= offset

FramingInv == FramingTypeOK /\ FramesWellPlaced /\ FoundBehind

-----------------------------------------------------------------------------
(* The fields of a message *)

\* A message that follows is at least the two fields that tell so (rndis.rs:276-280).
LEMMA MessageIsRead ==
  ASSUME FramingTypeOK, MessageFollows
  PROVE  /\ MsgLen \in Nat /\ MsgLen > 0
         /\ offset + MsgLen \in 0..Len(data)
BY FramingAssumption, SMT DEF FramingTypeOK, MessageFollows, MsgLen, Field, Word

\* All fields of a data packet are in the transfer, as its length covers the
\* header (rndis.rs:293).
LEMMA FieldsAreRead ==
  ASSUME FramingTypeOK, MessageFollows, MsgLen >= Header
  PROVE  DataOffset \in Word /\ DataLen \in Word
<1>1. offset + 3 \in DOMAIN data /\ offset + 4 \in DOMAIN data
  BY MessageIsRead, FramingAssumption DEF FramingTypeOK, Header
<1> QED
  BY <1>1 DEF FramingTypeOK, DataOffset, DataLen, Field

\* The sum of 32 bits is a place in the transfer or before it, wrapped or not
\* (rndis.rs:304).
LEMMA StartIsNat ==
  ASSUME DataOffset \in Word
  PROVE  /\ DataStart \in Nat
         /\ ~Overflows => DataStart = Pre + DataOffset
BY FramingAssumption DEF Word, Overflows, DataStart

-----------------------------------------------------------------------------
(* The invariant *)

\* The end of a frame found is a number.
LEMMA FoundEndIsNat ==
  ASSUME FramingTypeOK, NEW i \in DOMAIN found
  PROVE  found[i].end \in Nat
<1>1. found \in Seq(FrameRecord)
  BY DEF FramingTypeOK, FrameRecord
<1>2. i \in 1..Len(found)
  BY <1>1
<1>3. found[i] \in FrameRecord
  BY <1>1, <1>2, ElementOfSeq
<1> QED
  BY <1>3 DEF FrameRecord

\* Nothing is found before the first turn (rndis.rs:266).
LEMMA FramingInvInit == FramingInit => FramingInv
BY FramingAssumption
DEF FramingInit, FramingInv, FramingTypeOK, FramesWellPlaced, FramesInsideMessage,
    FramesDisjoint, HeaderExcluded, FoundBehind, data

\* The frame that Return adds.
NewFrame ==
  [msg   |-> offset, len |-> MsgLen, wrapped |-> Overflows,
   start |-> offset + DataStart, end |-> offset + DataEnd]

LEMMA NewFrameWellPlaced ==
  ASSUME FramingInv, Return
  PROVE  /\ NewFrame \in FrameRecord
         /\ offset <= NewFrame.start
         /\ NewFrame.start < NewFrame.end
         /\ NewFrame.end <= offset + MsgLen
         /\ ~NewFrame.wrapped => offset + Header <= NewFrame.start
<1>1. FramingTypeOK /\ MessageFollows /\ CarriesFrame /\ Fits
  BY DEF FramingInv, Return
<1>2. MsgLen \in Nat /\ DataOffset \in Word /\ DataLen \in Word
  BY <1>1, MessageIsRead, FieldsAreRead DEF CarriesFrame
<1>3. /\ DataStart \in Nat
      /\ ~Overflows => DataStart = Pre + DataOffset
  BY <1>2, StartIsNat
<1>4. DataLen \in Nat /\ DataLen > 0 /\ DataOffset \in Nat /\ DataOffset >= MinOffset
  BY <1>1, <1>2, FramingAssumption DEF CarriesFrame, Word
<1>5. offset \in Nat
  BY <1>1 DEF FramingTypeOK
<1>6. DataEnd = DataStart + DataLen /\ DataEnd <= MsgLen
  BY <1>1 DEF DataEnd, Fits
<1>7. Overflows \in BOOLEAN
  BY DEF Overflows
<1>8. ~Overflows => offset + Header <= offset + DataStart
  BY <1>3, <1>4, <1>5, FramingAssumption DEF Header
<1> QED
  BY <1>2, <1>3, <1>4, <1>5, <1>6, <1>7, <1>8 DEF NewFrame, FrameRecord

\* A frame found: it is placed as NewFrame is, and behind all the others.
LEMMA ReturnKeeps == FramingInv /\ Return => FramingInv'
<1> SUFFICES ASSUME FramingInv, Return
             PROVE  FramingInv'
  OBVIOUS
<1>1. /\ offset' = offset + MsgLen
      /\ found' = Append(found, NewFrame)
      /\ UNCHANGED <<input, checked, state>>
  BY DEF Return, AfterMessage, NewFrame
<1>2. /\ MsgLen \in Nat
      /\ offset \in Nat
      /\ offset' \in 0..Len(data)
  BY <1>1, MessageIsRead DEF FramingInv, Return, FramingTypeOK
<1>3. found \in Seq(FrameRecord)
  BY DEF FramingInv, FramingTypeOK, FrameRecord
<1>4. FramingTypeOK'
  BY <1>1, <1>2, <1>3, NewFrameWellPlaced, AppendProperties
  DEF FramingInv, FramingTypeOK, FrameRecord, data
<1>5. /\ DOMAIN found' = DOMAIN found \cup {Len(found) + 1}
      /\ \A i \in DOMAIN found : found'[i] = found[i] /\ i < Len(found) + 1
      /\ found'[Len(found) + 1] = NewFrame
      /\ Len(found) + 1 \notin DOMAIN found
  <2>1. /\ Len(found') = Len(found) + 1
        /\ \A i \in 1..Len(found) : found'[i] = found[i]
        /\ found'[Len(found) + 1] = NewFrame
    BY <1>1, <1>3, NewFrameWellPlaced, AppendProperties
  <2>2. found' \in Seq(FrameRecord)
    BY <1>1, <1>3, NewFrameWellPlaced, AppendProperties
  <2> QED
    BY <1>3, <2>1, <2>2
<1>6. NewFrame.msg = offset /\ NewFrame.len = MsgLen
  BY DEF NewFrame
<1>7. FramesInsideMessage'
  BY <1>5, <1>6, NewFrameWellPlaced
  DEF FramingInv, FramesWellPlaced, FramesInsideMessage
<1>8. HeaderExcluded'
  BY <1>5, <1>6, NewFrameWellPlaced DEF FramingInv, FramesWellPlaced, HeaderExcluded
<1>9. FramesDisjoint'
  <2> SUFFICES ASSUME NEW i \in DOMAIN found', NEW j \in DOMAIN found', i < j
               PROVE  found'[i].end <= found'[j].start
    BY DEF FramesDisjoint
  <2>1. i \in DOMAIN found
    BY <1>3, <1>5
  <2>2. CASE j \in DOMAIN found
    BY <1>5, <2>1, <2>2 DEF FramingInv, FramesWellPlaced, FramesDisjoint
  <2>3. CASE j = Len(found) + 1
    <3>1. found[i].end <= offset /\ found[i].end \in Nat
      BY <2>1, FoundEndIsNat DEF FramingInv, FoundBehind
    <3>2. offset <= NewFrame.start /\ NewFrame.start \in Nat
      BY NewFrameWellPlaced DEF FrameRecord
    <3> QED
      BY <1>2, <1>5, <2>1, <2>3, <3>1, <3>2
  <2> QED
    BY <1>5, <2>2, <2>3
<1>10. FoundBehind'
  <2> SUFFICES ASSUME NEW i \in DOMAIN found'
               PROVE  found'[i].end <= offset'
    BY DEF FoundBehind
  <2>1. CASE i \in DOMAIN found
    <3>1. found[i].end <= offset /\ found[i].end \in Nat
      BY <2>1, FoundEndIsNat DEF FramingInv, FoundBehind
    <3> QED
      BY <1>1, <1>2, <1>5, <2>1, <3>1
  <2>2. CASE i = Len(found) + 1
    BY <1>1, <1>5, <2>2, NewFrameWellPlaced
  <2> QED
    BY <1>5, <2>1, <2>2
<1> QED
  BY <1>4, <1>7, <1>8, <1>9, <1>10 DEF FramingInv, FramesWellPlaced

\* A message without a frame moves the place where the loop goes on forward.
LEMMA SkipKeeps == FramingInv /\ Skip => FramingInv'
<1> SUFFICES ASSUME FramingInv, Skip
             PROVE  FramingInv'
  OBVIOUS
<1>1. offset' = offset + MsgLen /\ UNCHANGED <<input, checked, found, state>>
  BY DEF Skip
<1>2. MsgLen \in Nat /\ offset \in Nat /\ offset' \in 0..Len(data)
  BY <1>1, MessageIsRead DEF FramingInv, Skip, FramingTypeOK
<1>3. FramingTypeOK'
  BY <1>1, <1>2 DEF FramingInv, FramingTypeOK, data
<1>4. FramesWellPlaced'
  BY <1>1 DEF FramingInv, FramesWellPlaced, FramesInsideMessage, FramesDisjoint,
              HeaderExcluded
<1>5. FoundBehind'
  <2> SUFFICES ASSUME NEW i \in DOMAIN found
               PROVE  found[i].end <= offset'
    BY <1>1 DEF FoundBehind
  <2>1. found[i].end \in Nat /\ found[i].end <= offset
    BY FoundEndIsNat DEF FramingInv, FoundBehind
  <2> QED
    BY <1>1, <1>2, <2>1
<1> QED
  BY <1>3, <1>4, <1>5 DEF FramingInv

\* Every turn of the loop (rndis.rs:274-311) preserves it.
LEMMA FramingInvStep == FramingInv /\ [Turn]_vars => FramingInv'
<1> SUFFICES ASSUME FramingInv, [Turn]_vars
             PROVE  FramingInv'
  OBVIOUS
<1> USE DEF FramingInv, FramingTypeOK, FramesWellPlaced, FramesInsideMessage,
            FramesDisjoint, HeaderExcluded, FoundBehind, data
<1>1. CASE End
  BY <1>1 DEF End
<1>2. CASE Skip
  BY <1>2, SkipKeeps
<1>3. CASE Return
  BY <1>3, ReturnKeeps
<1>4. CASE Panic
  BY <1>4 DEF Panic
<1>5. CASE UNCHANGED vars
  BY <1>5 DEF vars
<1> QED
  BY <1>1, <1>2, <1>3, <1>4, <1>5 DEF Turn

\* FramingInv holds in every turn of the loop (rndis.rs:274).
THEOREM FramingInvariant == FramingSpec => []FramingInv
BY FramingInvInit, FramingInvStep, PTL DEF FramingSpec

-----------------------------------------------------------------------------
(* What was built is found *)

\* Where the cells of two pieces are when they are put together.
LEMMA Joined ==
  ASSUME NEW s \in Seq(Nat), NEW u \in Seq(Nat)
  PROVE  /\ s \o u \in Seq(Nat)
         /\ Len(s \o u) = Len(s) + Len(u)
         /\ \A i \in 1..Len(s) : (s \o u)[i] = s[i]
         /\ \A i \in 1..Len(u) : (s \o u)[Len(s) + i] = u[i]
OBVIOUS

\* The cells of a message that was built (rndis.rs:245-256).
LEMMA BuiltCells ==
  ASSUME NEW f \in Seq(Word)
  PROVE  /\ Len(f) \in Nat /\ Total(f) \in Nat /\ Total(f) = Header + Len(f)
         /\ Built(f) \in Seq(Nat) /\ Len(Built(f)) = Total(f)
         /\ Built(f)[1] = Packet /\ Built(f)[2] = Total(f)
         /\ Built(f)[3] = MinOffset /\ Built(f)[4] = Len(f)
         /\ \A i \in 1..Len(f) : Built(f)[Header + i] = f[i]
<1> DEFINE fields == <<Packet, Total(f), MinOffset, Len(f)>>
           zeros  == [i \in 1..(Header - 4) |-> 0]
<1>1. /\ Header \in Nat /\ Header >= 4 /\ Len(f) \in Nat
      /\ Total(f) = Header + Len(f) /\ f \in Seq(Nat)
  BY FramingAssumption DEF Header, Total, Word
<1>2. /\ fields \in Seq(Nat) /\ Len(fields) = 4
      /\ fields[1] = Packet /\ fields[2] = Total(f)
      /\ fields[3] = MinOffset /\ fields[4] = Len(f)
  BY <1>1, FramingAssumption DEF Packet
<1>3. zeros \in Seq(Nat) /\ Len(zeros) = Header - 4
  BY <1>1
<1>4. /\ fields \o zeros \in Seq(Nat) /\ Len(fields \o zeros) = Header
      /\ \A i \in 1..4 : (fields \o zeros)[i] = fields[i]
  <2> HIDE DEF fields, zeros
  <2>1. /\ fields \o zeros \in Seq(Nat)
        /\ Len(fields \o zeros) = Len(fields) + Len(zeros)
        /\ \A i \in 1..Len(fields) : (fields \o zeros)[i] = fields[i]
    BY <1>2, <1>3, Joined
  <2> QED
    BY <1>1, <1>2, <1>3, <2>1
<1> DEFINE head == fields \o zeros
<1>5. Built(f) = head \o f
  BY DEF Built
<1> HIDE DEF head
<1>6. /\ head \o f \in Seq(Nat)
      /\ Len(head \o f) = Len(head) + Len(f)
      /\ \A i \in 1..Len(head) : (head \o f)[i] = head[i]
      /\ \A i \in 1..Len(f) : (head \o f)[Len(head) + i] = f[i]
  BY <1>1, <1>4, Joined DEF head
<1>7. Len(head) = Header /\ \A i \in 1..4 : head[i] = fields[i]
  BY <1>4 DEF head
<1>8. \A i \in 1..4 : Built(f)[i] = fields[i]
  BY <1>1, <1>5, <1>6, <1>7
<1>9. \A i \in 1..Len(f) : Built(f)[Header + i] = f[i]
  BY <1>5, <1>6, <1>7, Zenon
<1>10. Built(f) \in Seq(Nat) /\ Len(Built(f)) = Total(f)
  <2>1. Built(f) \in Seq(Nat) /\ Len(Built(f)) = Header + Len(f)
    BY <1>5, <1>6, <1>7, Zenon
  <2> QED
    BY <1>1, <2>1
<1>11. /\ Built(f)[1] = Packet /\ Built(f)[2] = Total(f)
       /\ Built(f)[3] = MinOffset /\ Built(f)[4] = Len(f)
  BY <1>2, <1>8
<1>12. Total(f) \in Nat
  BY <1>1
<1> QED
  BY <1>1, <1>9, <1>10, <1>11, <1>12

\* The cells of the transfer under a message that was built.
LEMMA BuiltMessage ==
  ASSUME FramingTypeOK, NEW f \in Seq(Word), NEW b \in 0..Len(data),
         BuiltFrom(data, offset, b, f)
  PROVE  /\ b = offset + Total(f) /\ Len(f) > 0
         /\ \A i \in 1..Total(f) :
              offset + i \in DOMAIN data /\ data[offset + i] = Built(f)[i]
<1>1. /\ offset \in Nat /\ offset <= Len(data) /\ data \in Seq(Word)
      /\ Len(data) \in Nat
  BY DEF FramingTypeOK
<1>2. /\ Len(Built(f)) = Total(f) /\ Total(f) = Header + Len(f) /\ Len(f) \in Nat
      /\ Header \in Nat /\ Header > 0
  BY BuiltCells, FramingAssumption DEF Header
<1>3. Len(f) > 0
  BY <1>2 DEF BuiltFrom
<1> DEFINE s == SubSeq(data, offset + 1, b)
<1>4. s = Built(f)
  BY DEF BuiltFrom
<1>5. Len(s) = Total(f)
  BY <1>2, <1>4, Zenon
<1>6. b > offset
  <2>1. Total(f) # 0
    BY <1>2
  <2>2. b <= offset => Len(s) = 0
    BY <1>1
  <2>3. ~(b <= offset)
    BY <1>5, <2>1, <2>2, Zenon
  <2> QED
    BY <1>1, <2>3
<1>7. /\ Len(s) = b - offset
      /\ \A i \in 1..(b - offset) : s[i] = data[offset + i]
  BY <1>1, <1>6
<1> HIDE DEF s
<1>8. \A i \in 1..(b - offset) : Built(f)[i] = data[offset + i]
  BY <1>4, <1>7, Zenon
<1> QED
  BY <1>1, <1>2, <1>3, <1>5, <1>6, <1>7, <1>8

\* The iterator finds such a message, and its frame in it (rndis.rs:276-309).
LEMMA BuiltIsFound ==
  ASSUME FramingTypeOK, NEW f \in Seq(Word), NEW b \in 0..Len(data),
         BuiltFrom(data, offset, b, f)
  PROVE  /\ MessageFollows /\ CarriesFrame /\ Fits /\ ~Overflows
         /\ offset + MsgLen = b
         /\ SubSeq(data, offset + DataStart + 1, offset + DataEnd) = f
<1>1. /\ b = offset + Total(f) /\ Len(f) > 0
      /\ \A i \in 1..Total(f) :
           offset + i \in DOMAIN data /\ data[offset + i] = Built(f)[i]
  BY BuiltMessage
<1>2. /\ Total(f) = Header + Len(f) /\ Len(f) \in Nat
      /\ Header = Pre + MinOffset /\ Pre \in Nat /\ MinOffset \in Nat
      /\ Pre >= 2 /\ MinOffset >= 2
  BY BuiltCells, FramingAssumption DEF Header
<1>3. offset \in Nat /\ Len(data) \in Nat /\ data \in Seq(Word)
  BY DEF FramingTypeOK
<1>4. 1 \in 1..Total(f) /\ 2 \in 1..Total(f) /\ 3 \in 1..Total(f) /\ 4 \in 1..Total(f)
  BY <1>1, <1>2
<1>5. /\ Field(0) = Packet /\ MsgLen = Total(f)
      /\ DataOffset = MinOffset /\ DataLen = Len(f)
  <2>1. /\ Field(0) = data[offset + 1] /\ MsgLen = data[offset + 2]
        /\ DataOffset = data[offset + 3] /\ DataLen = data[offset + 4]
    BY <1>3 DEF Field, MsgLen, DataOffset, DataLen
  <2>2. /\ data[offset + 1] = Built(f)[1] /\ data[offset + 2] = Built(f)[2]
        /\ data[offset + 3] = Built(f)[3] /\ data[offset + 4] = Built(f)[4]
    BY <1>1, <1>4
  <2> QED
    BY <2>1, <2>2, BuiltCells
<1>6. MessageFollows
  BY <1>1, <1>2, <1>3, <1>5 DEF MessageFollows
<1>7. CarriesFrame
  BY <1>1, <1>2, <1>5 DEF CarriesFrame
<1>8. Total(f) < Modulus
  <2>1. MsgLen \in Word
    BY <1>1, <1>3, <1>4 DEF MsgLen, Field
  <2> QED
    BY <1>2, <1>5, <2>1, FramingAssumption DEF Word
<1>9. ~Overflows
  BY <1>1, <1>2, <1>5, <1>8, FramingAssumption DEF Overflows
<1>10. DataStart = Header /\ DataEnd = Total(f)
  BY <1>2, <1>5, <1>9 DEF DataStart, DataEnd
<1>11. Fits
  BY <1>2, <1>5, <1>10 DEF Fits
<1>12. SubSeq(data, offset + DataStart + 1, offset + DataEnd) = f
  <2> DEFINE s == SubSeq(data, offset + Header + 1, offset + Total(f))
  <2>1. /\ s \in Seq(Word) /\ Len(s) = Len(f)
        /\ \A i \in 1..Len(f) : s[i] = data[offset + (Header + i)]
    BY <1>1, <1>2, <1>3
  <2>2. \A i \in 1..Len(f) : data[offset + (Header + i)] = f[i]
    <3> TAKE i \in 1..Len(f)
    <3>1. Header + i \in 1..Total(f)
      BY <1>2
    <3>2. Built(f)[Header + i] = f[i]
      BY BuiltCells
    <3> QED
      BY <1>1, <3>1, <3>2
  <2> HIDE DEF s
  <2>3. s = f
    BY <2>1, <2>2
  <2> QED
    BY <1>10, <2>3 DEF s
<1> QED
  BY <1>1, <1>5, <1>6, <1>7, <1>9, <1>11, <1>12

\* A message without a frame is passed over (rndis.rs:286-303).
LEMMA OtherIsPassed ==
  ASSUME FramingTypeOK, NEW b \in 0..Len(data), OtherMessage(data, offset, b)
  PROVE  MessageFollows /\ ~CarriesFrame /\ offset + MsgLen = b
<1>1. /\ offset \in Nat /\ Len(data) \in Nat /\ b \in Nat /\ b <= Len(data)
      /\ offset + Pre <= b /\ Pre \in Nat /\ Pre >= 2
      /\ data[offset + 2] = b - offset
  BY FramingAssumption DEF FramingTypeOK, OtherMessage
<1>2. /\ Field(0) = data[offset + 1] /\ MsgLen = data[offset + 2]
      /\ DataOffset = data[offset + 3] /\ DataLen = data[offset + 4]
  BY <1>1 DEF Field, MsgLen, DataOffset, DataLen
<1>3. MsgLen = b - offset /\ MsgLen > 0
  BY <1>1, <1>2
<1>4. MessageFollows /\ offset + MsgLen = b
  BY <1>1, <1>3 DEF MessageFollows
<1>5. ASSUME CarriesFrame PROVE FALSE
  <2>1. DataOffset \in Word /\ DataLen \in Word
    BY <1>4, <1>5, FieldsAreRead DEF CarriesFrame
  <2>2. Header \in Nat /\ DataOffset \in Nat /\ DataLen \in Nat /\ MinOffset \in Nat
    BY <2>1, FramingAssumption DEF Word, Header
  <2> QED
    BY <1>1, <1>2, <1>3, <1>5, <2>2 DEF CarriesFrame, OtherMessage
<1> QED
  BY <1>4, <1>5

\* Frames found so far are the first of those the transfer was built from.
FoundAreFirst ==
  \A i \in DOMAIN found :
    SubSeq(data, found[i].start + 1, found[i].end) = input.frames[i]

\* The iterator is between two messages of the layout and has found as many frames
\* as are before it; it ends behind the last message.
InLayout(n, at, nth) ==
  \E k \in 0..n :
    /\ offset = at[k]
    /\ Len(found) = nth[k]
    /\ state = "end" => k = n

RoundInv ==
  input.frames # Unknown =>
    /\ FoundAreFirst
    /\ input.frames \in Seq(Seq(Word))
    /\ \E n \in 0..Len(data) :
         \E at \in [0..n -> 0..Len(data)], nth \in [0..n -> 0..Len(input.frames)] :
           Layout(input, n, at, nth) /\ InLayout(n, at, nth)

LEMMA RoundInit == FramingInit => RoundInv
<1> SUFFICES ASSUME FramingInit, input.frames # Unknown
             PROVE  RoundInv
  BY DEF RoundInv
<1>1. /\ input \in Inputs /\ offset = 0 /\ found = <<>> /\ state = "run"
      /\ Len(found) = 0 /\ DOMAIN found = {}
  BY DEF FramingInit
<1>2. FoundAreFirst
  BY <1>1 DEF FoundAreFirst
<1>3. input.frames \in Seq(Seq(Word))
  BY <1>1, OriginAssumption
<1>4. PICK n \in 0..Len(data) :
        \E at \in [0..n -> 0..Len(data)], nth \in [0..n -> 0..Len(input.frames)] :
          Layout(input, n, at, nth)
  BY <1>1, OriginAssumption DEF data
<1>5. PICK at \in [0..n -> 0..Len(data)], nth \in [0..n -> 0..Len(input.frames)] :
        Layout(input, n, at, nth)
  BY <1>4
<1>6. 0 \in 0..n /\ at[0] = 0 /\ nth[0] = 0
  BY <1>5, FramingAssumption, <1>1 DEF Layout, data
<1>7. InLayout(n, at, nth)
  BY <1>1, <1>6 DEF InLayout
<1> QED
  BY <1>2, <1>3, <1>5, <1>7 DEF RoundInv

\* A list of frames with one more
LEMMA Longer ==
  ASSUME NEW s \in Seq(FrameRecord), NEW e \in FrameRecord
  PROVE  /\ Len(Append(s, e)) = Len(s) + 1
         /\ DOMAIN Append(s, e) = DOMAIN s \cup {Len(s) + 1}
         /\ \A i \in DOMAIN s : Append(s, e)[i] = s[i]
         /\ Append(s, e)[Len(s) + 1] = e
OBVIOUS

\* What the layout says of the next message: Return finds its frame, Skip passes
\* it over, and the loop does not end before it.
LEMMA RoundTurn ==
  ASSUME FramingInv, Turn, FoundAreFirst, input.frames \in Seq(Seq(Word)),
         NEW n \in 0..Len(data),
         NEW at \in [0..n -> 0..Len(data)],
         NEW nth \in [0..n -> 0..Len(input.frames)],
         Layout(input, n, at, nth), InLayout(n, at, nth)
  PROVE  FoundAreFirst' /\ InLayout(n, at, nth)'
<1>1. /\ FramingTypeOK /\ Len(data) \in Nat /\ n \in Nat
      /\ data = input.data /\ state = "run" /\ input' = input /\ data' = data
  BY DEF FramingInv, FramingTypeOK, Turn, End, Skip, Return, Panic, data
<1>2. PICK k \in 0..n : offset = at[k] /\ Len(found) = nth[k]
  BY DEF InLayout
<1>3. CASE k = n
  <2>1. offset = Len(data)
    BY <1>1, <1>2, <1>3 DEF Layout
  <2>2. ~MessageFollows
    BY <1>1, <2>1, FramingAssumption DEF MessageFollows
  <2>3. offset' = offset /\ found' = found
    BY <2>2 DEF Turn, End, Skip, Return, Panic
  <2> QED
    BY <1>1, <1>2, <1>3, <2>3 DEF FoundAreFirst, InLayout
<1>4. CASE k # n
  <2> DEFINE b == at[k + 1]
             f == input.frames[nth[k + 1]]
  <2>1. /\ k \in 0..(n - 1) /\ k + 1 \in 0..n /\ b \in 0..Len(data)
        /\ nth[k] \in Nat
    BY <1>1, <1>4
  <2>2. CASE nth[k + 1] = nth[k] + 1 /\ BuiltFrom(data, offset, b, f)
    <3>1. nth[k + 1] \in 1..Len(input.frames) /\ f \in Seq(Word)
      <4>1. nth[k + 1] \in 0..Len(input.frames) /\ nth[k + 1] > 0
        BY <2>1, <2>2
      <4>2. nth[k + 1] \in 1..Len(input.frames)
        BY <4>1
      <4> QED
        BY <4>2
    <3>2. /\ MessageFollows /\ CarriesFrame /\ Fits /\ ~Overflows
          /\ offset + MsgLen = b
          /\ SubSeq(data, offset + DataStart + 1, offset + DataEnd) = f
      BY <1>1, <2>1, <2>2, <3>1, BuiltIsFound
    <3>3. Return
      BY <3>2 DEF Turn, End, Skip, Panic
    <3>4. offset' = b /\ found' = Append(found, NewFrame) /\ state' = "run"
      BY <1>1, <3>2, <3>3 DEF Return, AfterMessage, NewFrame
    <3>5. found \in Seq(FrameRecord) /\ NewFrame \in FrameRecord
      BY <1>1, <3>3, NewFrameWellPlaced DEF FramingTypeOK, FrameRecord
    <3>6. /\ Len(found') = nth[k + 1]
          /\ DOMAIN found' = DOMAIN found \cup {nth[k + 1]}
          /\ \A i \in DOMAIN found : found'[i] = found[i]
          /\ found'[nth[k + 1]] = NewFrame
      <4>1. nth[k + 1] = Len(found) + 1
        BY <1>2, <2>2
      <4>2. /\ Len(found') = Len(found) + 1
            /\ DOMAIN found' = DOMAIN found \cup {Len(found) + 1}
            /\ \A i \in DOMAIN found : found'[i] = found[i]
            /\ found'[Len(found) + 1] = NewFrame
        BY <3>4, <3>5, Longer
      <4> QED
        BY <4>1, <4>2, Zenon
    <3>7. SubSeq(data, NewFrame.start + 1, NewFrame.end) = f
      BY <3>2 DEF NewFrame
    <3>8. FoundAreFirst'
      BY <1>1, <3>6, <3>7 DEF FoundAreFirst
    <3>9. InLayout(n, at, nth)'
      BY <2>1, <3>4, <3>6 DEF InLayout
    <3> QED
      BY <3>8, <3>9
  <2>3. CASE nth[k + 1] = nth[k] /\ OtherMessage(data, offset, b)
    <3>1. MessageFollows /\ ~CarriesFrame /\ offset + MsgLen = b
      BY <1>1, <2>1, <2>3, OtherIsPassed
    <3>2. offset' = b /\ found' = found /\ state' = "run"
      BY <1>1, <3>1 DEF Turn, End, Skip, Return, Panic
    <3> QED
      BY <1>1, <1>2, <2>1, <2>3, <3>2 DEF FoundAreFirst, InLayout
  <2> QED
    BY <1>1, <1>2, <2>1, <2>2, <2>3 DEF Layout
<1> QED
  BY <1>3, <1>4

LEMMA RoundStep == FramingInv /\ RoundInv /\ [Turn]_vars => RoundInv'
<1> SUFFICES ASSUME FramingInv, RoundInv, [Turn]_vars
             PROVE  RoundInv'
  OBVIOUS
<1>1. CASE Turn
  <2>1. input' = input
    BY <1>1 DEF Turn, End, Skip, Return, Panic
  <2> SUFFICES ASSUME input.frames # Unknown
               PROVE  RoundInv'
    BY <2>1 DEF RoundInv
  <2>2. PICK n \in 0..Len(data) :
          \E at \in [0..n -> 0..Len(data)], nth \in [0..n -> 0..Len(input.frames)] :
            Layout(input, n, at, nth) /\ InLayout(n, at, nth)
    BY DEF RoundInv
  <2>3. PICK at \in [0..n -> 0..Len(data)], nth \in [0..n -> 0..Len(input.frames)] :
          Layout(input, n, at, nth) /\ InLayout(n, at, nth)
    BY <2>2
  <2>4. FoundAreFirst /\ input.frames \in Seq(Seq(Word))
    BY DEF RoundInv
  <2>5. FoundAreFirst' /\ InLayout(n, at, nth)'
    BY <1>1, <2>3, <2>4, RoundTurn
  <2> QED
    BY <2>1, <2>3, <2>4, <2>5 DEF RoundInv, data
<1>2. CASE UNCHANGED vars
  <2>1. /\ input' = input /\ offset' = offset /\ found' = found /\ state' = state
        /\ data' = data
    BY <1>2 DEF vars, data
  <2>2. FoundAreFirst' <=> FoundAreFirst
    BY <2>1 DEF FoundAreFirst
  <2>3. \A n, at, nth : InLayout(n, at, nth)' <=> InLayout(n, at, nth)
    BY <2>1 DEF InLayout
  <2> QED
    BY <2>1, <2>2, <2>3, Zenon DEF RoundInv
<1> QED
  BY <1>1, <1>2

-----------------------------------------------------------------------------
(* The theorems *)

\* The iterator's place is always in the transfer or at its end, so no field is
\* read behind it (rndis.rs:276-299).
THEOREM FramingTypeCorrect == FramingSpec => []FramingTypeOK
<1>1. FramingInv => FramingTypeOK
  BY DEF FramingInv
<1> QED
  BY <1>1, FramingInvariant, PTL

\* For every size of the fields and the header and every transfer: frames lie in
\* their messages, share no byte, and are behind their headers where the sum
\* did not wrap (rndis.rs:301-309).
THEOREM FramesAreWellPlaced == FramingSpec => []FramesWellPlaced
<1>1. FramingInv => FramesWellPlaced
  BY DEF FramingInv
<1> QED
  BY <1>1, FramingInvariant, PTL

\* What build_data_packet puts into a transfer RndisPacketIter finds again, every
\* frame and in order, whatever other messages there are (rndis.rs:235, 274).
THEOREM BuiltFramesAreFound == FramingSpec => []RoundTrip
<1>1. FramingInit => FramingInv /\ RoundInv
  BY FramingInvInit, RoundInit
<1>2. FramingInv /\ RoundInv /\ [Turn]_vars => (FramingInv /\ RoundInv)'
  BY FramingInvStep, RoundStep
<1>3. RoundInv => RoundTrip
  <2> SUFFICES ASSUME RoundInv, state = "end", input.frames # Unknown
               PROVE  /\ Len(found) = Len(input.frames)
                      /\ FoundAreFirst
    BY DEF RoundTrip, FoundAreFirst
  <2>1. PICK n \in 0..Len(data) :
          \E at \in [0..n -> 0..Len(data)], nth \in [0..n -> 0..Len(input.frames)] :
            Layout(input, n, at, nth) /\ InLayout(n, at, nth)
    BY DEF RoundInv
  <2>2. PICK at \in [0..n -> 0..Len(data)], nth \in [0..n -> 0..Len(input.frames)] :
          Layout(input, n, at, nth) /\ InLayout(n, at, nth)
    BY <2>1
  <2>3. Len(found) = nth[n]
    BY <2>2 DEF InLayout
  <2> QED
    BY <2>2, <2>3 DEF RoundInv, Layout
<1> QED
  BY <1>1, <1>2, <1>3, PTL DEF FramingSpec
=============================================================================
