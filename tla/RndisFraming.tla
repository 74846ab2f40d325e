---------------------------- MODULE RndisFraming ----------------------------
(***************************************************************************)
(* Ethernet frames in USB transfers: build_data_packet (rndis.rs:235) and  *)
(* RndisPacketIter (rndis.rs:260), which finds the frames again.           *)
(*                                                                         *)
(* A transfer is a sequence of cells and a field is one cell: the message  *)
(* type, the length of the message, the offset of the frame (counted from  *)
(* the end of the first Pre cells) and its length.  In the program a cell  *)
(* of the header is 4 bytes wide, Pre is 8, MinOffset 36, and Modulus 2^32. *)
(***************************************************************************)
EXTENDS Naturals, Sequences

CONSTANTS
  Modulus,    \* number of values of a field
  Pre,        \* size of the type and length fields (8)
  MinOffset,  \* smallest data offset: from there to the end of the header (36)
  Inputs      \* transfers: [data |-> cells, frames |-> what they were built
              \* from, or Unknown]

Word == 0..(Modulus - 1)

\* RNDIS_MSG_PACKET
Packet == 1
Unknown == <<"unknown">>

ASSUME FramingAssumption ==
  /\ Modulus \in Nat
  /\ Pre \in Nat /\ Pre >= 2 /\ Pre < Modulus
  /\ MinOffset \in Nat /\ MinOffset >= 2
  /\ \A t \in Inputs : t.data \in Seq(Word)

\* Size of the header (44)
Header == Pre + MinOffset

\* Seeded fault: the length field leaves the header out.
TotalOfFrame(frame) == Len(frame)

Total(frame) == Header + Len(frame)

\* build_data_packet, for a buffer that is large enough.
Built(frame) ==
  <<Packet, Total(frame), MinOffset, Len(frame)>>
    \o [i \in 1..(Header - 4) |-> 0] \o frame

\* The cells of d behind the first a, up to b, are what was built from frame.
BuiltFrom(d, a, b, frame) == frame # <<>> /\ SubSeq(d, a + 1, b) = Built(frame)

\* They are a message without a frame: too short, of another type, an
\* indication, or empty.
OtherMessage(d, a, b) ==
  /\ a + Pre <= b
  /\ d[a + 2] = b - a
  /\ \/ b - a < Header
     \/ d[a + 1] # Packet
     \/ d[a + 3] < MinOffset
     \/ d[a + 4] = 0

\* Transfer t is n messages: at[k] cells and nth[k] frames are in the first k.
Layout(t, n, at, nth) ==
  /\ at[0] = 0 /\ at[n] = Len(t.data)
  /\ nth[0] = 0 /\ nth[n] = Len(t.frames)
  /\ \A k \in 0..(n - 1) :
       \/ /\ nth[k + 1] = nth[k] + 1
          /\ BuiltFrom(t.data, at[k], at[k + 1], t.frames[nth[k + 1]])
       \/ /\ nth[k + 1] = nth[k]
          /\ OtherMessage(t.data, at[k], at[k + 1])

\* A transfer of known origin is the messages built from its frames, with others
\* before, between and behind them.
ASSUME OriginAssumption ==
  \A t \in Inputs : t.frames # Unknown =>
    /\ t.frames \in Seq(Seq(Word))
    /\ \E n \in 0..Len(t.data) :
         \E at \in [0..n -> 0..Len(t.data)], nth \in [0..n -> 0..Len(t.frames)] :
           Layout(t, n, at, nth)

VARIABLES
  input,    \* the transfer and its origin
  checked,  \* the build has overflow checks
  offset,   \* self.offset
  found,    \* frames returned: where each lies, and in which message
  state     \* "run", "end" (None was returned), "panic"

vars == <<input, checked, offset, found, state>>

data == input.data

FramingInit ==
  /\ input \in Inputs
  /\ checked \in BOOLEAN
  /\ offset = 0
  /\ found = <<>>
  /\ state = "run"

\* read_u32, of field i of the message at offset
Field(i) == data[offset + i + 1]

MsgLen == Field(1)
DataOffset == Field(2)
DataLen == Field(3)

\* Seeded fault: a length of zero is not looked for.
MessageFollowsAnyLength ==
  /\ offset + Pre <= Len(data)
  /\ offset + MsgLen <= Len(data)

\* There is a message at offset, and all of it is there.
MessageFollows ==
  /\ offset + Pre <= Len(data)
  /\ MsgLen # 0
  /\ offset + MsgLen <= Len(data)

End ==
  /\ ~MessageFollows
  /\ state' = "end"
  /\ UNCHANGED <<input, checked, offset, found>>

\* A data packet: an indication has the same type and is told by these fields.
CarriesFrame ==
  /\ MsgLen >= Header
  /\ Field(0) = Packet
  /\ DataOffset >= MinOffset
  /\ DataLen > 0

Overflows == Pre + DataOffset >= Modulus

\* (8 + dp_data_offset) as usize: 32 bits
DataStart == IF Overflows THEN Pre + DataOffset - Modulus ELSE Pre + DataOffset

\* The end of the frame is added in 64 bits.
DataEnd == DataStart + DataLen

\* Seeded fault: the frame may reach into the next message.
FitsTransfer == offset + DataEnd <= Len(data)

Fits == DataEnd <= MsgLen

Skip ==
  /\ MessageFollows
  /\ ~(CarriesFrame /\ (Fits \/ (checked /\ Overflows)))
  /\ offset' = offset + MsgLen
  /\ UNCHANGED <<input, checked, found, state>>

\* Seeded fault: messages are taken to be aligned.
AfterMessageAligned == (offset + MsgLen) + (MsgLen % 2)

AfterMessage == offset + MsgLen

Return ==
  /\ MessageFollows
  /\ CarriesFrame
  /\ ~(checked /\ Overflows)
  /\ Fits
  /\ offset' = AfterMessage
  /\ found' = Append(found,
       [msg   |-> offset, len |-> MsgLen, wrapped |-> Overflows,
        start |-> offset + DataStart, end |-> offset + DataEnd])
  /\ UNCHANGED <<input, checked, state>>

\* The addition panics in a build with overflow checks.
Panic ==
  /\ MessageFollows
  /\ CarriesFrame
  /\ checked /\ Overflows
  /\ state' = "panic"
  /\ UNCHANGED <<input, checked, offset, found>>

\* One turn of the loop of next(); its caller goes on until it returns None.
Turn == state = "run" /\ (End \/ Skip \/ Return \/ Panic)

FramingSpec == FramingInit /\ [][Turn]_vars /\ WF_vars(Turn)

-----------------------------------------------------------------------------
(* Properties *)

FramingTypeOK ==
  /\ data \in Seq(Word)
  /\ checked \in BOOLEAN
  /\ offset \in 0..Len(data)
  /\ found \in Seq([msg : Nat, len : Nat, wrapped : BOOLEAN, start : Nat, end : Nat])
  /\ state \in {"run", "end", "panic"}

\* Every frame lies inside the message it was found in, whatever a phone writes
\* into the fields and even when the sum at rndis.rs:304 wraps.
FramesInsideMessage ==
  \A i \in DOMAIN found :
    /\ found[i].msg <= found[i].start
    /\ found[i].start < found[i].end
    /\ found[i].end <= found[i].msg + found[i].len

\* Frames come in the order in which they lie in the transfer and share no byte.
FramesDisjoint ==
  \A i, j \in DOMAIN found : i < j => found[i].end <= found[j].start

\* A frame never contains bytes of its header, unless the sum at rndis.rs:304
\* wrapped: the check of DataOffset at line 301 does not exclude that.
HeaderExcluded ==
  \A i \in DOMAIN found :
    ~found[i].wrapped => found[i].msg + Header <= found[i].start

\* Where frames may lie (rndis.rs:301-309).
FramesWellPlaced == FramesInsideMessage /\ FramesDisjoint /\ HeaderExcluded

\* What was built is found: every frame, in order, with other messages between
\* them (rndis.rs:235, 274).
RoundTrip ==
  state = "end" /\ input.frames # Unknown =>
    /\ Len(found) = Len(input.frames)
    /\ \A i \in DOMAIN found :
         SubSeq(data, found[i].start + 1, found[i].end) = input.frames[i]

\* The loop ends, whatever the lengths say (rndis.rs:280).
IterationEnds == <>(state # "run")
=============================================================================
