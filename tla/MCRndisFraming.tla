--------------------------- MODULE MCRndisFraming ---------------------------
(***************************************************************************)
(* RndisFraming for TLC: two messages in a transfer, each a frame that was *)
(* built, an indication, or a header with any length, data offset and data *)
(* length; and every transfer of one such message cut short.               *)
(***************************************************************************)
EXTENDS RndisFraming

MCModulus == 8
MCWord == 0..7

\* Frames are of one cell or two; a header has four.
Frames == {<<6>>, <<7, 5>>}

FromFrame(f) == [data |-> Built(f), frames |-> <<f>>]

\* A message of another type, an indication, and an empty one.
Others == {<<2, 4, 2, 1>>, <<1, 5, 0, 0, 0>>, <<3, 2>>}

Whole ==
  {FromFrame(f) : f \in Frames} \cup {[data |-> m, frames |-> <<>>] : m \in Others}

\* Any length, data offset and data length.
Wild ==
  {[data |-> <<t, l, o, n, 6, 7>>, frames |-> Unknown] :
     t \in {1, 2}, l \in MCWord, o \in MCWord, n \in MCWord}

Two(a, b) ==
  [data |-> a.data \o b.data,
   frames |-> IF Unknown \in {a.frames, b.frames} THEN Unknown ELSE a.frames \o b.frames]

Cut(a, n) == [data |-> SubSeq(a.data, 1, n), frames |-> Unknown]

MCInputs ==
  {Two(a, b) : a \in Whole, b \in Whole \cup Wild}
    \cup {Two(a, b) : a \in Wild, b \in Whole}
    \cup {Cut(a, n) : a \in Wild, n \in 0..6}
=============================================================================
