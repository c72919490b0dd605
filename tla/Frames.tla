------------------------------- MODULE Frames -------------------------------
(***************************************************************************)
(* The answer stream as the chat screen reads it.  The server writes one   *)
(* frame per event, a line with its name, a line with its data and a blank *)
(* line; the network hands the reader pieces that end anywhere.  A         *)
(* character is a number, of which only the line end matters.              *)
(***************************************************************************)
EXTENDS Integers, Sequences, SequencesExt

CONSTANT LineEnd

ASSUME LineEndAssumption == LineEnd \in Nat

\* Where the first blank line of text begins, 0 without one.
Boundary(text) ==
  LET at == {i \in 1 .. Len(text) - 1 : text[i] = LineEnd /\ text[i + 1] = LineEnd}
  IN  IF at = {} THEN 0 ELSE CHOOSE i \in at : \A j \in at : i <= j

\* A frame without data is passed over.
Handled(frame) == IF frame = <<>> THEN <<>> ELSE <<frame>>

\* What is dispatched of the head of the buffer, and what is left of it.
Split[text \in Seq(Nat)] ==
  LET b == Boundary(text)
      rest == Split[SubSeq(text, b + 2, Len(text))]
  IN  IF b = 0 THEN [frames |-> <<>>, buffer |-> text]
      ELSE [frames |-> Handled(SubSeq(text, 1, b - 1)) \o rest.frames, buffer |-> rest.buffer]

\* One piece read: whole frames go to their handlers, a partial one stays buffered.
Piece(state, piece) ==
  LET cut == Split[state.buffer \o piece]
  IN  [frames |-> state.frames \o cut.frames, buffer |-> cut.buffer]

ConsumeSse(pieces) ==
  FoldLeft(Piece, [frames |-> <<>>, buffer |-> <<>>], pieces)

-----------------------------------------------------------------------------
\* A frame as the server writes one: no blank line comes before the one that ends it.
IsFrame(frame) == Boundary(frame \o <<LineEnd, LineEnd>>) = Len(frame) + 1

\* Frames come out as the server wrote them wherever the network cuts the
\* stream; of a stream that breaks off, the whole frames before the break
\* (client.ts:337-353).
FramesArriveWhole(frames, tail, pieces) ==
  LET text == FlattenSeq([i \in DOMAIN frames |-> frames[i] \o <<LineEnd, LineEnd>>]) \o tail
  IN  FlattenSeq(pieces) = text =>
        ConsumeSse(pieces) =
          [frames |-> FlattenSeq([i \in DOMAIN frames |-> Handled(frames[i])]), buffer |-> tail]
=============================================================================
