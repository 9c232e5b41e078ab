----------------------------- MODULE MessageBits -----------------------------
(***************************************************************************)
(* The payload of a frame as the set of the bits that are 1 in it, each as *)
(* <<index of its byte, number of the bit>>.  "& mask" is then an          *)
(* intersection, "|=" a union and "&= ~" a difference, and the value an    *)
(* attribute is computed from is the intersection of the payload with the  *)
(* bits its getter reads.                                                  *)
(*                                                                         *)
(* What message/<version>/ says of a kind of frame is three tables:        *)
(*   marks  pairs of byte indices and the attributes compareWith inserts   *)
(*          when one of these bytes differs,                               *)
(*   reads  the bits getAttr computes each attribute from,                 *)
(*   has    the attributes hasAttr answers true for.                       *)
(***************************************************************************)
EXTENDS Naturals

Bit == 0 .. 7

BitsOf == [n \in 0 .. 255 |-> { b \in Bit : (n \div 2^b) % 2 = 1 }]

Bytes(indices) == indices \X Bit

Mask(i, n) == {i} \X BitsOf[n]

\* data[i] & n
Masked(payload, i, n) == { b \in BitsOf[n] : <<i, b>> \in payload }

Payloads(length) == SUBSET Bytes(0 .. length - 1)

\* compareBuffers: the indices of the bytes that differ.
DiffIndices(p, q) == { bit[1] : bit \in (p \ q) \cup (q \ p) }

\* The loop over these indices in every compareWith.
Marked(marks, p, q) ==
    UNION { row[2] : row \in { r \in marks : r[1] \cap DiffIndices(p, q) # {} } }

=============================================================================
