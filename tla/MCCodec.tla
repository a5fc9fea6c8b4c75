------------------------------ MODULE MCCodec -------------------------------
(* Messages of every kind decode() tells apart, in frames of a few bytes.  *)
EXTENDS Codec

Plain == [name |-> 1, size |-> 0, zipSize |-> 0, known |-> TRUE, base |-> TRUE,
          parses |-> TRUE, marks |-> {}]

(* An empty message; one that is compressed, to bytes that look like a     *)
(* header; one that does not parse; one of another program; one that is    *)
(* too long.                                                               *)
MCMessages ==
    {Plain,
     [Plain EXCEPT !.size = 3, !.zipSize = 2, !.marks = {1}],
     [Plain EXCEPT !.size = 1, !.parses = FALSE],
     [Plain EXCEPT !.size = 1, !.known = FALSE, !.base = FALSE],
     [Plain EXCEPT !.size = 5, !.zipSize = 4]}
=============================================================================
