--------------------------- MODULE MCRecordLayer ---------------------------
(* Instances of RecordLayer for TLC.                                       *)
EXTENDS RecordLayer

\* The copy loops read with buffers as long as the ones they write, which fit
\* into a frame, and stop at the first error.
CopyLoop(k) == [kind |-> k, writes |-> {1, 2}, buf |-> 2, again |-> FALSE]

\* Other callers write more than a frame, read with less, and try again.
AnyCaller(k, b) == [kind |-> k, writes |-> {1, 2, 4}, buf |-> b, again |-> TRUE]

MCSetups ==
  {CopyLoop(k) : k \in Kind}
    \cup {AnyCaller(k, b) : k \in {"noisesocket", "whatsapp"}, b \in 1..3}
    \cup {[AnyCaller("raw", b) EXCEPT !.again = FALSE] : b \in {1, 3}}

\* A writer of the raw transport whose frames do not fit the reader's buffer.
MCLargeWrites == {[kind |-> "raw", writes |-> {3}, buf |-> 2, again |-> FALSE]}
=============================================================================
