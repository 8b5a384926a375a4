---------------------------- MODULE SecureStream ----------------------------
(***************************************************************************)
(* What a net.Conn of this program promises of one direction, whatever its *)
(* transport: the reader is given a prefix of the bytes that Write has     *)
(* accepted, in their order, and is told of the end of the stream only     *)
(* when it has been given all of them.  Bytes are known by their position. *)
(***************************************************************************)
EXTENDS Naturals, Sequences

CONSTANT MaxBytes  \* bound: bytes written

VARIABLES
  accepted,  \* bytes that Write has returned as written
  got,       \* the bytes that Read has returned
  closed,    \* the writer has ended its stream
  end        \* how the reader's stream has ended

vars == <<accepted, got, closed, end>>

Bytes(lo, n) == [i \in 1..n |-> lo + i]

Init == accepted = 0 /\ got = <<>> /\ closed = FALSE /\ end = "none"

Accept ==
  /\ ~closed
  /\ accepted' \in accepted + 1 .. MaxBytes
  /\ UNCHANGED <<got, closed, end>>

CloseWrite == closed' = TRUE /\ UNCHANGED <<accepted, got, end>>

Deliver ==
  /\ end = "none"
  /\ \E n \in Len(got) + 1 .. accepted : got' = Bytes(0, n)
  /\ UNCHANGED <<accepted, closed, end>>

EndOfStream ==
  /\ end = "none"
  /\ closed /\ Len(got) = accepted
  /\ end' = "eof"
  /\ UNCHANGED <<accepted, got, closed>>

Fail ==
  /\ end = "none"
  /\ end' = "error"
  /\ UNCHANGED <<accepted, got, closed>>

Next == Accept \/ CloseWrite \/ Deliver \/ EndOfStream \/ Fail

Spec == Init /\ [][Next]_vars
=============================================================================
