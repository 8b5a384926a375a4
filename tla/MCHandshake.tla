---------------------------- MODULE MCHandshake ----------------------------
(* Instances of Handshake for TLC.                                         *)
EXTENDS Handshake

Intermediate(valid, issuer, by) ==
  [key |-> Signer("intermediate"), serial |-> 1, issuer |-> issuer,
   valid |-> valid, by |-> Signer(by)]
Leaf(key, valid, issuer, by) ==
  [key |-> key, serial |-> 2, issuer |-> issuer, valid |-> valid, by |-> Signer(by)]

\* The right chain, chains that are wrong in one place, and none.
Good == [ intermediate |-> Intermediate(TRUE, 0, "root"),
          leaf |-> Leaf(Static("responder"), TRUE, 1, "intermediate") ]
MCChains ==
  {Good, Empty}
    \cup {[Good EXCEPT !.intermediate = i] :
            i \in {Intermediate(FALSE, 0, "root"), Intermediate(TRUE, 1, "root"),
                   Intermediate(TRUE, 0, "other")}}
    \cup {[Good EXCEPT !.leaf = l] :
            l \in {Leaf(Stranger, TRUE, 1, "intermediate"),
                   Leaf(Static("responder"), FALSE, 1, "intermediate"),
                   Leaf(Static("responder"), TRUE, 0, "intermediate"),
                   Leaf(Static("responder"), TRUE, 1, "root")}}

MCSetups ==
  [proto : {"bolt8"}, rstatic : {Static("responder"), Stranger}, payload : {Empty}]
    \cup [proto : {"peer"}, payload : {Empty}]
    \cup [proto : {"backend"}, payload : MCChains]
=============================================================================
