------------------------------ MODULE MCCrypto ------------------------------
(***************************************************************************)
(* A small instance of CryptoFlow for TLC.  The units are pairwise         *)
(* distinct, so that a misplaced one shows.  int has eight bits, so that   *)
(* lengths of two bytes wrap as those of four and eight do in the program. *)
(***************************************************************************)
EXTENDS CryptoFlow

FourUnits == <<"ch_head", "ch_tail", "cert", "ske">>

OneDatagram ==
  [len |-> 60, long |-> TRUE, type |-> "initial", version |-> "supported", dcid |-> 8, scid |-> 0,
   tokenSize |-> 1, token |-> 0, lengthSize |-> 2, length |-> 42, pn |-> 2, sealed |-> TRUE]

\* Lengths of the datagram around the ends of its fields, IDs and lengths at
\* their limits, and values that do not fit into an int or into the datagram.
StrangeDatagrams ==
  {[OneDatagram EXCEPT !.len = len, !.sealed = FALSE, !.length = length, !.token = token, !.pn = pn] :
     len \in {18, 38, 60}, length \in {0, 42, 43, 200, 298}, token \in {0, 42, 130}, pn \in {1, 4}}
  \cup {[OneDatagram EXCEPT !.len = len, !.sealed = FALSE, !.dcid = dcid, !.scid = scid] :
     len \in {6, 7, 15, 60}, dcid \in {0, 20, 21}, scid \in {0, 255}}
  \cup {[OneDatagram EXCEPT !.sealed = FALSE, !.long = FALSE]}
  \cup {[OneDatagram EXCEPT !.sealed = FALSE, !.type = t] : t \in {"retry", "handshake"}}
  \cup {[OneDatagram EXCEPT !.sealed = FALSE, !.version = v] : v \in {"negotiation", "other"}}

=============================================================================
