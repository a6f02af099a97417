----------------------------- MODULE MCSwimLink -----------------------------
(***************************************************************************)
(* SwimLink for TLC: eight cells, chunks of two bytes, C addresses one bit *)
(* wider than those on the wire.                                           *)
(***************************************************************************)
EXTENDS SwimLink

\* No data, one chunk, several, an address the wire truncates, the last cell
\* and the first.
MCRequests ==
  [op : {"write"}, addr : {1}, data : {<<>>, <<1, 2>>, <<2, 1, 2>>}] \cup
  [op : {"write"}, addr : {14}, data : {<<2, 2, 1>>}] \cup
  [op : {"read"}, addr : {0, 7}, data : {<<0>>, <<0, 0, 0, 0, 0>>}]
MCFirst == [c \in Cells |-> 0]
=============================================================================
