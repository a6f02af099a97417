----------------------------- MODULE MCPioWire -----------------------------
(***************************************************************************)
(* PioWire for TLC: the entry waveform, which ends low; the communication  *)
(* reset; a frame answered by one pulse; a frame answered by two bits.     *)
(* Targets answer, answer in part, too long, about when the CPU gives up,  *)
(* or not at all.                                                          *)
(***************************************************************************)
EXTENDS PioWire

L(n) == [level |-> 1, ticks |-> n]
R(n) == [level |-> 0, ticks |-> n]
X(kind, segs, d, bits, limit, ans) ==
  [kind |-> kind, segs |-> segs, div |-> d, bits |-> bits, limit |-> limit,
   answer |-> ans]

Entry == <<R(9), L(10), R(9), L(9)>>
MCExchanges ==
  {X("emit", Entry, 2, 1, 1, << >>)}
  \cup {X("capture", <<R(9), L(9)>>, 2, 1, 7, <<16, 9>>)}
  \cup {X("tick capture", <<L(10)>>, 3, 1, 7, a) : a \in {<< >>, <<16, 17>>}}
  \cup {X("tick capture", <<R(9), L(9), R(10)>>, 2, 1, 7, a) :
          a \in {<< >>, <<8, 5, 9, 3>>, <<54, 6>>}}
  \cup {X("decode", <<L(9), R(9)>>, 2, 2, 3, a) :
          a \in {<<8, 4>>, <<8, 4, 8, 8>>, <<8, 9, 10, 7>>, <<30, 4, 8, 8>>}}
MCRises == {2, 6}
=============================================================================
