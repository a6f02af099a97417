----------------------------- MODULE MCHostFlow -----------------------------
(***************************************************************************)
(* HostFlow for TLC: two blocks of two bytes, a file that flashes through  *)
(* each kind of record, and files that must be refused.                    *)
(***************************************************************************)
EXTENDS HostFlow

Rec(t, a, d) == [type |-> t, good |-> TRUE, addr |-> a, data |-> d]
Data(a, d) == Rec(0, a, d)
Eof == Rec(1, 0, << >>)

Good ==
  { <<Data(9, <<1>>), Rec(5, 0, <<0, 0>>), Data(8, <<2, 1>>), Eof>>,
    <<Rec(4, 0, <<0, 2>>), Rec(2, 0, <<0, 2>>), Data(6, <<0, 1>>), Eof>>,
    <<Rec(2, 0, <<0, 3>>), Rec(4, 0, <<0, 1>>), Data(2, <<1, 0>>), Eof>>,
    <<Eof>> }
Bad ==
  { << >>, <<Data(8, <<1>>)>>,                                  \* no EOF
    <<Eof, Data(8, <<1>>)>>,                                    \* data after EOF
    <<Data(8, <<1, 2>>), Data(9, <<1>>), Eof>>,                 \* conflict
    <<Data(11, <<1, 1>>), Eof>>, <<Data(7, <<1>>), Eof>>,       \* outside
    <<Data(8, <<1>>), Rec(2, 0, <<1>>), Eof>>,                  \* short base
    <<Data(8, <<1>>), Rec(6, 0, << >>), Eof>>,                  \* unknown type
    <<Data(8, <<1>>), Rec(1, 0, <<0>>)>>,                       \* EOF with data
    <<[Data(8, <<1>>) EXCEPT !.good = FALSE], Eof>> }           \* checksum

MCFiles == Good \cup Bad
Cmd(k) == [kind |-> k]
MCCommands ==
  {Cmd(k) : k \in Kinds \ {"flash", "set-rop", "unprotect-rop"}}
  \cup {[kind |-> "flash", file |-> f, verify |-> v, reset |-> v] :
          f \in MCFiles, v \in BOOLEAN}
  \cup {[kind |-> k, confirmed |-> c] :
          k \in {"set-rop", "unprotect-rop"}, c \in BOOLEAN}
MCFresh == [a \in Flash |-> 3]
=============================================================================
