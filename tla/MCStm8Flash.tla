---------------------------- MODULE MCStm8Flash ----------------------------
(***************************************************************************)
(* Stm8Flash for TLC: sixteen cells in blocks of four, the last block for  *)
(* option bytes, the third protected; C addresses are one bit wider than   *)
(* those on the wire.                                                      *)
(***************************************************************************)
EXTENDS Stm8Flash

New == 2
MCProtected == 8 .. 11
\* Up to a boundary, across one, into the protected block, nothing, an address
\* the wire truncates, and an overflow of the C addition.
MCErase == {<<1, 3>>, <<2, 4>>, <<6, 4>>, <<0, 0>>, <<17, 2>>, <<20, 15>>}
MCWrite == {<<1, <<New, Erased, New>>>>, <<7, <<New, New>>>>, <<2, <<Erased>>>>}
MCOption == {<<12, New>>, <<11, New>>}

WrapErase == {<<26, 3>>}
NoRequests == {}
=============================================================================
