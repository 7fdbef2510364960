---------------------------- MODULE EepromStoreMC ----------------------------
(* Pages of two cells: a record of one page, one of a page and a half, and *)
(* writes behind it that begin within a page and go beyond the memory or   *)
(* beyond the addresses.                                                   *)
EXTENDS EepromStore

CONSTANTS b0, b1

MCByte == {b0, b1}
MCBase == [dac |-> 0, bat |-> 2]
MCValues == [dac |-> {<<b1>>}, bat |-> {<<b1, b1>>, <<b0, b1>>}]
MCDefault == [dac |-> <<b0>>, bat |-> <<b0, b0>>]
MCRaw == {<<5, <<b1, Blank, Blank, b1>>>>, <<8, <<b0>>>>, <<6, <<>>>>, <<7, <<b0, b0, b0, b0>>>>}
=============================================================================
