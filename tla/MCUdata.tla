-------------------------------- MODULE MCUdata --------------------------------
(* Udata with bytes of three bits: a length byte says up to seven.  A caller *)
(* that only puts attributes and opens nests.                                *)
EXTENDS Udata, TLC

MCSizes == {6, 13}
MCValues == { <<>>, <<5>>, <<1, 0>>, <<2, 1, 7>> }
===============================================================================
