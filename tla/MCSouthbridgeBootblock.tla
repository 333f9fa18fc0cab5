----------------------- MODULE MCSouthbridgeBootblock -----------------------
(***************************************************************************)
(* A small instance of SouthbridgeBootblock for TLC.                       *)
(***************************************************************************)
EXTENDS SouthbridgeBootblock

(* DEFAULT_RCBA = 0xfed1c000 on the ICH10 boards, low byte first.          *)
MCDefaultRcba == <<0, 192, 209, 254>>

(* TSC values whose bytes all differ, and one with a zero high half.       *)
MCTscValues ==
    { [lo |-> <<1, 2, 3, 4>>, hi |-> <<5, 6, 7, 8>>],
      [lo |-> <<255, 0, 128, 9>>, hi |-> <<0, 0, 0, 0>>],
      [lo |-> <<12, 13, 14, 15>>, hi |-> <<16, 17, 18, 19>>] }

(* Reset contents: BIOS_CNTL with every value of bits 3:2 and some of the  *)
(* other bits, every other byte all zeros or all ones.                     *)
MCInitCfg ==
    { [a \in Addr |-> IF a = <<Lpc, 220>> THEN bc ELSE other] :
        bc \in {0, 4, 8, 12, 85, 255}, other \in {0, 255} }
=============================================================================
