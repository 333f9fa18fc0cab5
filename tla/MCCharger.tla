------------------------------ MODULE MCCharger ------------------------------
(* Charger with two register values. *)
EXTENDS Charger

MCValues == {1, 2}

MCOneValue == {1}

\* Any CONTROL1 value at boot.
MCAnyControl1 == SUBSET C1Bits

\* A charger found with learn mode set to exit by itself and the monitor off.
MCControl1AtBoot == {{LEARN_AUTOEXIT, DISABLE_MON}}
=============================================================================
