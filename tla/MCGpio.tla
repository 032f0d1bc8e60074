------------------------------- MODULE MCGpio -------------------------------
(* One port of two pins; the panel has rows for all three ports.  Bits 0 and *)
(* 1 are the pins in OCTL, BC and the lower half of BOP, bits 2 and 3 the    *)
(* same pins in the upper half of BOP, bit 0 is the one pin that CTL0 or     *)
(* CTL1 controls.                                                            *)
EXTENDS Gpio

MCPorts == {0}
MCWords == {{}, {0, 2}, {0, 1}}
=============================================================================
