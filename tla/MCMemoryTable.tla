---------------------------- MODULE MCMemoryTable ----------------------------
(***************************************************************************)
(* Memory panel, small instance: pages 1 and 3 of two bytes, so that there *)
(* is a gap below and between them, rows of one or two bytes, and a view   *)
(* with room for one row. A machine may get the address of an older one.   *)
(***************************************************************************)
EXTENDS MemoryTable

CONSTANTS m1, m2, b1, b2

MCPageNumbers == {1, 3}
MCColumns == {1, 2}
MCContents == {b1, b2}
MCMachines == {m1, m2}
=============================================================================
