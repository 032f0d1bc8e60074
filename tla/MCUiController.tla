--------------------------- MODULE MCUiController ---------------------------
(***************************************************************************)
(* Small values for UiController's constants.  `good' and `other' are      *)
(* programs, `odd' is one whose code cannot be listed, `broken' has a      *)
(* valid header and segments that do not load, and ValidateElf_ rejects    *)
(* `bad'.                                                                  *)
(***************************************************************************)
EXTENDS UiControllerInvariant, TLC

CONSTANTS m1, m2, good, other, odd, broken, bad

MCMachines == {m1, m2}
MCAddresses == {1, 2}
MCFiles == {good, other, odd, broken, bad}
MCValidFiles == {good, other, odd, broken}
MCLoadableFiles == {good, other, odd}
MCListedFiles == {good, other}
MCListing == [f \in MCListedFiles |-> IF f = good THEN <<1, 2>> ELSE <<2>>]

\* Still smaller values for the liveness runs.
LiveMachines == {m1}
LiveFiles == {good}
BrokenFiles == {good, broken}
LiveListing == [f \in LiveFiles |-> <<1>>]

MachineSymmetry == Permutations(MCMachines)
=============================================================================
