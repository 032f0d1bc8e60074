----------------------------- MODULE DevicePanels -----------------------------
(***************************************************************************)
(* Configurations and the side bar together: openConfigurationJson gives   *)
(* the devices it has loaded their items, and the user arranges them.      *)
(***************************************************************************)
EXTENDS Configuration, SidePanels

\* A configuration without devices leaves the items of the last one.
ItemsForDevices ==
  IF devices = << >> THEN UNCHANGED sideVars ELSE ReplacePeripherals(Len(devices))

ConfigurationStep ==
  /\ Next
  /\ IF step = "panels" /\ step' = "idle" THEN ItemsForDevices ELSE UNCHANGED sideVars

\* The GUI thread takes clicks between two slots.
Arrange == step = "idle" /\ UserClicks /\ UNCHANGED vars

PanelsInit == Init /\ SideInit
PanelsNext == ConfigurationStep \/ Arrange

\* The backend thread runs: SetupMemoryTraps_ has no step that waits.
PanelsSpec == PanelsInit /\ [][PanelsNext]_<<vars, sideVars>> /\ WF_vars(SetUpTraps)
===============================================================================
