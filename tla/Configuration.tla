---------------------------- MODULE Configuration ----------------------------
(***************************************************************************)
(* Opening a configuration: openConfigurationJson of UiController.cpp,     *)
(* configureEmulator of EmulatorInterface.cpp, loadJSON of ConfigLoader.cpp *)
(* and the dynamic libraries of LibLoader.h, while sessions come and go as *)
(* the abstract Session allows, and each new one sets up its memory traps. *)
(***************************************************************************)
EXTENDS MemoryTraps, FiniteSets

CONSTANTS
  Programs, NoProgram,  \* of Session
  Names,                \* names a configuration gives to devices, in the map's order
  Dlls,                 \* libraries a configuration may name
  NoDll,
  Configs               \* configuration files

NameSet == {Names[i] : i \in DOMAIN Names}

\* An entry of "peripherals" is well formed, or names a field with a wrong type,
\* a library that does not open, or one without the allocator symbols.
Outcomes == {"ok", "mistyped", "no library", "no symbols"}
Entries == [name : NameSet, range : Ranges, dll : Dlls, outcome : Outcomes]

\* Names are the keys of a std::map; some files can be opened.
ASSUME ConfigurationAssumption ==
  /\ Names \in Seq(NameSet)
  /\ \A i, j \in DOMAIN Names : Names[i] = Names[j] => i = j
  /\ NoDll \notin Dlls
  /\ Configs # {} /\ \A f \in Configs : f \in [json : BOOLEAN, peripherals : Seq(Entries)]

VARIABLES
  phase, session, program,  \* of Session
  machine,            \* a machine has been created
  activePeripherals,  \* the device object of each name, or NoDevice
  code,               \* the library each device object is an instance of
  data,               \* ConfigData::peripheralDevices of the loadJSON under way
  libLoaders,         \* libraries that an element of _libLoaders holds open
  panels,             \* devices of the peripheral panels, NoDevice once destroyed
  step,               \* where openConfigurationJson is
  todo,               \* entries that loadJSON has still to load
  latePause           \* history: since the machine was created, kDebugPaused was
                      \* published after an openConfigurationJson's kTerminated

S == INSTANCE Session

sessionVars == <<phase, session, program>>
config == <<activePeripherals, code, data, libLoaders, panels, step, todo>>
vars == <<trapVars, sessionVars, machine, config, latePause>>

\* The devices of a map, in the order of std::map.
InOrder(map) ==
  LET used == {k \in DOMAIN Names : map[Names[k]] # NoDevice}
      position(k) == Cardinality({j \in used : j < k})
  IN  [i \in 1 .. Cardinality(used) |-> map[Names[CHOOSE k \in used : position(k) = i - 1]]]

NoDevices == [n \in NameSet |-> NoDevice]
Objects(map) == {map[n] : n \in NameSet} \ {NoDevice}
LiveDevices == Objects(activePeripherals) \cup Objects(data)

TypeOK ==
  /\ TrapsTypeOK
  /\ phase \in S!Executing \cup {"kDefault", "kReady", "kDebugPaused", "kTerminated"}
  /\ session \in {"none", "run", "debug"}
  /\ program \in Programs \cup {NoProgram}
  /\ machine \in BOOLEAN /\ latePause \in BOOLEAN
  /\ {activePeripherals, data} \subseteq [NameSet -> Slots \cup {NoDevice}]
  /\ code \in [Slots -> Dlls \cup {NoDll}]
  /\ libLoaders \in SUBSET Dlls
  /\ panels \in Seq(Slots \cup {NoDevice})
  /\ step \in {"idle", "terminate", "parse", "load", "panels"}
  /\ \E f \in Configs : \E i \in 0 .. Len(f.peripherals) :
       todo = SubSeq(f.peripherals, i + 1, Len(f.peripherals))

Init ==
  /\ activePeripherals = NoDevices /\ data = NoDevices
  /\ TrapsInit /\ S!Init
  /\ machine = FALSE /\ latePause = FALSE
  /\ code = [d \in Slots |-> NoDll] /\ libLoaders = {}
  /\ panels = << >>
  /\ step = "idle" /\ todo = << >>

-----------------------------------------------------------------------------
(* Sessions.                                                                 *)

\* Run and Debug create a machine, whose traps are set up first; Continue goes
\* on with the machine there is.
BeginAnew ==
  /\ step = "idle"
  /\ phase \in {"kReady", "kTerminated"}
  /\ UNCHANGED config
  /\ S!Begin /\ BeginSetup
  /\ machine' = TRUE /\ latePause' = FALSE

Continue ==
  /\ step = "idle"
  /\ phase = "kDebugPaused" /\ S!Begin /\ session' = "debug"
  /\ UNCHANGED <<trapVars, machine, config, latePause>>

\* A session that creates its machine reports and ends nothing before the
\* traps are set.
SetUpTraps ==
  /\ UNCHANGED <<sessionVars, machine, config, latePause>>
  /\ SetupStep

Proceed ==
  /\ trapping # "setup"
  /\ S!Report \/ S!End
  /\ latePause' = (latePause \/ (step = "terminate" /\ S!Report /\ phase' = "kDebugPaused"))
  /\ UNCHANGED <<trapVars, machine, config>>

\* The user's other slots, between two configurations.
UserActs ==
  /\ step = "idle"
  /\ S!Load \/ S!Ready \/ S!Terminate
  /\ UNCHANGED <<trapVars, machine, config, latePause>>

-----------------------------------------------------------------------------
(* openConfigurationJson.                                                    *)

\* Mutant: nothing is terminated first.
NotTerminated == {phase}

\* terminateProgram publishes kTerminated if there is a machine; while the first
\* one is being created, active_machine_ may still be null.
PhasesTerminated ==
  IF trapping = "setup" THEN {phase, "kTerminated"}
  ELSE IF machine THEN {"kTerminated"} ELSE {phase}

OpenConfigurationJson ==
  /\ step = "idle"
  /\ phase' \in PhasesTerminated
  /\ step' = "terminate"
  /\ UNCHANGED <<trapVars, session, program, machine, activePeripherals,
                 code, data, libLoaders, panels, todo, latePause>>

\* Mutant: the old devices are kept until the new ones replace them.
KeepPeripherals == activePeripherals

Cleared == NoDevices

\* The panels' reference to a device becomes null when the device is destroyed.
PanelsWithout(destroyed) ==
  [i \in DOMAIN panels |-> IF panels[i] \in destroyed THEN NoDevice ELSE panels[i]]
CodeWithout(destroyed) ==
  [d \in Slots |-> IF d \in destroyed THEN NoDll ELSE code[d]]

\* Mutant: the backend thread is not joined.
NotJoined == TRUE

\* _joinBackendThread has returned.
Joined == session = "none"

ClearActivePeripherals ==
  /\ step = "terminate" /\ Joined
  /\ activePeripherals' = Cleared /\ devices' = InOrder(Cleared)
  /\ LET destroyed == LiveDevices \ Objects(Cleared)
     IN  panels' = PanelsWithout(destroyed) /\ code' = CodeWithout(destroyed)
  /\ trapping' = "stale"
  /\ step' = "parse"
  /\ UNCHANGED <<range, page_peripherals, traps, at, TRAP_PAGE, sessionVars, machine,
                 data, libLoaders, todo, latePause>>

\* loadJSON throws: what it has built is destroyed, and failedToLoadConfig.
Fail ==
  /\ data' = NoDevices /\ code' = CodeWithout(Objects(data)) /\ todo' = << >>
  /\ step' = "idle"
  /\ UNCHANGED <<trapVars, sessionVars, machine, activePeripherals,
                 libLoaders, panels, latePause>>

\* _loadFile: the file is missing or not JSON.
ParseFails ==
  /\ step = "parse" /\ \E file \in Configs : ~file.json
  /\ Fail

Parse ==
  /\ step = "parse"
  /\ \E file \in Configs : file.json /\ todo' = file.peripherals
  /\ libLoaders' = {}
  /\ step' = "load"
  /\ UNCHANGED <<trapVars, sessionVars, machine, activePeripherals, code, data,
                 panels, latePause>>

\* get, openLib or getInstance throws; the entry's own loader closes what it
\* opened, and the libraries of the entries before it stay open.
EntryFails ==
  /\ step = "load" /\ todo # << >> /\ Head(todo).outcome # "ok"
  /\ Fail

\* A second entry of the same name replaces, and destroys, the first device.
LoadEntry ==
  /\ step = "load" /\ todo # << >> /\ Head(todo).outcome = "ok"
  /\ LET item == Head(todo)
     IN  /\ \E d \in Slots \ LiveDevices :
              /\ range' = [range EXCEPT ![d] = item.range]
              /\ code' = [CodeWithout({data[item.name]}) EXCEPT ![d] = item.dll]
              /\ data' = [data EXCEPT ![item.name] = d]
         /\ libLoaders' = libLoaders \cup {item.dll}
  /\ todo' = Tail(todo)
  /\ UNCHANGED <<devices, setup, sessionVars, machine, activePeripherals, panels, step,
                 latePause>>

RegisterLoaded ==
  /\ step = "load" /\ todo = << >>
  /\ activePeripherals' = data /\ devices' = InOrder(data)
  /\ data' = NoDevices
  /\ trapping' = "stale"
  /\ step' = "panels"
  /\ UNCHANGED <<range, page_peripherals, traps, at, TRAP_PAGE, sessionVars, machine,
                 code, libLoaders, panels, todo, latePause>>

\* Mutant: removeAllPeripherals is not emitted.
PanelsAdded == panels \o devices

\* Without devices the slot returns and leaves the old panels; otherwise they
\* are removed and each device gets its panel.
PanelsShown == IF devices = << >> THEN panels ELSE devices

AddPanels ==
  /\ step = "panels"
  /\ panels' = PanelsShown
  /\ step' = "idle"
  /\ UNCHANGED <<trapVars, sessionVars, machine, activePeripherals, code, data,
                 libLoaders, todo, latePause>>

-----------------------------------------------------------------------------
Next ==
  \/ BeginAnew \/ Continue \/ SetUpTraps \/ Proceed \/ UserActs
  \/ OpenConfigurationJson \/ ClearActivePeripherals \/ ParseFails \/ Parse
  \/ EntryFails \/ LoadEntry \/ RegisterLoaded \/ AddPanels

Spec == Init /\ [][Next]_vars

-----------------------------------------------------------------------------
(* Properties:                                                               *)
(* DispatchCorrect and SetupReturns of MemoryTraps, and:                     *)

\* The code of a device is mapped for as long as the device exists, its
\* destructor included: loadJSON unloads the libraries of the last
\* configuration only when no device of theirs is left.
DevicesHaveCode == \A d \in LiveDevices : code[d] \in libLoaders

\* Between configurations the panels are those of the registered devices. A
\* configuration that fails, or names no device, leaves panels whose devices
\* are gone, but none that belongs to a device, and no device without a panel.
PanelsMatchDevices ==
  step = "idle" =>
    \/ panels = devices
    \/ devices = << >> /\ \A i \in DOMAIN panels : panels[i] = NoDevice

\* The unit executes guest instructions, or would at a click on Step.
MayExecute ==
  /\ machine /\ trapping # "setup"
  /\ session # "none" \/ (phase = "kDebugPaused" /\ step = "idle")

\* page_peripherals_ keeps pointers to the devices that were registered when
\* the machine was created. The guest can reach them after the next
\* configuration only if the backend thread had published kDebugPaused after
\* terminateProgram's kTerminated, so that Step and Continue stayed enabled.
StaleOnlyAfterLatePause == MayExecute /\ trapping = "stale" => latePause

\* What the emulator unit sees of configurations is what MemoryTraps allows: the
\* devices are registered between the creations of machines, each name with an
\* object of its own.
ImplementsTraps == TrapsSpec
=============================================================================
