------------------------------ MODULE MCEvents ------------------------------
(***************************************************************************)
(* Events, small instance: an emitter of the name that getGlobalEmitter    *)
(* gives to the emitter it creates, a name that no emitter has, and two    *)
(* threads.                                                                *)
(***************************************************************************)
EXTENDS Events

CONSTANTS gui, backend, custom, default, global, other, changed, l1, l2

MCEmitters == {custom, default}
MCDefaults == {default}
MCNames == {global, other}
MCNameOf == [e \in MCEmitters |-> global]
MCEventNames == {changed}
MCListeners == {l1, l2}
MCThreads == {gui, backend}
=============================================================================
