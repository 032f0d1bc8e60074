------------------------------- MODULE Events -------------------------------
(***************************************************************************)
(* EventsLib: the store of named emitters of src/utils/events/Events.cpp   *)
(* and the emitters of EventEmitter.cpp, used by several threads.          *)
(*                                                                         *)
(* A call of the store is one step (the store has no lock, and the program *)
(* writes to it in main() only, before there is a second thread); Emit and *)
(* On take the mutex of their emitter, and Emit holds it while it calls    *)
(* the listeners.                                                          *)
(***************************************************************************)
EXTENDS Integers, Sequences, Functions, FiniteSetsExt

CONSTANTS
  Emitters,     \* EventEmitter objects
  Defaults,     \* those that getGlobalEmitter creates
  Names, NameOf, \* their names, name_, among the names in use
  DefaultName,  \* "Global"
  EventNames, Listeners, Threads,
  MaxAttached,  \* bound: calls of On after which no thread begins another
  NoName,       \* the empty name
  Null          \* the null pointer, and the thread that holds a free mutex

ASSUME EventsAssumption ==
  /\ Defaults \subseteq Emitters
  /\ \A e \in Defaults : NameOf[e] = DefaultName
  /\ MaxAttached \in Nat
  /\ NameOf \in [Emitters -> Names] /\ NoName \notin Names
  /\ Null \notin Emitters \cup Threads

VARIABLES
  emitters,    \* EmitterStore: a partial function from names
  globalName,
  made,        \* default emitters created so far
  eventMap_,   \* of each emitter: a partial function from events to vectors
  emitterMutex_,
  target,      \* of each thread: the emitter of its Emit or On, while it runs
  event,       \* the event
  listener,    \* and the listener, for On; Null for Emit
  at,          \* iterator of an emission; 0 while it waits for the mutex
  attached,    \* history: every On so far, in order
  begun,       \* history: how many of them when the thread's emission began
  heard,       \* history: listeners that the thread's emission has called
  asked        \* history: names asked for while no emitter had them

store == <<emitters, globalName, made>>
call == <<target, event, listener>>
emission == <<at, begun, heard>>
vars == <<store, eventMap_, emitterMutex_, call, emission, attached, asked>>

Registered == DOMAIN emitters

TypeOK ==
  /\ Registered \subseteq Names /\ emitters \in [Registered -> Emitters \cup {Null}]
  /\ globalName \in Names \cup {NoName}
  /\ made \in SUBSET Defaults
  /\ DOMAIN eventMap_ = Emitters
  /\ \A e \in Emitters : DOMAIN eventMap_[e] \subseteq EventNames
  /\ emitterMutex_ \in [Emitters -> Threads \cup {Null}]
  /\ target \in [Threads -> Emitters \cup {Null}]
  /\ event \in [Threads -> EventNames \cup {NoName}]
  /\ listener \in [Threads -> Listeners \cup {Null}]
  /\ at \in [Threads -> Nat]
  /\ asked \in SUBSET Names

Nothing == [n \in {} |-> Null]

Init ==
  /\ emitters = Nothing /\ globalName = NoName /\ made = {}
  /\ eventMap_ = [e \in Emitters |-> Nothing]
  /\ emitterMutex_ = [e \in Emitters |-> Null]
  /\ target = [t \in Threads |-> Null] /\ event = [t \in Threads |-> NoName]
  /\ listener = [t \in Threads |-> Null] /\ at = [t \in Threads |-> 0]
  /\ attached = << >> /\ begun = [t \in Threads |-> 0]
  /\ heard = [t \in Threads |-> << >>] /\ asked = {}

Idle(t) == target[t] = Null

-----------------------------------------------------------------------------
(* The store.                                                                *)

\* `emitters' with n mapped to e.
With(n, e) == [m \in Registered \cup {n} |-> IF m = n THEN e ELSE emitters[m]]

\* Mutant: the latest registration wins.
Assigned(e) == With(NameOf[e], e)

\* Mutant: the store is keyed by the emitters.
Keyed(e) == With(e, e)

\* try_emplace: a name that the store has keeps its entry.
Emplaced(e) == IF NameOf[e] \in Registered THEN emitters ELSE With(NameOf[e], e)

RegisterEmitter(e) ==
  /\ emitters' = Emplaced(e)
  /\ UNCHANGED <<globalName, made, asked>>

\* Mutant: the global name outlives its emitter.
NameKept(n) == globalName

NameWithout(n) == IF n = globalName THEN NoName ELSE globalName

RemoveEmitter(n) ==
  /\ emitters' = Restrict(emitters, Registered \ {n})
  /\ globalName' = NameWithout(n)
  /\ UNCHANGED <<made, asked>>

SetGlobalEmitter(e) ==
  /\ globalName' = NameOf[e]
  /\ emitters' = Emplaced(e)

SetsGlobalEmitter(e) == SetGlobalEmitter(e) /\ UNCHANGED <<made, asked>>

\* getEmitter is operator[] of the map: an unknown name is inserted, with null.
GetEmitter(n) ==
  /\ emitters' = IF n \in Registered THEN emitters ELSE With(n, Null)
  /\ asked' = IF n \in Registered THEN asked ELSE asked \cup {n}
  /\ UNCHANGED <<globalName, made>>

\* getGlobalEmitter returns e: the entry of the global name, inserted with null
\* if there is none, or a new emitter that becomes the global one.
GetGlobalEmitter(e) ==
  \/ /\ globalName # NoName
     /\ emitters' = IF globalName \in Registered THEN emitters ELSE With(globalName, Null)
     /\ e = emitters'[globalName]
     /\ UNCHANGED <<globalName, made, asked>>
  \/ /\ globalName = NoName
     /\ e \in Defaults \ made
     /\ SetGlobalEmitter(e)
     /\ made' = made \cup {e}
     /\ UNCHANGED asked

StoreCall ==
  /\ \/ \E e \in Emitters \ Defaults : RegisterEmitter(e) \/ SetsGlobalEmitter(e)
     \/ \E n \in Names : RemoveEmitter(n) \/ GetEmitter(n)
     \/ \E e \in Emitters : GetGlobalEmitter(e)
  /\ UNCHANGED <<eventMap_, emitterMutex_, call, emission, attached>>

-----------------------------------------------------------------------------
(* Emitters.                                                                 *)

\* Mutant: the listener is added to those the event has.
Added(e, evt, l) ==
  [m \in DOMAIN eventMap_[e] \cup {evt} |->
     IF m # evt THEN eventMap_[e][m]
     ELSE IF m \in DOMAIN eventMap_[e] THEN Append(eventMap_[e][m], l) ELSE <<l>>]

\* On gives the event a new vector with the one listener.
Attached(e, evt, l) ==
  [m \in DOMAIN eventMap_[e] \cup {evt} |-> IF m = evt THEN <<l>> ELSE eventMap_[e][m]]

\* globalOn and globalEmit, up to the wait for the mutex. A call on null is
\* undefined and not continued.
Call(t, l) ==
  \E e \in Emitters, evt \in EventNames :
    /\ Idle(t)
    /\ GetGlobalEmitter(e)
    /\ target' = [target EXCEPT ![t] = e] /\ event' = [event EXCEPT ![t] = evt]
    /\ listener' = [listener EXCEPT ![t] = l]
    /\ UNCHANGED <<eventMap_, emitterMutex_, emission, attached>>

CallOn(t) == Len(attached) < MaxAttached /\ \E l \in Listeners : Call(t, l)
CallEmit(t) == Call(t, Null)

Done(t) ==
  /\ target' = [target EXCEPT ![t] = Null] /\ event' = [event EXCEPT ![t] = NoName]
  /\ listener' = [listener EXCEPT ![t] = Null]

On(t) ==
  LET e == target[t]
  IN  /\ listener[t] # Null /\ emitterMutex_[e] = Null
      /\ eventMap_' = [eventMap_ EXCEPT ![e] = Attached(e, event[t], listener[t])]
      /\ attached' = Append(attached,
                            [emitter |-> e, event |-> event[t], listener |-> listener[t]])
      /\ Done(t)
      /\ UNCHANGED <<store, asked, emitterMutex_, emission>>

\* Emit's scoped lock.
Lock(t) ==
  /\ ~Idle(t) /\ listener[t] = Null /\ at[t] = 0 /\ emitterMutex_[target[t]] = Null
  /\ emitterMutex_' = [emitterMutex_ EXCEPT ![target[t]] = t]
  /\ at' = [at EXCEPT ![t] = 1]
  /\ begun' = [begun EXCEPT ![t] = Len(attached)] /\ heard' = [heard EXCEPT ![t] = << >>]
  /\ UNCHANGED <<store, asked, eventMap_, call, attached>>

\* The vector of the event; find() may say that there is none.
Vector(t) ==
  LET map == eventMap_[target[t]]
  IN  IF event[t] \in DOMAIN map THEN map[event[t]] ELSE << >>

CallListener(t) ==
  /\ at[t] # 0 /\ at[t] \in DOMAIN Vector(t)
  /\ at' = [at EXCEPT ![t] = @ + 1]
  /\ heard' = [heard EXCEPT ![t] = Append(@, Vector(t)[at[t]])]
  /\ UNCHANGED <<store, asked, eventMap_, emitterMutex_, call, begun, attached>>

\* Mutant: the mutex is locked by hand and an unlock is missing.
LockKept(t) == emitterMutex_

Unlocked(t) == [emitterMutex_ EXCEPT ![target[t]] = Null]

\* Emit returns and the lock is released.
Return(t) ==
  /\ at[t] # 0 /\ at[t] > Len(Vector(t))
  /\ emitterMutex_' = Unlocked(t)
  /\ Done(t)
  /\ at' = [at EXCEPT ![t] = 0]
  /\ begun' = [begun EXCEPT ![t] = 0] /\ heard' = [heard EXCEPT ![t] = << >>]
  /\ UNCHANGED <<store, asked, eventMap_, attached>>

Next ==
  \/ StoreCall
  \/ \E t \in Threads : CallOn(t) \/ CallEmit(t) \/ On(t)
                          \/ Lock(t) \/ CallListener(t) \/ Return(t)

Spec == Init /\ [][Next]_vars

\* Threads that run an emission go on; a listener returns.
FairSpec == Spec /\ \A t \in Threads : WF_vars(CallListener(t)) /\ WF_vars(Return(t))

-----------------------------------------------------------------------------
(* Properties.                                                               *)

\* The store gives every emitter under its own name, the global name always
\* has an entry, and an entry is null only under a name that somebody asked
\* for while no emitter had it.
StoreConsistent ==
  /\ \A n \in Registered :
       IF emitters[n] = Null THEN n \in asked ELSE NameOf[emitters[n]] = n
  /\ globalName # NoName => globalName \in Registered

\* What a name leads to changes only by its removal: neither a registration
\* nor a new global emitter replaces it, and what was retrievable stays so.
\* The price is that an emitter registered or made global under a taken name
\* cannot be retrieved, although Events.h:23 and Events.h:37 say that it can.
EntriesPersist ==
  [][\A n \in Registered \cap Registered' : emitters'[n] = emitters[n]]_vars

\* The last listener attached to the event among the first k of these calls.
LastAttached(calls, k, e, evt) ==
  LET those == {i \in 1 .. k : calls[i].emitter = e /\ calls[i].event = evt}
  IN  IF those = {} THEN << >>
      ELSE <<calls[Max(those)].listener>>

\* When Emit has called all listeners, it has called exactly the one that was
\* attached last before it took the mutex, and once: in no interleaving one
\* attached too late, twice, or to another event or emitter.  Listeners attached
\* earlier are lost, although EventEmitter.h:25 says that each is executed.
ReachesLastListener ==
  \A t \in Threads :
    at[t] # 0 /\ at[t] > Len(Vector(t)) =>
      heard[t] = LastAttached(attached, begun[t], target[t], event[t])

\* An emitter is always let go of, so that On and Emit of other threads go on.
EmitterReleased ==
  \A e \in Emitters : emitterMutex_[e] # Null ~> emitterMutex_[e] = Null
=============================================================================
