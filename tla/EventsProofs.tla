---------------------------- MODULE EventsProofs ----------------------------
(***************************************************************************)
(* The emitter store stays consistent, and an emission reaches exactly the *)
(* last attached listener: Events' properties for any number of emitters,  *)
(* names, listeners and threads.                                           *)
(***************************************************************************)
EXTENDS Events, WellFoundedInduction, TLAPS

-----------------------------------------------------------------------------
(* The store.                                                                *)

\* What the store's operations rely on and keep.
StoreInv ==
  /\ emitters \in [Registered -> Emitters \cup {Null}]
  /\ Registered \in SUBSET Names
  /\ globalName \in Names \cup {NoName}
  /\ asked \in SUBSET Names
  /\ StoreConsistent

\* A registration keeps the store consistent and every entry.
LEMMA EmplacedKeeps ==
  ASSUME StoreInv, NEW e \in Emitters
  PROVE  /\ NameOf[e] \in Names
         /\ DOMAIN Emplaced(e) = Registered \cup {NameOf[e]}
         /\ Emplaced(e) \in [DOMAIN Emplaced(e) -> Emitters \cup {Null}]
         /\ \A n \in Registered : Emplaced(e)[n] = emitters[n]
         /\ \A n \in DOMAIN Emplaced(e) :
              IF Emplaced(e)[n] = Null THEN n \in asked ELSE NameOf[Emplaced(e)[n]] = n
<1>1. NameOf[e] \in Names /\ e # Null
  BY EventsAssumption
<1>2. CASE NameOf[e] \in Registered
  BY <1>1, <1>2 DEF Emplaced, StoreInv, StoreConsistent, Registered
<1>3. CASE NameOf[e] \notin Registered
  <2>1. Emplaced(e) = With(NameOf[e], e)
    BY <1>3 DEF Emplaced
  <2>2. Emplaced(e) \in [Registered \cup {NameOf[e]} -> Emitters \cup {Null}]
    BY <2>1 DEF With, StoreInv, Registered
  <2>3. DOMAIN Emplaced(e) = Registered \cup {NameOf[e]}
    BY <2>1 DEF With
  <2>4. Emplaced(e)[NameOf[e]] = e
    BY <2>1 DEF With
  <2>5. \A n \in Registered : Emplaced(e)[n] = emitters[n]
    BY <1>3, <2>1 DEF With
  <2>6. \A n \in Registered : IF emitters[n] = Null THEN n \in asked ELSE NameOf[emitters[n]] = n
    BY DEF StoreInv, StoreConsistent
  <2>7. ASSUME NEW n \in DOMAIN Emplaced(e)
        PROVE  IF Emplaced(e)[n] = Null THEN n \in asked ELSE NameOf[Emplaced(e)[n]] = n
    <3>1. CASE n = NameOf[e]
      BY <1>1, <2>4, <3>1
    <3>2. CASE n \in Registered
      BY <2>5, <2>6, <3>2
    <3> QED
      BY <2>3, <3>1, <3>2
  <2> QED
    BY <1>1, <2>2, <2>3, <2>5, <2>7
<1> QED
  BY <1>2, <1>3

\* So it keeps the invariant when the emitter's name may become the global one.
LEMMA RegisterKeeps ==
  ASSUME StoreInv, NEW e \in Emitters, emitters' = Emplaced(e),
         globalName' \in {globalName, NameOf[e]}, UNCHANGED asked
  PROVE  StoreInv'
<1>1. /\ NameOf[e] \in Names
      /\ Registered' = Registered \cup {NameOf[e]}
      /\ emitters' \in [Registered' -> Emitters \cup {Null}]
      /\ \A n \in Registered' :
           IF emitters'[n] = Null THEN n \in asked ELSE NameOf[emitters'[n]] = n
  BY EmplacedKeeps DEF Registered
<1>2. Registered' \in SUBSET Names /\ globalName' \in Names \cup {NoName}
  BY <1>1 DEF StoreInv
<1>3. globalName' # NoName => globalName' \in Registered'
  BY <1>1 DEF StoreInv, StoreConsistent
<1> QED
  BY <1>1, <1>2, <1>3 DEF StoreInv, StoreConsistent

\* removeEmitter keeps it.
LEMMA RemoveKeeps ==
  ASSUME StoreInv, NEW n, RemoveEmitter(n)
  PROVE  StoreInv'
<1>1. emitters' = [m \in Registered \ {n} |-> emitters[m]]
  BY DEF RemoveEmitter, Restrict, Registered
<1>2. globalName' = IF n = globalName THEN NoName ELSE globalName
  BY DEF RemoveEmitter, NameWithout
<1> QED
  BY <1>1, <1>2 DEF StoreInv, StoreConsistent, RemoveEmitter, Registered

\* getEmitter keeps it.
LEMMA GetKeeps ==
  ASSUME StoreInv, NEW n \in Names, GetEmitter(n)
  PROVE  StoreInv'
<1>1. CASE n \in Registered
  BY <1>1 DEF GetEmitter, StoreInv, StoreConsistent, Registered
<1>2. CASE n \notin Registered
  <2>1. emitters' = With(n, Null) /\ asked' = asked \cup {n} /\ UNCHANGED globalName
    BY <1>2 DEF GetEmitter
  <2>2. emitters' \in [Registered \cup {n} -> Emitters \cup {Null}]
    BY <2>1 DEF With, StoreInv, Registered
  <2> QED
    BY <1>2, <2>1, <2>2 DEF With, StoreInv, StoreConsistent, Registered
<1> QED
  BY <1>1, <1>2

\* getGlobalEmitter keeps it, and inserts nothing under a global name.
LEMMA GetGlobalKeeps ==
  ASSUME StoreInv, NEW e \in Emitters, GetGlobalEmitter(e)
  PROVE  StoreInv'
<1>1. CASE globalName # NoName
  <2>1. UNCHANGED <<emitters, globalName, asked>>
    BY <1>1 DEF GetGlobalEmitter, StoreInv, StoreConsistent
  <2> QED
    BY <2>1 DEF StoreInv, StoreConsistent, Registered
<1>2. CASE globalName = NoName
  BY <1>2, RegisterKeeps DEF GetGlobalEmitter, SetGlobalEmitter
<1> QED
  BY <1>1, <1>2

\* The invariant holds from the start and is kept by every step.
LEMMA StoreInvariant == Spec => []StoreInv
<1>1. Init => StoreInv
  <2> SUFFICES ASSUME Init PROVE StoreInv
    OBVIOUS
  <2>1. Registered = {} /\ emitters \in [{} -> Emitters \cup {Null}]
    BY DEF Init, Nothing, Registered
  <2> QED
    BY <2>1 DEF Init, StoreInv, StoreConsistent
<1>2. StoreInv /\ [Next]_vars => StoreInv'
  <2> SUFFICES ASSUME StoreInv, [Next]_vars PROVE StoreInv'
    OBVIOUS
  <2>1. CASE StoreCall
    BY <2>1, RegisterKeeps, RemoveKeeps, GetKeeps, GetGlobalKeeps
       DEF StoreCall, RegisterEmitter, SetsGlobalEmitter, SetGlobalEmitter
  <2>2. ASSUME NEW t, NEW l, Call(t, l) PROVE StoreInv'
    BY <2>2, GetGlobalKeeps DEF Call
  <2>3. ASSUME UNCHANGED <<emitters, globalName, asked>> PROVE StoreInv'
    BY <2>3 DEF StoreInv, StoreConsistent, Registered
  <2>4. ASSUME NEW t \in Threads, On(t) \/ Lock(t) \/ CallListener(t) \/ Return(t)
        PROVE  StoreInv'
    BY <2>3, <2>4 DEF On, Lock, CallListener, Return, store
  <2>5. CASE UNCHANGED vars
    BY <2>3, <2>5 DEF vars, store
  <2> QED
    BY <2>1, <2>2, <2>4, <2>5 DEF Next, CallOn, CallEmit
<1> QED
  BY <1>1, <1>2, PTL DEF Spec

\* The store is consistent in every state.
THEOREM StoreIsConsistent == Spec => []StoreConsistent
<1>1. StoreInv => StoreConsistent
  BY DEF StoreInv
<1> QED
  BY <1>1, StoreInvariant, PTL

\* No name's entry is ever replaced.
THEOREM EntriesAreKept == Spec => EntriesPersist
<1> DEFINE Kept == \A n \in Registered \cap Registered' : emitters'[n] = emitters[n]
<1>1. StoreInv /\ [Next]_vars => Kept
  <2> SUFFICES ASSUME StoreInv, [Next]_vars PROVE Kept
    OBVIOUS
  <2>1. ASSUME NEW e \in Emitters, emitters' = Emplaced(e) PROVE Kept
    BY <2>1, EmplacedKeeps
  <2>2. ASSUME NEW n, RemoveEmitter(n) PROVE Kept
    BY <2>2 DEF RemoveEmitter, Restrict, Registered
  <2>3. ASSUME NEW n, GetEmitter(n) PROVE Kept
    BY <2>3 DEF GetEmitter, With, Registered
  <2>4. ASSUME NEW e \in Emitters, GetGlobalEmitter(e) PROVE Kept
    <3>1. CASE globalName # NoName
      BY <2>4, <3>1 DEF GetGlobalEmitter, StoreInv, StoreConsistent
    <3>2. CASE globalName = NoName
      BY <2>1, <2>4, <3>2 DEF GetGlobalEmitter, SetGlobalEmitter
    <3> QED
      BY <3>1, <3>2
  <2>5. CASE StoreCall
    BY <2>1, <2>2, <2>3, <2>4, <2>5
       DEF StoreCall, RegisterEmitter, SetsGlobalEmitter, SetGlobalEmitter
  <2>6. ASSUME NEW t, NEW l, Call(t, l) PROVE Kept
    BY <2>4, <2>6 DEF Call
  <2>7. ASSUME NEW t \in Threads, On(t) \/ Lock(t) \/ CallListener(t) \/ Return(t)
        PROVE  Kept
    BY <2>7 DEF On, Lock, CallListener, Return, store
  <2>8. CASE UNCHANGED vars
    BY <2>8 DEF vars, store
  <2> QED
    BY <2>5, <2>6, <2>7, <2>8 DEF Next, CallOn, CallEmit
<1> QED
  BY <1>1, StoreInvariant, PTL DEF Spec, EntriesPersist

-----------------------------------------------------------------------------
(* The last call of On.                                                      *)

\* A bounded set of numbers has a largest one.
LEMMA Largest ==
  ASSUME NEW k \in Nat, NEW A \in SUBSET (1 .. k), A # {}
  PROVE  Max(A) \in A /\ \A j \in A : Max(A) >= j
<1> DEFINE B == {k - i : i \in A}
<1>1. B \in SUBSET Nat /\ B # {}
  <2>1. \A i \in A : k - i \in Nat
    OBVIOUS
  <2> QED
    BY <2>1
<1>2. PICK b \in B : \A c \in B : <<c, b>> \notin OpToRel(<, Nat)
  BY <1>1, NatLessThanWellFounded, WFMin
<1>3. \A c \in B : ~(c < b)
  BY <1>1, <1>2 DEF OpToRel
<1>4. PICK i \in A : b = k - i
  BY <1>2
<1>5. \A j \in A : ~(k - j < k - i)
  BY <1>3, <1>4
<1>6. \A j \in A : i >= j
  BY <1>4, <1>5
<1> QED
  BY <1>4, <1>6 DEF Max

\* A later call does not change which was the last of the earlier ones.
LEMMA LastKept ==
  ASSUME NEW S, NEW s \in Seq(S), NEW r \in S, NEW k \in 0 .. Len(s), NEW e, NEW evt
  PROVE  LastAttached(Append(s, r), k, e, evt) = LastAttached(s, k, e, evt)
<1> DEFINE those == {i \in 1 .. k : s[i].emitter = e /\ s[i].event = evt}
<1>1. \A i \in 1 .. k : Append(s, r)[i] = s[i]
  OBVIOUS
<1>2. {i \in 1 .. k : Append(s, r)[i].emitter = e /\ Append(s, r)[i].event = evt} = those
  BY <1>1
<1>3. CASE those = {}
  BY <1>2, <1>3 DEF LastAttached
<1>4. CASE those # {}
  <2>1. k \in Nat /\ those \in SUBSET (1 .. k)
    OBVIOUS
  <2>2. Max(those) \in those
    BY <1>4, <2>1, Largest
  <2>3. Append(s, r)[Max(those)] = s[Max(those)]
    BY <1>1, <2>2
  <2> QED
    BY <1>2, <1>4, <2>3 DEF LastAttached
<1> QED
  BY <1>3, <1>4

\* Nor does a call for another emitter or event.
LEMMA LastOfOthers ==
  ASSUME NEW S, NEW s \in Seq(S), NEW r \in S, NEW e, NEW evt,
         r.emitter # e \/ r.event # evt
  PROVE  LastAttached(Append(s, r), Len(s) + 1, e, evt) = LastAttached(s, Len(s), e, evt)
<1> DEFINE q == Append(s, r)
<1>1. Len(s) \in Nat /\ q[Len(s) + 1] = r
  OBVIOUS
<1>2. {i \in 1 .. Len(s) + 1 : q[i].emitter = e /\ q[i].event = evt}
        = {i \in 1 .. Len(s) : q[i].emitter = e /\ q[i].event = evt}
  BY <1>1
<1>3. LastAttached(q, Len(s) + 1, e, evt) = LastAttached(q, Len(s), e, evt)
  BY <1>2 DEF LastAttached
<1> QED
  BY <1>1, <1>3, LastKept

\* A call for the emitter and event is the last one.
LEMMA LastIsNew ==
  ASSUME NEW S, NEW s \in Seq(S), NEW r \in S
  PROVE  LastAttached(Append(s, r), Len(s) + 1, r.emitter, r.event) = <<r.listener>>
<1> DEFINE q == Append(s, r)
           n == Len(s) + 1
           those == {i \in 1 .. n : q[i].emitter = r.emitter /\ q[i].event = r.event}
<1>1. n \in Nat \ {0} /\ q[n] = r
  OBVIOUS
<1>2. n \in those /\ \A j \in those : j <= n /\ j \in Nat
  BY <1>1
<1>3. Max(those) = n
  <2>1. those \in SUBSET (1 .. n) /\ those # {} /\ n \in Nat
    BY <1>1, <1>2
  <2>2. Max(those) \in those /\ \A j \in those : Max(those) >= j
    BY <2>1, Largest
  <2>3. Max(those) >= n
    BY <1>2, <2>2
  <2>4. Max(those) <= n /\ Max(those) \in Nat
    BY <1>2, <2>2
  <2> HIDE DEF those, n
  <2> QED
    BY <1>1, <2>3, <2>4
<1> QED
  BY <1>1, <1>2, <1>3 DEF LastAttached

-----------------------------------------------------------------------------
(* Emissions.                                                                *)

Calls == [emitter : Emitters, event : EventNames, listener : Listeners]

VectorOf(e, evt) == IF evt \in DOMAIN eventMap_[e] THEN eventMap_[e][evt] ELSE << >>

\* The vector of an event has the listener attached last and no other. An
\* emission has its emitter's mutex, nothing has been attached to its event
\* since it began, and it has called the listener or has yet to.
EmissionInv ==
  /\ eventMap_ = [e \in Emitters |-> eventMap_[e]]
  /\ emitterMutex_ \in [Emitters -> Threads \cup {Null}]
  /\ target \in [Threads -> Emitters \cup {Null}]
  /\ event \in [Threads -> EventNames \cup {NoName}]
  /\ listener \in [Threads -> Listeners \cup {Null}]
  /\ at \in [Threads -> Nat] /\ begun \in [Threads -> Nat]
  /\ heard = [t \in Threads |-> heard[t]]
  /\ attached \in Seq(Calls)
  /\ \A e \in Emitters, evt \in EventNames :
       VectorOf(e, evt) = LastAttached(attached, Len(attached), e, evt)
  /\ \A t \in Threads : ~Idle(t) => event[t] \in EventNames
  /\ \A t \in Threads : listener[t] # Null => ~Idle(t)
  /\ \A t \in Threads : at[t] # 0 =>
       /\ ~Idle(t) /\ listener[t] = Null /\ emitterMutex_[target[t]] = t
       /\ begun[t] \in 0 .. Len(attached)
       /\ LastAttached(attached, begun[t], target[t], event[t])
            = LastAttached(attached, Len(attached), target[t], event[t])
       /\ heard[t] = IF at[t] = 1 THEN << >> ELSE Vector(t)

\* A vector has at most one listener.
LEMMA OneListener ==
  ASSUME EmissionInv, NEW t \in Threads, at[t] # 0
  PROVE  /\ Vector(t) = LastAttached(attached, Len(attached), target[t], event[t])
         /\ Vector(t) = << >> \/ \E l : Vector(t) = <<l>>
<1>1. target[t] \in Emitters /\ event[t] \in EventNames
  BY DEF EmissionInv, Idle
<1>2. Vector(t) = VectorOf(target[t], event[t])
  BY DEF Vector, VectorOf
<1>3. Vector(t) = LastAttached(attached, Len(attached), target[t], event[t])
  BY <1>1, <1>2 DEF EmissionInv
<1> QED
  BY <1>3 DEF LastAttached

\* The invariant holds in the initial states.
LEMMA EmissionInit == Init => EmissionInv
<1> SUFFICES ASSUME Init PROVE EmissionInv
  OBVIOUS
<1>1. attached = << >> /\ Len(attached) = 0 /\ attached \in Seq(Calls)
  BY DEF Init
<1>2. \A e, evt : LastAttached(attached, Len(attached), e, evt) = << >>
  BY <1>1 DEF LastAttached
<1>3. \A e \in Emitters : \A evt : VectorOf(e, evt) = << >>
  BY DEF Init, VectorOf, Nothing
<1> QED
  BY <1>1, <1>2, <1>3 DEF Init, EmissionInv, Idle

\* A thread that begins a call is not emitting.
LEMMA CallKeeps ==
  ASSUME EmissionInv, NEW t \in Threads, NEW l \in Listeners \cup {Null}, Call(t, l)
  PROVE  EmissionInv'
<1>1. PICK e \in Emitters, evt \in EventNames :
        /\ Idle(t)
        /\ target' = [target EXCEPT ![t] = e] /\ event' = [event EXCEPT ![t] = evt]
        /\ listener' = [listener EXCEPT ![t] = l]
        /\ UNCHANGED <<eventMap_, emitterMutex_, at, begun, heard, attached>>
  BY DEF Call, emission
<1>2. e # Null /\ at[t] = 0
  BY <1>1, EventsAssumption DEF EmissionInv
<1>3. \A u \in Threads : u # t =>
        target'[u] = target[u] /\ event'[u] = event[u] /\ listener'[u] = listener[u]
  BY <1>1 DEF EmissionInv
<1>4. target'[t] = e /\ event'[t] = evt
  BY <1>1 DEF EmissionInv
<1>5. ASSUME NEW u \in Threads, at'[u] # 0
      PROVE  u # t /\ at[u] # 0 /\ Vector(u)' = Vector(u) /\ Idle(u)' = Idle(u)
  BY <1>1, <1>2, <1>3, <1>5 DEF Vector, Idle
<1>6. \A u \in Threads : Idle(u)' => u # t /\ Idle(u)
  BY <1>2, <1>3, <1>4 DEF Idle
<1>7. \A u \in Threads : ~Idle(u)' => event'[u] \in EventNames
  BY <1>3, <1>4 DEF EmissionInv, Idle
<1>8. \A u \in Threads : listener'[u] # Null => ~Idle(u)'
  BY <1>3, <1>6 DEF EmissionInv
<1>9. \A m \in Emitters, n \in EventNames :
        VectorOf(m, n)' = LastAttached(attached, Len(attached), m, n)'
  BY <1>1 DEF EmissionInv, VectorOf
<1> QED
  BY <1>1, <1>3, <1>5, <1>7, <1>8, <1>9 DEF EmissionInv

\* On replaces the vector of its event; emissions of others do not notice, as
\* they hold the mutexes of theirs.
LEMMA OnKeeps ==
  ASSUME EmissionInv, NEW t \in Threads, On(t)
  PROVE  EmissionInv'
<1> DEFINE e == target[t]
           evt == event[t]
           r == [emitter |-> e, event |-> evt, listener |-> listener[t]]
           n == Len(attached)
<1>1. /\ listener[t] # Null /\ emitterMutex_[e] = Null
      /\ eventMap_' = [eventMap_ EXCEPT ![e] = Attached(e, evt, listener[t])]
      /\ attached' = Append(attached, r)
      /\ target' = [target EXCEPT ![t] = Null] /\ event' = [event EXCEPT ![t] = NoName]
      /\ listener' = [listener EXCEPT ![t] = Null]
      /\ UNCHANGED <<emitterMutex_, at, begun, heard>>
  BY DEF On, Done, emission
<1>2. e \in Emitters /\ evt \in EventNames /\ listener[t] \in Listeners
  BY <1>1 DEF EmissionInv, Idle
<1>3. r \in Calls /\ r.emitter = e /\ r.event = evt /\ r.listener = listener[t]
  BY <1>2 DEF Calls
<1>4. attached \in Seq(Calls) /\ n \in Nat
  BY DEF EmissionInv
<1>5. attached' \in Seq(Calls) /\ Len(attached') = n + 1
  BY <1>1, <1>3, <1>4
<1>6. at[t] = 0
  BY <1>1 DEF EmissionInv
<1>7. \A u \in Threads : u # t =>
        target'[u] = target[u] /\ event'[u] = event[u] /\ listener'[u] = listener[u]
  BY <1>1 DEF EmissionInv
<1>8. target'[t] = Null /\ listener'[t] = Null
  BY <1>1 DEF EmissionInv
<1>9. ASSUME NEW m \in Emitters, NEW v \in EventNames
      PROVE  /\ VectorOf(m, v)' = LastAttached(attached', n + 1, m, v)
             /\ m # e => VectorOf(m, v)' = VectorOf(m, v)
  <2>1. VectorOf(m, v) = LastAttached(attached, n, m, v)
    BY DEF EmissionInv
  <2>2. eventMap_'[m] = IF m = e THEN Attached(e, evt, listener[t]) ELSE eventMap_[m]
    BY <1>1 DEF EmissionInv
  <2>3. CASE m = e /\ v = evt
    <3>1. VectorOf(m, v)' = <<listener[t]>>
      BY <2>2, <2>3 DEF VectorOf, Attached
    <3>2. LastAttached(attached', n + 1, m, v) = <<listener[t]>>
      BY <1>1, <1>3, <1>4, <2>3, LastIsNew
    <3> QED
      BY <2>3, <3>1, <3>2
  <2>4. CASE ~(m = e /\ v = evt)
    <3>1. VectorOf(m, v)' = VectorOf(m, v)
      BY <2>2, <2>4 DEF VectorOf, Attached
    <3>2. LastAttached(attached', n + 1, m, v) = LastAttached(attached, n, m, v)
      BY <1>1, <1>3, <1>4, <2>4, LastOfOthers
    <3> QED
      BY <2>1, <3>1, <3>2
  <2> QED
    BY <2>3, <2>4
<1>10. ASSUME NEW u \in Threads, at'[u] # 0
       PROVE  /\ u # t /\ at[u] # 0
              /\ Vector(u)' = Vector(u)
              /\ begun'[u] \in 0 .. Len(attached')
              /\ LastAttached(attached', begun'[u], target'[u], event'[u])
                   = LastAttached(attached', Len(attached'), target'[u], event'[u])
  <2>1. u # t /\ at[u] # 0
    BY <1>1, <1>6, <1>10
  <2>2. /\ target[u] \in Emitters /\ event[u] \in EventNames
        /\ emitterMutex_[target[u]] = u /\ begun[u] \in 0 .. n
        /\ LastAttached(attached, begun[u], target[u], event[u])
             = LastAttached(attached, n, target[u], event[u])
    BY <2>1 DEF EmissionInv, Idle
  <2>3. target[u] # e
    BY <1>1, <2>2, EventsAssumption
  <2>4. \A m, v : m = target[u] /\ v = event[u] =>
                  Vector(u)' = VectorOf(m, v)' /\ Vector(u) = VectorOf(m, v)
    BY <1>7, <2>1 DEF Vector, VectorOf
  <2>5. Vector(u)' = Vector(u)
    BY <1>9, <2>2, <2>3, <2>4
  <2>6. LastAttached(attached', begun[u], target[u], event[u])
          = LastAttached(attached, begun[u], target[u], event[u])
    BY <1>1, <1>3, <1>4, <2>2, LastKept
  <2>7. LastAttached(attached', n + 1, target[u], event[u])
          = LastAttached(attached, n, target[u], event[u])
    BY <1>1, <1>3, <1>4, <2>3, LastOfOthers
  <2>8. begun'[u] = begun[u] /\ begun[u] \in 0 .. n + 1
    BY <1>1, <1>4, <2>2
  <2>9. target'[u] = target[u] /\ event'[u] = event[u]
    BY <1>7, <2>1
  <2> QED
    BY <1>5, <2>1, <2>2, <2>5, <2>6, <2>7, <2>8, <2>9
<1>11. \A u \in Threads : ~Idle(u)' => event'[u] \in EventNames
  BY <1>7, <1>8 DEF EmissionInv, Idle
<1>12. \A u \in Threads : listener'[u] # Null => ~Idle(u)'
  BY <1>7, <1>8 DEF EmissionInv, Idle
<1>13. /\ eventMap_' = [m \in Emitters |-> eventMap_'[m]]
       /\ target' \in [Threads -> Emitters \cup {Null}]
       /\ event' \in [Threads -> EventNames \cup {NoName}]
       /\ listener' \in [Threads -> Listeners \cup {Null}]
  BY <1>1 DEF EmissionInv
<1>14. \A u \in Threads : at'[u] # 0 =>
         ~Idle(u)' /\ listener'[u] = Null /\ emitterMutex_'[target'[u]] = u
  BY <1>1, <1>7, <1>10 DEF EmissionInv, Idle
<1>15. \A u \in Threads : at'[u] # 0 =>
         heard'[u] = IF at'[u] = 1 THEN << >> ELSE Vector(u)'
  BY <1>1, <1>10 DEF EmissionInv
<1> HIDE DEF e, evt, r, n
<1> QED
  BY <1>1, <1>5, <1>9, <1>10, <1>11, <1>12, <1>13, <1>14, <1>15 DEF EmissionInv

\* A thread that takes the mutex has called no listener yet.
LEMMA LockKeeps ==
  ASSUME EmissionInv, NEW t \in Threads, Lock(t)
  PROVE  EmissionInv'
<1>1. /\ ~Idle(t) /\ listener[t] = Null /\ emitterMutex_[target[t]] = Null
      /\ emitterMutex_' = [emitterMutex_ EXCEPT ![target[t]] = t]
      /\ at' = [at EXCEPT ![t] = 1]
      /\ begun' = [begun EXCEPT ![t] = Len(attached)] /\ heard' = [heard EXCEPT ![t] = << >>]
      /\ UNCHANGED <<eventMap_, target, event, listener, attached>>
  BY DEF Lock, call
<1>2. Len(attached) \in Nat /\ target[t] \in Emitters
  BY <1>1 DEF EmissionInv, Idle
<1>3. /\ emitterMutex_' \in [Emitters -> Threads \cup {Null}]
      /\ at' \in [Threads -> Nat] /\ begun' \in [Threads -> Nat]
      /\ heard' = [u \in Threads |-> heard'[u]]
  BY <1>1, <1>2 DEF EmissionInv
<1>4. \A m \in Emitters, v \in EventNames :
        VectorOf(m, v)' = LastAttached(attached, Len(attached), m, v)'
  BY <1>1 DEF EmissionInv, VectorOf
<1>5. \A u \in Threads : Idle(u)' = Idle(u)
  BY <1>1 DEF Idle
<1>6. ASSUME NEW u \in Threads, at'[u] # 0
      PROVE  /\ ~Idle(u)' /\ listener'[u] = Null /\ emitterMutex_'[target'[u]] = u
             /\ begun'[u] \in 0 .. Len(attached')
             /\ LastAttached(attached', begun'[u], target'[u], event'[u])
                  = LastAttached(attached', Len(attached'), target'[u], event'[u])
             /\ heard'[u] = IF at'[u] = 1 THEN << >> ELSE Vector(u)'
  <2>1. CASE u = t
    <3>1. at'[u] = 1 /\ begun'[u] = Len(attached) /\ heard'[u] = << >>
      BY <1>1, <2>1 DEF EmissionInv
    <3>2. emitterMutex_'[target[u]] = u
      BY <1>1, <1>2, <2>1 DEF EmissionInv
    <3> QED
      BY <1>1, <1>2, <1>5, <2>1, <3>1, <3>2
  <2>2. CASE u # t
    <3>1. at'[u] = at[u] /\ begun'[u] = begun[u] /\ heard'[u] = heard[u]
      BY <1>1, <2>2 DEF EmissionInv
    <3>2. /\ ~Idle(u) /\ listener[u] = Null /\ emitterMutex_[target[u]] = u
          /\ begun[u] \in 0 .. Len(attached)
          /\ LastAttached(attached, begun[u], target[u], event[u])
               = LastAttached(attached, Len(attached), target[u], event[u])
          /\ heard[u] = IF at[u] = 1 THEN << >> ELSE Vector(u)
      BY <1>6, <3>1 DEF EmissionInv
    <3>3. target[u] # target[t]
      BY <1>1, <3>2, EventsAssumption
    <3>4. emitterMutex_'[target[u]] = u
      BY <1>1, <3>2, <3>3 DEF EmissionInv, Idle
    <3>5. Vector(u)' = Vector(u)
      BY <1>1 DEF Vector
    <3> QED
      BY <1>1, <1>5, <3>1, <3>2, <3>4, <3>5
  <2> QED
    BY <2>1, <2>2
<1>7. /\ \A u \in Threads : ~Idle(u)' => event'[u] \in EventNames
      /\ \A u \in Threads : listener'[u] # Null => ~Idle(u)'
  BY <1>1, <1>5 DEF EmissionInv
<1> QED
  BY <1>1, <1>3, <1>4, <1>6, <1>7 DEF EmissionInv

\* A vector has one listener at the most, so that the one that is called ends
\* the emission's list.
LEMMA CallListenerKeeps ==
  ASSUME EmissionInv, NEW t \in Threads, CallListener(t)
  PROVE  EmissionInv'
<1>1. /\ at[t] # 0 /\ at[t] \in DOMAIN Vector(t)
      /\ at' = [at EXCEPT ![t] = @ + 1]
      /\ heard' = [heard EXCEPT ![t] = Append(@, Vector(t)[at[t]])]
      /\ UNCHANGED <<eventMap_, emitterMutex_, target, event, listener, begun, attached>>
  BY DEF CallListener, call
<1>2. PICK l : Vector(t) = <<l>>
  BY <1>1, OneListener
<1>3. at[t] = 1
  BY <1>1, <1>2
<1>4. heard[t] = << >>
  BY <1>1, <1>3 DEF EmissionInv
<1>5. at'[t] = 2
  BY <1>1, <1>3 DEF EmissionInv
<1>6. heard'[t] = Append(<< >>, l)
  BY <1>1, <1>2, <1>3, <1>4 DEF EmissionInv
<1>7. heard'[t] = Vector(t)
  BY <1>2, <1>6
<1>8. /\ at' \in [Threads -> Nat] /\ heard' = [u \in Threads |-> heard'[u]]
      /\ \A u \in Threads : u # t => at'[u] = at[u] /\ heard'[u] = heard[u]
  <2>1. at \in [Threads -> Nat] /\ heard = [u \in Threads |-> heard[u]]
    BY DEF EmissionInv
  <2>2. at' = [at EXCEPT ![t] = 2]
    BY <1>1, <1>3
  <2>3. \E h : heard' = [heard EXCEPT ![t] = h]
    BY <1>1
  <2> QED
    BY <2>1, <2>2, <2>3
<1>9. \A u \in Threads : Vector(u)' = Vector(u) /\ Idle(u)' = Idle(u)
  BY <1>1 DEF Vector, Idle
<1>10. \A m \in Emitters, v \in EventNames :
         VectorOf(m, v)' = LastAttached(attached, Len(attached), m, v)'
  BY <1>1 DEF EmissionInv, VectorOf
<1>11. ASSUME NEW u \in Threads, at'[u] # 0
       PROVE  /\ ~Idle(u)' /\ listener'[u] = Null /\ emitterMutex_'[target'[u]] = u
              /\ begun'[u] \in 0 .. Len(attached')
              /\ LastAttached(attached', begun'[u], target'[u], event'[u])
                   = LastAttached(attached', Len(attached'), target'[u], event'[u])
              /\ heard'[u] = IF at'[u] = 1 THEN << >> ELSE Vector(u)'
  <2>1. at[u] # 0
    BY <1>1, <1>8, <1>11
  <2>2. /\ ~Idle(u) /\ listener[u] = Null /\ emitterMutex_[target[u]] = u
        /\ begun[u] \in 0 .. Len(attached)
        /\ LastAttached(attached, begun[u], target[u], event[u])
             = LastAttached(attached, Len(attached), target[u], event[u])
        /\ heard[u] = IF at[u] = 1 THEN << >> ELSE Vector(u)
    BY <2>1 DEF EmissionInv
  <2>3. heard'[u] = IF at'[u] = 1 THEN << >> ELSE Vector(u)'
    BY <1>5, <1>7, <1>8, <1>9, <2>2
  <2> QED
    BY <1>1, <1>9, <2>2, <2>3
<1>12. /\ \A u \in Threads : ~Idle(u)' => event'[u] \in EventNames
       /\ \A u \in Threads : listener'[u] # Null => ~Idle(u)'
  BY <1>1, <1>9 DEF EmissionInv
<1> QED
  BY <1>1, <1>8, <1>10, <1>11, <1>12 DEF EmissionInv

\* A return lets go of its own emitter's mutex only.
LEMMA ReturnKeeps ==
  ASSUME EmissionInv, NEW t \in Threads, Return(t)
  PROVE  EmissionInv'
<1>1. /\ at[t] # 0
      /\ emitterMutex_' = [emitterMutex_ EXCEPT ![target[t]] = Null]
      /\ target' = [target EXCEPT ![t] = Null] /\ event' = [event EXCEPT ![t] = NoName]
      /\ listener' = [listener EXCEPT ![t] = Null]
      /\ at' = [at EXCEPT ![t] = 0]
      /\ begun' = [begun EXCEPT ![t] = 0] /\ heard' = [heard EXCEPT ![t] = << >>]
      /\ UNCHANGED <<eventMap_, attached>>
  BY DEF Return, Done, Unlocked
<1>2. /\ emitterMutex_' \in [Emitters -> Threads \cup {Null}]
      /\ target' \in [Threads -> Emitters \cup {Null}]
      /\ event' \in [Threads -> EventNames \cup {NoName}]
      /\ listener' \in [Threads -> Listeners \cup {Null}]
      /\ at' \in [Threads -> Nat] /\ begun' \in [Threads -> Nat]
      /\ heard' = [u \in Threads |-> heard'[u]]
  BY <1>1 DEF EmissionInv
<1>3. target'[t] = Null /\ listener'[t] = Null /\ at'[t] = 0
  BY <1>1 DEF EmissionInv
<1>4. \A u \in Threads : u # t =>
        /\ target'[u] = target[u] /\ event'[u] = event[u] /\ listener'[u] = listener[u]
        /\ at'[u] = at[u] /\ begun'[u] = begun[u] /\ heard'[u] = heard[u]
  BY <1>1 DEF EmissionInv
<1>5. \A m \in Emitters, v \in EventNames :
        VectorOf(m, v)' = LastAttached(attached, Len(attached), m, v)'
  BY <1>1 DEF EmissionInv, VectorOf
<1>6. ASSUME NEW u \in Threads, at'[u] # 0
      PROVE  /\ ~Idle(u)' /\ listener'[u] = Null /\ emitterMutex_'[target'[u]] = u
             /\ begun'[u] \in 0 .. Len(attached')
             /\ LastAttached(attached', begun'[u], target'[u], event'[u])
                  = LastAttached(attached', Len(attached'), target'[u], event'[u])
             /\ heard'[u] = IF at'[u] = 1 THEN << >> ELSE Vector(u)'
  <2>1. u # t /\ at[u] # 0
    BY <1>3, <1>4, <1>6
  <2>2. /\ ~Idle(u) /\ listener[u] = Null /\ emitterMutex_[target[u]] = u
        /\ begun[u] \in 0 .. Len(attached)
        /\ LastAttached(attached, begun[u], target[u], event[u])
             = LastAttached(attached, Len(attached), target[u], event[u])
        /\ heard[u] = IF at[u] = 1 THEN << >> ELSE Vector(u)
    BY <2>1 DEF EmissionInv
  <2>3. emitterMutex_[target[t]] = t /\ target[u] \in Emitters
    BY <1>1, <2>2 DEF EmissionInv, Idle
  <2>4. emitterMutex_'[target[u]] = u
    BY <1>1, <2>1, <2>2, <2>3 DEF EmissionInv
  <2>5. Vector(u)' = Vector(u) /\ Idle(u)' = Idle(u)
    BY <1>1, <1>4, <2>1 DEF Vector, Idle
  <2> QED
    BY <1>1, <1>4, <2>1, <2>2, <2>4, <2>5
<1>7. /\ \A u \in Threads : ~Idle(u)' => event'[u] \in EventNames
      /\ \A u \in Threads : listener'[u] # Null => ~Idle(u)'
  BY <1>3, <1>4 DEF EmissionInv, Idle
<1> QED
  BY <1>1, <1>2, <1>5, <1>6, <1>7 DEF EmissionInv

\* The invariant, and the last listener with it.
LEMMA EmissionInvariant == Spec => []EmissionInv
<1>1. EmissionInv /\ UNCHANGED <<eventMap_, emitterMutex_, call, emission, attached>>
        => EmissionInv'
  <2> SUFFICES ASSUME EmissionInv,
                      UNCHANGED <<eventMap_, emitterMutex_, call, emission, attached>>
               PROVE  EmissionInv'
    OBVIOUS
  <2>1. \A m, v : VectorOf(m, v)' = VectorOf(m, v)
    BY DEF VectorOf
  <2>2. \A t \in Threads : Vector(t)' = Vector(t) /\ Idle(t)' = Idle(t)
    BY DEF Vector, Idle, call
  <2> QED
    BY <2>1, <2>2 DEF EmissionInv, call, emission
<1>2. EmissionInv /\ [Next]_vars => EmissionInv'
  <2> SUFFICES ASSUME EmissionInv, [Next]_vars
               PROVE  EmissionInv'
    OBVIOUS
  <2>1. CASE StoreCall
    BY <1>1, <2>1 DEF StoreCall
  <2>2. ASSUME NEW t \in Threads, CallOn(t) \/ CallEmit(t)
        PROVE  EmissionInv'
    BY <2>2, CallKeeps DEF CallOn, CallEmit
  <2>3. ASSUME NEW t \in Threads, On(t) PROVE EmissionInv'
    BY <2>3, OnKeeps
  <2>4. ASSUME NEW t \in Threads, Lock(t) PROVE EmissionInv'
    BY <2>4, LockKeeps
  <2>5. ASSUME NEW t \in Threads, CallListener(t) PROVE EmissionInv'
    BY <2>5, CallListenerKeeps
  <2>6. ASSUME NEW t \in Threads, Return(t) PROVE EmissionInv'
    BY <2>6, ReturnKeeps
  <2>7. CASE UNCHANGED vars
    BY <1>1, <2>7 DEF vars
  <2> QED
    BY <2>1, <2>2, <2>3, <2>4, <2>5, <2>6, <2>7 DEF Next
<1> QED
  BY <1>2, EmissionInit, PTL DEF Spec

\* Emit calls the listener that was attached last, once, and no other
\* (EventEmitter.cpp 10-31), for any emitters, events, listeners and threads.
THEOREM LastListenerReached == Spec => []ReachesLastListener
<1>1. EmissionInv => ReachesLastListener
  <2> SUFFICES ASSUME EmissionInv, NEW t \in Threads, at[t] # 0, at[t] > Len(Vector(t))
               PROVE  heard[t] = LastAttached(attached, begun[t], target[t], event[t])
    BY DEF ReachesLastListener
  <2>1. Vector(t) = LastAttached(attached, begun[t], target[t], event[t])
    BY OneListener DEF EmissionInv
  <2>2. Vector(t) = << >> \/ \E l : Vector(t) = <<l>>
    BY OneListener
  <2>3. heard[t] = IF at[t] = 1 THEN << >> ELSE Vector(t)
    BY DEF EmissionInv
  <2> QED
    BY <2>1, <2>2, <2>3
<1> QED
  BY <1>1, EmissionInvariant, PTL

-----------------------------------------------------------------------------
(* Types.                                                                    *)

\* What the two invariants above leave open of the types.
MapsTyped ==
  /\ made \in SUBSET Defaults
  /\ \A e \in Emitters : DOMAIN eventMap_[e] \subseteq EventNames

\* Only getGlobalEmitter makes an emitter, one of those it can make.
LEMMA MadeKept ==
  ASSUME MapsTyped, NEW e, GetGlobalEmitter(e)
  PROVE  made' \in SUBSET Defaults
  BY DEF GetGlobalEmitter, MapsTyped

\* Only On gives an emitter another event: that of its caller.
LEMMA EventsTyped ==
  ASSUME EmissionInv, MapsTyped, NEW t \in Threads, On(t)
  PROVE  MapsTyped'
<1> DEFINE e == target[t]
           new == Attached(e, event[t], listener[t])
<1>1. event[t] \in EventNames
  BY DEF On, EmissionInv
<1>2. eventMap_' = [eventMap_ EXCEPT ![e] = new] /\ made' = made
  BY DEF On, store
<1>3. DOMAIN new = DOMAIN eventMap_[e] \cup {event[t]}
  BY DEF Attached
<1>4. ASSUME NEW m \in Emitters PROVE DOMAIN eventMap_'[m] \subseteq EventNames
  <2>1. CASE m = e
    <3>1. eventMap_'[m] = new
      BY <1>2, <2>1 DEF EmissionInv
    <3> QED BY <1>1, <1>3, <2>1, <3>1 DEF MapsTyped
  <2>2. CASE m # e
    <3>1. eventMap_'[m] = eventMap_[m]
      BY <1>2, <2>2 DEF EmissionInv
    <3> QED BY <3>1 DEF MapsTyped
  <2> QED BY <2>1, <2>2
<1> QED BY <1>2, <1>4 DEF MapsTyped

\* Every variable keeps its type: entries are emitters or null, vectors are
\* those of events, and mutexes are held by threads.
THEOREM EventsTypeCorrect == Spec => []TypeOK
<1>1. Init => MapsTyped
  <2> SUFFICES ASSUME Init, NEW e \in Emitters PROVE DOMAIN eventMap_[e] \subseteq EventNames
    BY DEF Init, MapsTyped
  <2>1. eventMap_[e] = Nothing /\ DOMAIN Nothing = {}
    BY DEF Init, Nothing
  <2> QED BY <2>1
<1>2. EmissionInv /\ MapsTyped /\ [Next]_vars => MapsTyped'
  <2> SUFFICES ASSUME EmissionInv, MapsTyped, [Next]_vars PROVE MapsTyped'
    OBVIOUS
  <2>1. ASSUME NEW t \in Threads, On(t) PROVE MapsTyped'
    BY <2>1, EventsTyped
  <2>2. CASE StoreCall
    BY <2>2, MadeKept
       DEF StoreCall, RegisterEmitter, SetsGlobalEmitter, RemoveEmitter, GetEmitter, MapsTyped
  <2>3. ASSUME NEW t, NEW l, Call(t, l) PROVE MapsTyped'
    BY <2>3, MadeKept DEF Call, MapsTyped
  <2>4. ASSUME NEW t \in Threads, Lock(t) \/ CallListener(t) \/ Return(t) PROVE MapsTyped'
    BY <2>4 DEF Lock, CallListener, Return, store, MapsTyped
  <2>5. CASE UNCHANGED vars
    BY <2>5 DEF vars, store, MapsTyped
  <2> QED BY <2>1, <2>2, <2>3, <2>4, <2>5 DEF Next, CallOn, CallEmit
<1>3. StoreInv /\ EmissionInv /\ MapsTyped => TypeOK
  <2> SUFFICES ASSUME StoreInv, EmissionInv, MapsTyped PROVE TypeOK
    OBVIOUS
  <2>1. DOMAIN eventMap_ = Emitters
    BY DEF EmissionInv
  <2> QED BY <2>1 DEF StoreInv, EmissionInv, MapsTyped, TypeOK
<1> QED BY <1>1, <1>2, <1>3, StoreInvariant, EmissionInvariant, PTL DEF Spec
=============================================================================
