------------------------- MODULE FaultRegistryProofs -------------------------
(***************************************************************************)
(* The fault registry, for any targets, calls, rates, latencies, durations *)
(* and any hang: what is registered shows, what has expired harms nobody.  *)
(***************************************************************************)
EXTENDS FaultRegistry, TLAPS

(* ExpiredFaultsSpare is about the spec a call captured, so a call that sleeps
   or failed must have one: a woken call keeps it. *)
Captured(c) ==
  /\ calls[c].phase \in {"asleep", "failed"} => calls[c].by # None
  /\ calls[c].by # None => calls[c].since < calls[c].by.expiresAt

IInv == TypeOK /\ ActiveFaultShows /\ \A c \in Calls : Captured(c)

-----------------------------------------------------------------------------
(* reap() leaves only specs that have not expired; and it clears the gauge of
   no spec that it leaves. *)
LEMMA LiveIsFresh ==
  ASSUME TypeOK
  PROVE  /\ Live \in [AllTargets -> Specs \union {None}]
         /\ \A t \in AllTargets :
              Live[t] # None => Live[t] = registry[t] /\ Live[t].expiresAt > now
  <1>1. ASSUME NEW t \in AllTargets, registry[t] # None, ~Gone(t)
        PROVE  registry[t].expiresAt > now
    <2>1. registry[t] \in Specs
      BY <1>1 DEF TypeOK
    <2>2. registry[t].expiresAt \in Nat /\ now \in Int
      BY <2>1, TimeAssumption DEF TypeOK, Specs
    <2> QED BY <1>1, <2>2 DEF Gone
  <1> QED BY <1>1 DEF Live, TypeOK

LEMMA ExtinguishedType ==
  ASSUME TypeOK, NEW dead
  PROVE  Extinguished(dead) \in [AllTargets -> [Faults -> {0, 1}]]
  BY DEF TypeOK, Extinguished

LEMMA ReapPreserves ==
  ASSUME TypeOK, ActiveFaultShows, Reap
  PROVE  /\ registry' \in [AllTargets -> Specs \union {None}]
         /\ gauge' \in [AllTargets -> [Faults -> {0, 1}]]
         /\ ActiveFaultShows'
  <1>1. registry' \in [AllTargets -> Specs \union {None}]
    BY LiveIsFresh DEF Reap
  <1>2. gauge' \in [AllTargets -> [Faults -> {0, 1}]]
    BY ExtinguishedType DEF Reap
  <1>3. ASSUME NEW t \in AllTargets, registry'[t] # None
        PROVE  gauge'[t][registry'[t].fault] = 1
    <2>1. ~Gone(t) /\ registry'[t] = registry[t] /\ registry[t] # None
      BY <1>3 DEF Reap, Live
    <2>2. registry[t].fault \in Faults
      BY <2>1 DEF TypeOK, Specs
    <2>3. gauge'[t][registry[t].fault] = gauge[t][registry[t].fault]
      BY <2>1, <2>2 DEF Reap, Extinguished
    <2> QED BY <2>1, <2>3 DEF ActiveFaultShows
  <1> QED BY <1>1, <1>2, <1>3 DEF ActiveFaultShows

(* The spec a call captures has not expired. *)
LEMMA ResolveIsFresh ==
  ASSUME TypeOK, NEW t \in Targets, Resolve(t) # None
  PROVE  Resolve(t) \in Specs /\ now < Resolve(t).expiresAt
  <1>1. t \in AllTargets /\ Global \in AllTargets
    BY DEF AllTargets
  <1>2. PICK u \in AllTargets : Resolve(t) = Live[u] /\ Live[u] # None
    BY <1>1 DEF Resolve
  <1>3. Live[u] \in Specs /\ Live[u].expiresAt > now
    BY <1>2, LiveIsFresh
  <1>4. Live[u].expiresAt \in Nat /\ now \in Int
    BY <1>3, TimeAssumption DEF TypeOK, Specs
  <1> QED BY <1>2, <1>3, <1>4

(* Every way a call begins: what it captured is fresh, or nothing. *)
LEMMA BeganPreserves ==
  ASSUME TypeOK, \A d \in Calls : Captured(d), UNCHANGED now,
         NEW c \in Calls, NEW t \in Targets,
         NEW phase \in {"asleep", "passed", "failed"}, NEW spec \in Specs \union {None},
         phase \in {"asleep", "failed"} => spec # None,
         spec # None => now < spec.expiresAt,
         Began(c, t, phase, spec)
  PROVE  calls' \in [Calls -> Pending] /\ \A d \in Calls : Captured(d)'
  <1>1. now \in Nat
    BY TimeAssumption DEF TypeOK
  <1>2. [phase |-> phase, target |-> t, by |-> spec, since |-> now] \in Pending
    BY <1>1 DEF Pending
  <1>3. calls' \in [Calls -> Pending]
    BY <1>2 DEF TypeOK, Began
  <1>4. ASSUME NEW d \in Calls PROVE Captured(d)'
    <2>1. CASE d = c
      <3>1. calls'[d] = [phase |-> phase, target |-> t, by |-> spec, since |-> now]
        BY <2>1 DEF TypeOK, Began
      <3> QED BY <3>1 DEF Captured
    <2>2. CASE d # c
      <3>1. calls'[d] = calls[d]
        BY <2>2 DEF TypeOK, Began
      <3> QED BY <3>1 DEF Captured
    <2> QED BY <2>1, <2>2
  <1> QED BY <1>3, <1>4

-----------------------------------------------------------------------------
LEMMA InitEstablishes == Init => IInv
  <1> SUFFICES ASSUME Init PROVE IInv
    OBVIOUS
  <1>1. Idle \in Pending /\ Idle.phase = "idle" /\ Idle.by = None
    BY NameAssumption DEF Idle, Pending
  <1>2. TypeOK
    BY <1>1, TimeAssumption DEF Init, TypeOK
  <1>3. ActiveFaultShows
    BY DEF Init, ActiveFaultShows
  <1>4. \A c \in Calls : Captured(c)
    BY <1>1 DEF Init, Captured
  <1> QED BY <1>2, <1>3, <1>4 DEF IInv

(* POST: the new spec has its range and raises its own gauge. *)
LEMMA SetFaultPreserves ==
  ASSUME IInv, NEW t \in AllTargets, NEW spec \in NewSpecs, SetFault(t, spec)
  PROVE  IInv'
  <1>1. spec \in Specs
    <2>1. PICK d \in Durations : spec.expiresAt = now + d
      BY DEF NewSpecs
    <2>2. spec.expiresAt \in Nat
      BY <2>1, TimeAssumption DEF IInv, TypeOK
    <2> QED BY <2>2 DEF NewSpecs, Specs
  <1>2. spec.fault \in Faults /\ spec # None
    BY <1>1, NameAssumption DEF Specs
  <1>3. TypeOK'
    BY <1>1, <1>2 DEF IInv, TypeOK, SetFault, RaiseGauge
  <1>4. ASSUME NEW u \in AllTargets, registry'[u] # None
        PROVE  gauge'[u][registry'[u].fault] = 1
    <2>1. CASE u = t
      <3>1. registry'[u] = spec
        BY <2>1 DEF IInv, TypeOK, SetFault
      <3>2. gauge'[u] = [gauge[u] EXCEPT ![spec.fault] = 1] /\ gauge[u] \in [Faults -> {0, 1}]
        BY <2>1 DEF IInv, TypeOK, SetFault, RaiseGauge
      <3> QED BY <1>2, <3>1, <3>2
    <2>2. CASE u # t
      <3>1. registry'[u] = registry[u] /\ gauge'[u] = gauge[u]
        BY <2>2 DEF IInv, TypeOK, SetFault, RaiseGauge
      <3> QED BY <1>4, <3>1 DEF IInv, ActiveFaultShows
    <2> QED BY <2>1, <2>2
  <1>5. \A c \in Calls : Captured(c)'
    BY DEF IInv, SetFault, Captured
  <1> QED BY <1>3, <1>4, <1>5 DEF IInv, ActiveFaultShows

(* DELETE: nothing is registered, so nothing has to show. *)
LEMMA ClearFaultsPreserves == IInv /\ ClearFaults => IInv'
  <1> SUFFICES ASSUME IInv, ClearFaults PROVE IInv'
    OBVIOUS
  <1>1. gauge' \in [AllTargets -> [Faults -> {0, 1}]]
    BY ExtinguishedType DEF IInv, ClearFaults
  <1>2. TypeOK'
    BY <1>1 DEF IInv, TypeOK, ClearFaults
  <1>3. ActiveFaultShows' /\ \A c \in Calls : Captured(c)'
    BY DEF IInv, ClearFaults, ActiveFaultShows, Captured
  <1> QED BY <1>2, <1>3 DEF IInv

LEMMA ConsultPreserves ==
  ASSUME IInv, NEW c \in Calls, Consult(c)
  PROVE  IInv'
  <1> PICK t \in Targets, draw \in 0..(RateScale - 1) :
        Pass(c, t, draw) \/ InjectError(c, t, draw) \/ FallAsleep(c, t, draw)
    BY DEF Consult
  <1>1. Reap /\ UNCHANGED now
    BY DEF Pass, InjectError, FallAsleep
  <1>2. /\ registry' \in [AllTargets -> Specs \union {None}]
        /\ gauge' \in [AllTargets -> [Faults -> {0, 1}]]
        /\ ActiveFaultShows'
    BY <1>1, ReapPreserves DEF IInv
  <1>3. calls' \in [Calls -> Pending] /\ \A d \in Calls : Captured(d)'
    <2>1. CASE Pass(c, t, draw)
      BY <1>1, <2>1, BeganPreserves DEF IInv, Pass
    <2>2. ASSUME ~Spared(t, draw)
          PROVE  Resolve(t) # None /\ Resolve(t) \in Specs /\ now < Resolve(t).expiresAt
      BY <2>2, ResolveIsFresh DEF IInv, Spared
    <2>3. CASE InjectError(c, t, draw)
      BY <1>1, <2>2, <2>3, BeganPreserves DEF IInv, InjectError
    <2>4. CASE FallAsleep(c, t, draw)
      BY <1>1, <2>2, <2>4, BeganPreserves DEF IInv, FallAsleep
    <2> QED BY <2>1, <2>3, <2>4
  <1> QED BY <1>1, <1>2, <1>3 DEF IInv, TypeOK

(* The timer changes how a call went, never what it captured or when. *)
LEMMA WakePreserves ==
  ASSUME IInv, NEW c \in Calls, Wake(c)
  PROVE  IInv'
  <1>1. calls[c] \in Pending /\ calls[c].by # None
    BY DEF IInv, TypeOK, Captured, Wake, Overslept
  <1>2. PICK phase \in {"passed", "failed"} : calls' = [calls EXCEPT ![c].phase = phase]
    BY DEF Wake
  <1>3. [calls[c] EXCEPT !.phase = phase] \in Pending
    BY <1>1 DEF Pending
  <1>4. calls' \in [Calls -> Pending]
    BY <1>2, <1>3 DEF IInv, TypeOK
  <1>5. ASSUME NEW d \in Calls PROVE Captured(d)'
    <2>1. CASE d = c
      <3>1. calls'[d].by = calls[d].by /\ calls'[d].since = calls[d].since
        BY <1>1, <1>2, <2>1 DEF IInv, TypeOK, Pending
      <3> QED BY <1>1, <2>1, <3>1 DEF IInv, Captured
    <2>2. CASE d # c
      <3>1. calls'[d] = calls[d]
        BY <1>2, <2>2 DEF IInv, TypeOK
      <3> QED BY <3>1 DEF IInv, Captured
    <2> QED BY <2>1, <2>2
  <1>6. ActiveFaultShows' /\ TypeOK'
    BY <1>4 DEF IInv, TypeOK, ActiveFaultShows, Wake
  <1> QED BY <1>5, <1>6 DEF IInv

LEMMA NextPreserves == IInv /\ [Next]_vars => IInv'
  <1> SUFFICES ASSUME IInv, [Next]_vars PROVE IInv'
    OBVIOUS
  <1>1. CASE Administer
    <2>1. CASE ListFaults
      <3>1. UNCHANGED calls => \A c \in Calls : Captured(c)'
        BY DEF IInv, Captured
      <3> QED BY <2>1, <3>1, ReapPreserves DEF IInv, TypeOK, ListFaults
    <2> QED BY <1>1, <2>1, SetFaultPreserves, ClearFaultsPreserves DEF Administer
  <1>2. CASE \E c \in Calls : Consult(c) \/ Wake(c)
    BY <1>2, ConsultPreserves, WakePreserves
  <1>3. CASE Tick
    <2>1. now' \in 0..MaxTime
      BY <1>3, TimeAssumption DEF Tick, IInv, TypeOK
    <2> QED BY <1>3, <2>1 DEF Tick, IInv, TypeOK, ActiveFaultShows, Captured
  <1>4. CASE UNCHANGED vars
    BY <1>4 DEF vars, IInv, TypeOK, ActiveFaultShows, Captured
  <1> QED BY <1>1, <1>2, <1>3, <1>4 DEF Next

-----------------------------------------------------------------------------
(* faults.ts:43-106: the inductive invariant holds in every reachable state. *)
THEOREM Invariance == Spec => []IInv
  BY InitEstablishes, NextPreserves, PTL DEF Spec

(* faults.ts:20-64: every variable keeps its range; the gauge stays a flag. *)
THEOREM TypeCorrectness == Spec => []TypeOK
  <1>1. IInv => TypeOK
    BY DEF IInv
  <1> QED BY <1>1, Invariance, PTL

(* faults.ts:52-79: whatever was replaced, cleared or reaped before, what is
   registered shows on the gauge. *)
THEOREM FaultsShow == Spec => []ActiveFaultShows
  <1>1. IInv => ActiveFaultShows
    BY DEF IInv
  <1> QED BY <1>1, Invariance, PTL

(* faults.ts:71-106: a call that began when a spec had expired is never delayed
   or failed by it, however the clock, the timers and the admin interleave. *)
THEOREM ExpiryIsRespected == Spec => []ExpiredFaultsSpare
  <1>1. IInv => ExpiredFaultsSpare
    BY DEF IInv, Captured, ExpiredFaultsSpare, Hurt
  <1> QED BY <1>1, Invariance, PTL
-----------------------------------------------------------------------------
LEMMA SpecNumbers ==
  ASSUME NEW spec \in Specs
  PROVE  spec.rate \in Nat /\ spec.latency \in Nat
  <1>1. spec.rate \in Rates /\ spec.latency \in Latencies
    BY DEF Specs
  <1>2. Rates \subseteq Nat /\ Latencies \subseteq Nat
    BY TimeAssumption
  <1> QED BY <1>1, <1>2

(* The registry without its laziness: reading, reaping or not, changes nothing
   of what an observer with a clock sees. *)
LEMMA LiveIsUnexpired == TypeOK => Live = Unexpired
  <1> SUFFICES ASSUME TypeOK, NEW t \in AllTargets PROVE Live[t] = Unexpired[t]
    BY DEF Live, Unexpired
  <1>1. registry[t] = None => Live[t] = None /\ Unexpired[t] = None
    BY DEF Live, Unexpired, Gone
  <1>2. ASSUME registry[t] # None PROVE Live[t] = Unexpired[t]
    <2>1. registry[t] \in Specs
      BY <1>2 DEF TypeOK
    <2>2. registry[t].expiresAt \in Nat /\ now \in Int
      BY <2>1, TimeAssumption DEF TypeOK, Specs
    <2>3. registry[t].expiresAt > now <=> ~(registry[t].expiresAt <= now)
      BY <2>2
    <2> QED BY <1>2, <2>3 DEF Live, Unexpired, Gone
  <1> QED BY <1>1, <1>2

LEMMA ReapIsSilent == TypeOK /\ Reap /\ UNCHANGED now => UNCHANGED Unexpired
  <1> SUFFICES ASSUME TypeOK, Reap, UNCHANGED now PROVE UNCHANGED Unexpired
    OBVIOUS
  <1>1. registry' = Unexpired
    BY LiveIsUnexpired DEF Reap
  <1>2. \A t \in AllTargets : Unexpired[t] # None => Unexpired[t].expiresAt > now
    BY DEF Unexpired
  <1>3. Unexpired' = [t \in AllTargets |->
          IF Unexpired[t] # None /\ Unexpired[t].expiresAt > now THEN Unexpired[t] ELSE None]
    BY <1>1 DEF Unexpired
  <1>4. Unexpired' = [t \in AllTargets |-> Unexpired[t]]
    BY <1>2, <1>3
  <1> QED BY <1>4 DEF Unexpired

LEMMA SameScopes == Windows!Scopes = AllTargets /\ Windows!Everywhere = Global
  BY DEF Windows!Scopes, Windows!Everywhere, AllTargets, Global

LEMMA MetIsResolved ==
  ASSUME TypeOK, NEW t \in Targets
  PROVE  Windows!Met(t) = Resolve(t)
  BY LiveIsUnexpired, SameScopes DEF Windows!Met, Resolve

(* POST: the new fault replaces whatever was active, for its whole duration. *)
LEMMA SetFaultInjects ==
  ASSUME IInv, NEW t \in AllTargets, NEW spec \in NewSpecs, SetFault(t, spec)
  PROVE  Windows!Inject(t)
  <1>1. PICK d \in Durations : spec.expiresAt = now + d
    BY DEF NewSpecs
  <1>2. now \in Nat /\ d \in Nat \ {0}
    BY TimeAssumption DEF IInv, TypeOK
  <1>3. spec.expiresAt > now
    BY <1>1, <1>2
  <1>4. spec \in [fault: Faults, rate: Rates, latency: Latencies, expiresAt: {now + e : e \in Durations}]
    BY DEF NewSpecs
  <1>5. spec # None
    <2>1. spec.expiresAt \in Nat
      BY <1>1, <1>2
    <2>2. spec \in Specs
      BY <1>4, <2>1 DEF Specs
    <2> QED BY <2>2, NameAssumption
  <1>6. ASSUME NEW u \in AllTargets
        PROVE  Unexpired'[u] = [Unexpired EXCEPT ![t] = spec][u]
    <2>1. CASE u = t
      <3>1. registry'[u] = spec /\ now' = now
        BY <2>1 DEF IInv, TypeOK, SetFault
      <3> QED BY <1>3, <1>5, <2>1, <3>1 DEF Unexpired
    <2>2. CASE u # t
      <3>1. registry'[u] = registry[u] /\ now' = now
        BY <2>2 DEF IInv, TypeOK, SetFault
      <3> QED BY <2>2, <3>1 DEF Unexpired
    <2> QED BY <2>1, <2>2
  <1>7. Unexpired' = [Unexpired EXCEPT ![t] = spec]
    BY <1>6 DEF Unexpired
  <1>8. UNCHANGED <<now, calls>>
    BY DEF SetFault
  <1> QED BY <1>4, <1>7, <1>8 DEF Windows!Inject, Windows!Faults, Faults

LEMMA ClearFaultsClears == IInv /\ ClearFaults => Windows!Clear
  <1> SUFFICES ASSUME IInv, ClearFaults PROVE Windows!Clear
    OBVIOUS
  <1>1. Unexpired' = [t \in AllTargets |-> None]
    BY DEF ClearFaults, Unexpired
  <1> QED BY <1>1, SameScopes DEF Windows!Clear, ClearFaults

(* What the clock takes from the promise, it takes from the registry's
   unexpired part, though nobody has touched the Map. *)
LEMMA TickPasses == IInv /\ Tick => Windows!Pass
  <1> SUFFICES ASSUME IInv, Tick PROVE Windows!Pass
    OBVIOUS
  <1>1. now' = now + 1 /\ registry' = registry /\ UNCHANGED calls
    BY DEF Tick
  <1>2. ASSUME NEW t \in AllTargets
        PROVE  Unexpired'[t] = IF Unexpired[t] # None /\ Unexpired[t].expiresAt > now + 1
                               THEN Unexpired[t] ELSE None
    <2>1. Unexpired'[t] = IF registry[t] # None /\ registry[t].expiresAt > now + 1
                          THEN registry[t] ELSE None
      BY <1>1 DEF Unexpired
    <2>2. CASE registry[t] = None
      BY <2>1, <2>2 DEF Unexpired
    <2>3. CASE registry[t] # None
      <3>1. registry[t] \in Specs
        BY <2>3 DEF TypeOK, IInv
      <3>2. registry[t].expiresAt \in Nat /\ now \in Int
        BY <3>1, TimeAssumption DEF IInv, TypeOK, Specs
      <3>3. registry[t].expiresAt > now + 1 => registry[t].expiresAt > now
        BY <3>2
      <3> QED BY <2>1, <2>3, <3>3 DEF Unexpired
    <2> QED BY <2>2, <2>3
  <1>3. Unexpired' = [t \in AllTargets |->
          IF Unexpired[t] # None /\ Unexpired[t].expiresAt > now + 1 THEN Unexpired[t] ELSE None]
    BY <1>2 DEF Unexpired
  <1> QED BY <1>1, <1>3, SameScopes DEF Windows!Pass

(* A call meets what is active, and goes as that says. *)
LEMMA ConsultMeets ==
  ASSUME IInv, NEW c \in Calls, Consult(c)
  PROVE  \E t \in Targets : Windows!Spare(c, t) \/ Windows!Strike(c, t)
  <1> PICK t \in Targets, draw \in 0..(RateScale - 1) :
        Pass(c, t, draw) \/ InjectError(c, t, draw) \/ FallAsleep(c, t, draw)
    BY DEF Consult
  <1>1. UNCHANGED <<Unexpired, now>> /\ calls[c].phase = "idle"
    BY ReapIsSilent DEF IInv, Pass, InjectError, FallAsleep
  <1>2. Windows!Met(t) = Resolve(t)
    BY MetIsResolved DEF IInv
  <1>3. CASE Pass(c, t, draw)
    <2>1. ASSUME Resolve(t) # None PROVE Resolve(t).rate < RateScale
      <3>1. Resolve(t) \in Specs
        BY <2>1, ResolveIsFresh DEF IInv
      <3>2. Resolve(t).rate \in Int /\ RateScale \in Nat \ {0}
        BY <3>1, SpecNumbers, TimeAssumption
      <3>3. draw > Resolve(t).rate
        BY <1>3, <2>1 DEF Pass, Spared
      <3> QED BY <3>2, <3>3
    <2>2. Windows!Goes(c, t, "passed", None)
      BY <1>1, <1>3 DEF Windows!Goes, Pass, Began
    <2>3. Windows!Spare(c, t)
      BY <1>2, <2>1, <2>2 DEF Windows!Spare
    <2> QED BY <2>3
  <1>4. CASE InjectError(c, t, draw)
    <2>1. Windows!Goes(c, t, "failed", Resolve(t))
      BY <1>1, <1>4 DEF Windows!Goes, InjectError, Began
    <2>2. Windows!Strike(c, t)
      BY <1>2, <1>4, <2>1 DEF Windows!Strike, InjectError, Spared
    <2> QED BY <2>2
  <1>5. CASE FallAsleep(c, t, draw)
    <2>1. Windows!Goes(c, t, "asleep", Resolve(t))
      BY <1>1, <1>5 DEF Windows!Goes, FallAsleep, Began
    <2>2. Windows!Strike(c, t)
      BY <1>2, <1>5, <2>1 DEF Windows!Strike, FallAsleep, Spared
    <2> QED BY <2>2
  <1> QED BY <1>3, <1>4, <1>5

LEMMA WakeReleases ==
  ASSUME IInv, NEW c \in Calls, Wake(c)
  PROVE  Windows!Release(c)
  <1>1. calls[c].phase = "asleep" /\ calls[c] \in Pending /\ calls[c].by \in Specs
    BY DEF IInv, TypeOK, Captured, Wake, Overslept, Pending
  <1>2. calls[c].by.latency \in Nat /\ calls[c].since \in Nat /\ now \in Nat
    <2>1. calls[c].since \in Nat
      BY <1>1 DEF Pending
    <2>2. now \in Nat
      BY TimeAssumption DEF IInv, TypeOK
    <2> QED BY <1>1, <2>1, <2>2, SpecNumbers
  <1>3. Hang(calls[c].by) \in Nat /\ Hang(calls[c].by) >= calls[c].by.latency
    BY <1>2, TimeAssumption DEF Hang
  <1>4. now >= calls[c].since + Hang(calls[c].by)
    BY DEF Wake, Overslept
  <1>5. now >= calls[c].since + calls[c].by.latency
    BY <1>2, <1>3, <1>4
  <1>6. UNCHANGED <<Unexpired, now>>
    BY DEF Wake, Unexpired
  <1> QED BY <1>1, <1>5, <1>6 DEF Windows!Release, Wake

LEMMA InitMaps == Init => Windows!Init
  <1> SUFFICES ASSUME Init PROVE Windows!Init
    OBVIOUS
  <1>1. Unexpired = [t \in AllTargets |-> None]
    BY DEF Init, Unexpired
  <1>2. (CHOOSE t \in Targets : TRUE) \in Targets
    BY NameAssumption
  <1> QED BY <1>1, <1>2, SameScopes DEF Init, Windows!Init, Idle

LEMMA NextMaps == IInv /\ [Next]_vars => [Windows!Next]_<<Unexpired, now, calls>>
  <1> SUFFICES ASSUME IInv, [Next]_vars PROVE [Windows!Next]_<<Unexpired, now, calls>>
    OBVIOUS
  <1>1. CASE \E t \in AllTargets : \E spec \in NewSpecs : SetFault(t, spec)
    BY <1>1, SetFaultInjects, SameScopes DEF Windows!Next
  <1>2. CASE ClearFaults
    BY <1>2, ClearFaultsClears DEF Windows!Next
  <1>3. CASE ListFaults
    BY <1>3, ReapIsSilent DEF ListFaults, IInv
  <1>4. CASE \E c \in Calls : Consult(c) \/ Wake(c)
    BY <1>4, ConsultMeets, WakeReleases DEF Windows!Next
  <1>5. CASE Tick
    BY <1>5, TickPasses DEF Windows!Next
  <1>6. CASE UNCHANGED vars
    BY <1>6 DEF vars, Unexpired
  <1> QED BY <1>1, <1>2, <1>3, <1>4, <1>5, <1>6 DEF Next, Administer

(* faults.ts:7-16 (the promise) and 66-106: the lazily reaped Map and the
   sleeping calls implement faults that are active exactly in their windows. *)
THEOREM RegistryImplementsWindows == Spec => ImplementsWindows
  <1>1. Spec => Windows!Init
    BY InitMaps DEF Spec
  <1>2. Spec => [][Windows!Next]_<<Unexpired, now, calls>>
    BY NextMaps, Invariance, PTL DEF Spec
  <1> QED BY <1>1, <1>2 DEF ImplementsWindows, Windows!Spec, Windows!vars
=============================================================================
