---------------------------- MODULE FaultRegistry ----------------------------
(***************************************************************************)
(* The in-memory fault registry (apps/api/src/faults.ts), the admin        *)
(* handlers that write it (routes/admin.ts) and the handlers that consult  *)
(* it with `await maybeInjectFault(target)'.  Each function runs to its    *)
(* first await without interruption; what interleaves is the sleeping      *)
(* calls, the admin requests and the clock.                                *)
(***************************************************************************)
EXTENDS Integers

CONSTANTS
  Targets,     \* auth, billing, plans, payments
  Calls,       \* handler invocations of maybeInjectFault
  RateScale,   \* Math.random() and rates are in units of 1/RateScale
  Rates,       \* rate values, between 0 and RateScale
  Latencies,   \* latencyMs values, in ticks
  Durations,   \* durationSec values, in ticks
  HangTime,    \* the 5000 ms a timeout fault hangs at least, in ticks
  MaxTime,     \* bound on the clock
  None

Global == "global"
AllTargets == Targets \union {Global}
Faults == {"latency", "error", "timeout"}
Specs == [fault: Faults, rate: Rates, latency: Latencies, expiresAt: Nat]
Pending == [phase: {"idle", "asleep", "passed", "failed"}, target: Targets,
            by: Specs \union {None}, since: Nat]

ASSUME TimeAssumption ==
  /\ RateScale \in Nat \ {0}
  /\ Rates \subseteq 0..RateScale
  /\ Latencies \subseteq Nat
  /\ Durations \subseteq Nat \ {0}
  /\ HangTime \in Nat
  /\ MaxTime \in Nat
ASSUME NameAssumption == Global \notin Targets /\ None \notin Specs /\ Targets # {}

VARIABLES
  registry,  \* the spec registered for each target, None if there is none
  gauge,     \* fault_injection_active{target,fault}
  now,       \* Date.now()
  calls      \* the invocations of maybeInjectFault and how they went

vars == <<registry, gauge, now, calls>>

Idle == [phase |-> "idle", target |-> CHOOSE t \in Targets : TRUE, by |-> None,
         since |-> 0]

Init ==
  /\ registry = [t \in AllTargets |-> None]
  /\ gauge = [t \in AllTargets |-> [f \in Faults |-> 0]]
  /\ now = 0
  /\ calls = [c \in Calls |-> Idle]

Gone(t) == registry[t] # None /\ registry[t].expiresAt <= now

Live == [t \in AllTargets |-> IF Gone(t) THEN None ELSE registry[t]]

Extinguished(dead) ==
  [t \in AllTargets |-> [f \in Faults |->
     IF t \in dead /\ registry[t] # None /\ registry[t].fault = f THEN 0 ELSE gauge[t][f]]]

(* Expired entries go when somebody looks, and take their gauge with them. *)
Reap ==
  /\ registry' = Live
  /\ gauge' = Extinguished({t \in AllTargets : Gone(t)})

(* Mutants: the gauge counts; the gauge of the replaced spec is cleared last. *)
CountGauge(t, spec) == gauge' = [gauge EXCEPT ![t][spec.fault] = @ + 1]
SwapGauge(t, spec) ==
  gauge' = [Extinguished({t}) EXCEPT ![t][spec.fault] =
              IF registry[t] # None /\ registry[t].fault = spec.fault THEN 0 ELSE 1]

RaiseGauge(t, spec) == gauge' = [gauge EXCEPT ![t][spec.fault] = 1]

(* POST /admin/faults with a valid target and fault. *)
SetFault(t, spec) ==
  /\ registry' = [registry EXCEPT ![t] = spec]
  /\ RaiseGauge(t, spec)
  /\ UNCHANGED <<now, calls>>

NewSpecs == {s \in [fault: Faults, rate: Rates, latency: Latencies,
                    expiresAt: {now + d : d \in Durations}] : s.fault = "error" => s.latency = 0}

(* DELETE /admin/faults *)
ClearFaults ==
  /\ gauge' = Extinguished(AllTargets)
  /\ registry' = [t \in AllTargets |-> None]
  /\ UNCHANGED <<now, calls>>

(* GET /admin/faults *)
ListFaults ==
  /\ Reap
  /\ UNCHANGED <<now, calls>>

(* Mutant: the fallback is consulted first. *)
GlobalFirst(t) == IF Live[Global] # None THEN Live[Global] ELSE Live[t]

(* registry.get(target) ?? registry.get('global'), after reap(). *)
Resolve(t) == IF Live[t] # None THEN Live[t] ELSE Live[Global]

Spared(t, draw) == Resolve(t) # None => draw > Resolve(t).rate

Hang(spec) ==
  IF spec.fault = "timeout" /\ spec.latency < HangTime THEN HangTime ELSE spec.latency

Began(c, t, phase, spec) ==
  calls' = [calls EXCEPT ![c] = [phase |-> phase, target |-> t, by |-> spec, since |-> now]]

(* No fault is registered, or the draw spares this request. *)
Pass(c, t, draw) ==
  /\ calls[c].phase = "idle"
  /\ Spared(t, draw)
  /\ Began(c, t, "passed", None)
  /\ Reap
  /\ UNCHANGED now

InjectError(c, t, draw) ==
  /\ calls[c].phase = "idle"
  /\ ~Spared(t, draw)
  /\ Resolve(t).fault = "error"
  /\ Began(c, t, "failed", Resolve(t))
  /\ Reap
  /\ UNCHANGED now

(* A latency or timeout fault sleeps.  Bound: no sleep outlasts MaxTime. *)
FallAsleep(c, t, draw) ==
  /\ calls[c].phase = "idle"
  /\ ~Spared(t, draw)
  /\ Resolve(t).fault # "error"
  /\ now + Hang(Resolve(t)) <= MaxTime
  /\ Began(c, t, "asleep", Resolve(t))
  /\ Reap
  /\ UNCHANGED now

Overslept(c) == calls[c].phase = "asleep" /\ now >= calls[c].since + Hang(calls[c].by)

(* The timer fires: the spec captured before the sleep decides, not the
   registry as it is now. *)
Wake(c) ==
  /\ Overslept(c)
  /\ calls' = [calls EXCEPT ![c].phase =
                 IF calls[c].by.fault = "timeout" THEN "failed" ELSE "passed"]
  /\ UNCHANGED <<registry, gauge, now>>

Tick ==
  /\ now < MaxTime
  /\ now' = now + 1
  /\ UNCHANGED <<registry, gauge, calls>>

Consult(c) == \E t \in Targets, draw \in 0..(RateScale - 1) :
  Pass(c, t, draw) \/ InjectError(c, t, draw) \/ FallAsleep(c, t, draw)

Administer ==
  \/ \E t \in AllTargets : \E spec \in NewSpecs : SetFault(t, spec)
  \/ ClearFaults
  \/ ListFaults

Next ==
  \/ Administer
  \/ \E c \in Calls : Consult(c) \/ Wake(c)
  \/ Tick

Spec == Init /\ [][Next]_vars

-----------------------------------------------------------------------------
(* Every variable stays in its range; the gauge is a flag, not a count. *)
TypeOK ==
  /\ registry \in [AllTargets -> Specs \union {None}]
  /\ gauge \in [AllTargets -> [Faults -> {0, 1}]]
  /\ now \in 0..MaxTime
  /\ calls \in [Calls -> Pending]

(* Every registered fault shows on the gauge, whatever was replaced, cleared
   or reaped before: the dashboard never misses an injection. *)
ActiveFaultShows ==
  \A t \in AllTargets : registry[t] # None => gauge[t][registry[t].fault] = 1

Hurt(c) == calls[c].phase \in {"asleep", "failed"} \/ calls[c].by # None

(* "Faults auto-expire after durationSec": a call that began at or after the
   expiry of a spec never suffers from it, reaped or not, timers included. *)
ExpiredFaultsSpare == \A c \in Calls : Hurt(c) => calls[c].since < calls[c].by.expiresAt

(* The registry as a clock that never forgets would see it: what the Map holds
   past its expiry is not there. *)
Unexpired == [t \in AllTargets |->
  IF registry[t] # None /\ registry[t].expiresAt > now THEN registry[t] ELSE None]

Windows == INSTANCE FaultWindows WITH active <- Unexpired

(* "Faults auto-expire after durationSec": reaping only when somebody looks is
   indistinguishable, to every call, from faults that end at their instant; a
   fault strikes in its window, the target's own before `global', at full rate
   every call, and a call is held at least as long as its spec says. *)
ImplementsWindows == Windows!Spec
=============================================================================
