---------------------------- MODULE FaultWindows ----------------------------
(***************************************************************************)
(* What the fault registry promises to those who inject a fault and to     *)
(* those who meet one (the header of apps/api/src/faults.ts): a fault is   *)
(* active from its injection to the instant it expires, is replaced or is  *)
(* cleared, and a call goes the way the fault active at that instant says. *)
(* Nothing is said here of how an expired fault is noticed.                *)
(***************************************************************************)
EXTENDS Integers

CONSTANTS Targets, Calls, RateScale, Rates, Latencies, Durations, None

VARIABLES
  active,  \* the fault active for each target now, None if there is none
  now,
  calls    \* how each call went: which fault, if any, it met, and when

vars == <<active, now, calls>>

Everywhere == "global"
Scopes == Targets \union {Everywhere}
Faults == {"latency", "error", "timeout"}

Init ==
  /\ active = [t \in Scopes |-> None]
  /\ now = 0
  /\ \E t \in Targets :
       calls = [c \in Calls |-> [phase |-> "idle", target |-> t, by |-> None, since |-> 0]]

(* A fault lasts exactly as long as it was asked to. *)
Inject(t) ==
  /\ \E fault \in [fault: Faults, rate: Rates, latency: Latencies,
                   expiresAt: {now + d : d \in Durations}] :
       active' = [active EXCEPT ![t] = fault]
  /\ UNCHANGED <<now, calls>>

Clear ==
  /\ active' = [t \in Scopes |-> None]
  /\ UNCHANGED <<now, calls>>

(* Time ends a fault at its instant, whether or not anybody looks. *)
Pass ==
  /\ now' = now + 1
  /\ active' = [t \in Scopes |->
       IF active[t] # None /\ active[t].expiresAt > now + 1 THEN active[t] ELSE None]
  /\ UNCHANGED calls

(* A target's own fault comes before the one for everything. *)
Met(t) == IF active[t] # None THEN active[t] ELSE active[Everywhere]

Goes(c, t, phase, fault) ==
  /\ calls[c].phase = "idle"
  /\ calls' = [calls EXCEPT ![c] = [phase |-> phase, target |-> t, by |-> fault, since |-> now]]
  /\ UNCHANGED <<active, now>>

(* Only a fault that strikes less than every call spares one. *)
Spare(c, t) ==
  /\ Met(t) # None => Met(t).rate < RateScale
  /\ Goes(c, t, "passed", None)

(* Any rate may strike: a call is spared when Math.random() exceeds the rate, and it
   returns 0 too, which exceeds none. *)
Strike(c, t) ==
  /\ Met(t) # None
  /\ Goes(c, t, IF Met(t).fault = "error" THEN "failed" ELSE "asleep", Met(t))

(* No struck call comes back before its delay; a timeout always fails. *)
Release(c) ==
  /\ calls[c].phase = "asleep"
  /\ now >= calls[c].since + calls[c].by.latency
  /\ calls' = [calls EXCEPT ![c].phase =
                 IF calls[c].by.fault = "timeout" THEN "failed" ELSE "passed"]
  /\ UNCHANGED <<active, now>>

Next ==
  \/ \E t \in Scopes : Inject(t)
  \/ Clear
  \/ Pass
  \/ \E c \in Calls : (\E t \in Targets : Spare(c, t) \/ Strike(c, t)) \/ Release(c)

Spec == Init /\ [][Next]_vars
=============================================================================
