------------------------------ MODULE Limiter ------------------------------
(***************************************************************************)
(* What RateLimitMiddleware promises: one bucket for the whole mirror and  *)
(* one for every address, all of them kept for ever and filled at each tick*)
(* of a clock.  RateLimit, which fills a bucket when it is used and forgets*)
(* the buckets of idle addresses, implements this.                         *)
(***************************************************************************)
EXTENDS Naturals

CONSTANTS Requests, IPs, Unit, GlobalQPS, PerIPQPS

VARIABLES
  global,  \* tokens of the mirror, in fractions of 1/Unit
  level,   \* tokens of each address, likewise
  stage,   \* how far each request has come
  ip       \* the address it comes from
vars == <<global, level, stage, ip>>

Done == {"idle", "served", "refused"}

Filled(tokens, qps) == IF tokens + qps > qps * Unit THEN qps * Unit ELSE tokens + qps

Init ==
  /\ global = GlobalQPS * Unit /\ level = [i \in IPs |-> PerIPQPS * Unit]
  /\ stage = [r \in Requests |-> "idle"] /\ ip \in [Requests -> IPs]

Elapse ==
  /\ global' = Filled(global, GlobalQPS)
  /\ level' = [i \in IPs |-> Filled(level[i], PerIPQPS)]
  /\ UNCHANGED <<stage, ip>>

Arrive(r) ==
  /\ stage[r] \in Done /\ stage' = [stage EXCEPT ![r] = "global"]
  /\ \E i \in IPs : ip' = [ip EXCEPT ![r] = i]
  /\ UNCHANGED <<global, level>>

(* A limit of 0 is no limit.                                               *)
Global(r) ==
  /\ stage[r] = "global"
  /\ \/ GlobalQPS > 0 /\ global < Unit
        /\ stage' = [stage EXCEPT ![r] = "refused"] /\ UNCHANGED global
     \/ /\ \/ GlobalQPS > 0 /\ global >= Unit /\ global' = global - Unit
           \/ GlobalQPS = 0 /\ UNCHANGED global
        /\ stage' = [stage EXCEPT ![r] = IF PerIPQPS > 0 THEN "ip" ELSE "served"]
  /\ UNCHANGED <<level, ip>>

PerIP(r) ==
  /\ stage[r] = "ip"
  /\ \/ /\ level[ip[r]] < Unit
        /\ stage' = [stage EXCEPT ![r] = "refused"] /\ UNCHANGED level
     \/ /\ level[ip[r]] >= Unit /\ level' = [level EXCEPT ![ip[r]] = @ - Unit]
        /\ stage' = [stage EXCEPT ![r] = "served"]
  /\ UNCHANGED <<global, ip>>

Next == Elapse \/ \E r \in Requests : Arrive(r) \/ Global(r) \/ PerIP(r)

Spec == Init /\ [][Next]_vars
=============================================================================
