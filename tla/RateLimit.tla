----------------------------- MODULE RateLimit -----------------------------
(***************************************************************************)
(* The fixed-window limiter of the auth routes: one Redis counter per      *)
(* client address, incremented by every request and given its expiry by    *)
(* the request that finds it at one.                                       *)
(*                                                                         *)
(* The requests are those of the modules that extend this one; a request   *)
(* that is let through is at "passed", one that is refused at "refused".   *)
(***************************************************************************)
EXTENDS Naturals, FiniteSets

CONSTANTS
  Hitters,    \* requests that count against the limit
  Limit,      \* requests let through in a window
  MaxFaults   \* bound: failures injected by the environment

ASSUME LimitAssumption == Limit \in Nat \ {0} /\ MaxFaults \in Nat

VARIABLES
  count,     \* the counter; 0 when the key does not exist
  expires,   \* the key has an expiry
  hit,       \* where in the limiter each request is
  admitted,  \* history: requests let through by their count in this window
  endless,   \* history: the request that should have set the expiry failed
  faults     \* history: failures injected so far

limiter == <<count, expires, hit, admitted, endless, faults>>

-----------------------------------------------------------------------------
HitPC == {"out", "count", "expire", "judge", "passed", "refused"}
Hit   == [pc : HitPC, seen : Nat, now : BOOLEAN]    \* now: counted in this window
Out   == [pc |-> "out", seen |-> 0, now |-> FALSE]

Fault == faults < MaxFaults /\ faults' = faults + 1

\* A request reaches the limiter, is done with it.
Enter(h) == hit' = [hit EXCEPT ![h] = [Out EXCEPT !.pc = "count"]]
Leave(h) == hit' = [hit EXCEPT ![h] = Out]

\* Past the limit every count is judged the same.
NextCount == IF count > Limit THEN count ELSE count + 1

\* Variant with a bug: no request sets the expiry.
IncrementOnly(h) ==
  /\ hit[h].pc = "count"
  /\ count' = NextCount
  /\ hit' = [hit EXCEPT ![h] = [pc |-> "judge", seen |-> NextCount, now |-> TRUE]]
  /\ UNCHANGED <<expires, admitted, endless, faults>>

\* INCR, which creates the key without an expiry.
Increment(h) ==
  /\ hit[h].pc = "count"
  /\ count' = NextCount
  /\ hit' = [hit EXCEPT ![h] = [pc   |-> IF count = 0 THEN "expire" ELSE "judge",
                                seen |-> NextCount,
                                now  |-> TRUE]]
  /\ UNCHANGED <<expires, admitted, endless, faults>>

\* EXPIRE, by the request that counted one.
SetExpiry(h) ==
  /\ hit[h].pc = "expire"
  /\ expires' = TRUE
  /\ hit' = [hit EXCEPT ![h].pc = "judge"]
  /\ UNCHANGED <<count, admitted, endless, faults>>

\* Redis fails at either call, and the request is let through; or the process
\* dies there, which leaves the key the same.
RedisFails(h) ==
  /\ hit[h].pc \in {"count", "expire"}
  /\ Fault
  /\ endless' = (endless \/ hit[h].pc = "expire")
  /\ hit' = [hit EXCEPT ![h].pc = "passed"]
  /\ UNCHANGED <<count, expires, admitted>>

\* Variant with a bug: the request that exceeds the limit still passes.
RefusedLate(h) == hit[h].seen > Limit + 1

Refused(h) == hit[h].seen > Limit

\* The count decides, also when its window has ended meanwhile.
Judge(h) ==
  /\ hit[h].pc = "judge"
  /\ hit' = [hit EXCEPT ![h] = [Out EXCEPT !.pc = IF Refused(h) THEN "refused" ELSE "passed"]]
  /\ admitted' = IF Refused(h) \/ ~hit[h].now THEN admitted ELSE admitted + 1
  /\ UNCHANGED <<count, expires, endless, faults>>

\* Redis drops the key when its time is over.
WindowEnds ==
  /\ expires
  /\ count' = 0 /\ expires' = FALSE /\ admitted' = 0
  /\ hit' = [h \in Hitters |-> [hit[h] EXCEPT !.now = FALSE]]
  /\ UNCHANGED <<endless, faults>>

Limiting(h) == Increment(h) \/ SetExpiry(h) \/ Judge(h)

LimiterInit ==
  /\ count = 0 /\ expires = FALSE
  /\ hit = [h \in Hitters |-> Out]
  /\ admitted = 0 /\ endless = FALSE /\ faults = 0

LimiterTypeOK ==
  /\ count \in Nat /\ expires \in BOOLEAN
  /\ hit \in [Hitters -> Hit]
  /\ admitted \in Nat /\ endless \in BOOLEAN /\ faults \in 0..MaxFaults

\* However many requests count at once, a window lets Limit of them through
\* (rate_limit_service.py:48-58), those apart that pass because Redis failed.
AtMostLimit == admitted <= Limit

\* A window that a request opened ends, so that an address that exceeded the limit is
\* served again, unless the request that had to set the expiry failed between its two
\* calls to Redis (rate_limit_service.py:48-50).
WindowsEnd == count > 0 ~> count = 0 \/ endless
=============================================================================
