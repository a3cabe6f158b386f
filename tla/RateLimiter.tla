------------------------------ MODULE RateLimiter ------------------------------
(***************************************************************************)
(* The token bucket of one API key or address (middleware/rate_limit.py).  *)
(* A request takes the time, reads the bucket in one Redis pipeline, works *)
(* out what it holds by then, and writes it back in another; nothing keeps *)
(* other requests from doing the same in between.                          *)
(*                                                                         *)
(* Tokens are counted in parts, Unit to a token, of which Rate come in     *)
(* with a tick of the clock; time stamps are ticks.  A bucket that was not *)
(* written for Ttl ticks is gone from Redis.  Exempt paths are left out.   *)
(* MaxClock bounds the clock, MaxDelay what a request takes to get through *)
(* to Redis.  Of the requests let through are counted those that came      *)
(* since a tick that may be chosen anew at every tick.                     *)
(***************************************************************************)
EXTENDS Integers

CONSTANTS
    Arrivals,  \* requests worked on at a time
    Unit,      \* the parts of a token
    Capacity,  \* max_tokens, in parts
    Rate,      \* refill_rate, in parts to a tick
    Ttl,       \* ex, in ticks
    MaxClock,  \* bound: ticks
    MaxDelay   \* bound: ticks a request is worked on

\* In every tier a bucket is full after half the time that it takes to expire.
ASSUME RateLimiterAssumption ==
    /\ Unit \in Nat \ {0} /\ Capacity \in Nat /\ Rate \in Nat /\ Ttl \in Nat
    /\ MaxClock \in Nat /\ MaxDelay \in Nat
    /\ (Ttl - MaxDelay) * Rate >= Capacity

VARIABLES
    clock,
    bucket,       \* tokens_key and ts_key, and when they were written
    arrival,      \* what each request is doing
    admitted,     \* how many of those since then were let through
    since,        \* the tick the count began at
    rateOverlaps  \* history: two requests overlapped since then

rateVars == <<clock, bucket, arrival, admitted, since, rateOverlaps>>

Outside == [step |-> "outside"]
InFlight == {c \in Arrivals : arrival[c].step # "outside"}

AtMost(n, m) == IF n <= m THEN n ELSE m

\* Mutant of Refilled: the time that went by is counted from the start.
RefilledTwice(b, t) == AtMost(Capacity, b.parts + t * Rate)

\* What the bucket holds at time t; t may be before the time it was written for.
Refilled(b, t) == AtMost(Capacity, b.parts + (t - b.at) * Rate)

RateLimiterTypeOK ==
    /\ clock \in 0..MaxClock
    /\ bucket.parts <= Capacity
    /\ bucket \in [parts : Int, at : 0..MaxClock, written : (0 - Ttl)..MaxClock]
    /\ arrival \in [Arrivals -> {Outside} \cup [step : {"timed"}, now : 0..MaxClock]
                     \cup [step : {"read"}, now : 0..MaxClock, parts : Int]]
    /\ admitted \in Nat /\ since \in 0..clock /\ rateOverlaps \in BOOLEAN

Expired == clock - bucket.written >= Ttl

Goes(c, r) == arrival' = [arrival EXCEPT ![c] = r]
-----------------------------------------------------------------------------
\* The request takes the time.
Arrive(c) ==
    /\ arrival[c] = Outside
    /\ Goes(c, [step |-> "timed", now |-> clock])
    /\ rateOverlaps' = (rateOverlaps \/ InFlight # {})
    /\ UNCHANGED <<clock, bucket, admitted, since>>

\* The first pipeline: without keys the bucket is full, at this time.
ReadBucket(c) ==
    /\ arrival[c].step = "timed"
    /\ LET now == arrival[c].now
       IN  Goes(c, [step |-> "read", now |-> now,
                    parts |-> IF Expired THEN Capacity ELSE Refilled(bucket, now)])
    /\ UNCHANGED <<clock, bucket, admitted, since, rateOverlaps>>

\* The second, which writes what is left, a token less for a request let through.
WriteBucket(c) ==
    /\ arrival[c].step = "read"
    /\ LET allowed == arrival[c].parts >= Unit
       IN  /\ bucket' = [parts |-> arrival[c].parts - (IF allowed THEN Unit ELSE 0),
                         at |-> arrival[c].now, written |-> clock]
           /\ admitted' = IF allowed /\ arrival[c].now >= since THEN admitted + 1 ELSE admitted
    /\ Goes(c, Outside)
    /\ UNCHANGED <<clock, since, rateOverlaps>>

\* Redis fails: the request is let through unchecked, and not counted here.
RedisFails(c) ==
    /\ arrival[c] # Outside
    /\ Goes(c, Outside)
    /\ UNCHANGED <<clock, bucket, admitted, since, rateOverlaps>>

Tick ==
    /\ clock < MaxClock
    /\ \A c \in InFlight : clock - arrival[c].now < MaxDelay
    /\ clock' = clock + 1
    /\ \/ UNCHANGED <<admitted, since, rateOverlaps>>
       \/ admitted' = 0 /\ since' = clock' /\ rateOverlaps' = FALSE
    /\ UNCHANGED <<bucket, arrival>>
-----------------------------------------------------------------------------
\* A bucket that was never written is as one that expired.
RateLimiterInit ==
    /\ clock = 0
    /\ bucket = [parts |-> Capacity, at |-> 0, written |-> 0 - Ttl]
    /\ arrival = [c \in Arrivals |-> Outside]
    /\ admitted = 0
    /\ since = 0
    /\ rateOverlaps = FALSE

RateLimiterNext ==
    \/ Tick
    \/ \E c \in Arrivals : Arrive(c) \/ ReadBucket(c) \/ WriteBucket(c) \/ RedisFails(c)

-----------------------------------------------------------------------------
(* Requests that do not overlap are let through as the tiers say: in any   *)
(* stretch of time as many as a full bucket and what comes in meanwhile,   *)
(* whatever overlapped before, also when the bucket expires or Redis fails *)
(* in between.  Those that overlap are not, as each may write back what it *)
(* read before the others.                                                 *)
AdmittedWithinRate ==
    ~rateOverlaps => admitted * Unit <= Capacity + (clock - since) * Rate
===============================================================================
