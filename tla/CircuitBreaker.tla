---------------------------- MODULE CircuitBreaker ---------------------------
(***************************************************************************)
(* The process-wide circuit breaker every chat request goes through        *)
(* (src/backend/app/agents/circuit_breaker.py), with the requests that     *)
(* share it.  Requests are asyncio tasks of one process, so everything     *)
(* between two awaits of call_with_fallback is one step: a request picks   *)
(* its next candidate and starts the call in the same step, and settles a  *)
(* call, records its outcome and moves on in the same step.  What          *)
(* interleaves is the calls in flight.                                     *)
(*                                                                         *)
(* Two counters are kept only as far as the code reads them:               *)
(*  - failure_count is compared with max_failures and nothing else, so it  *)
(*    stops at MaxFailures;                                                *)
(*  - last_failure_time is only read as time.monotonic() minus itself,     *)
(*    compared with the cooldown, so it is kept as "elapsed", which stops  *)
(*    at Cooldown.                                                         *)
(* Both make the state space finite without bounding requests or time.     *)
(***************************************************************************)
EXTENDS Naturals, Sequences

CONSTANTS
    Requests,     \* concurrent callers of call_with_fallback
    Models,       \* "provider:model" keys
    Configured,   \* the models whose provider the registry knows
    Chains,       \* candidate lists: a primary and its fallback chain
    StreamModes,  \* values of the "stream" argument callers use
    MaxFailures,  \* max_failures (3 by default)
    Cooldown      \* cooldown_seconds, in clock ticks (60 s by default)

ASSUME BreakerAssumption ==
    /\ Configured \subseteq Models
    /\ Chains \subseteq Seq(Models)
    /\ StreamModes \subseteq BOOLEAN
    /\ MaxFailures \in Nat \ {0}
    /\ Cooldown \in Nat \ {0}

VARIABLES
    circuits,  \* _states: one _CircuitState per model
    pc,        \* where a request is
    chain,     \* the candidates of its current call
    pos,       \* the candidate being called, or the one that answered
    stream,    \* its "stream" argument
    reliable   \* the models whose provider never fails: fixed at the start,
               \* so that a run covers every such set

vars == <<circuits, pc, chain, pos, stream, reliable>>

\* "raised": RuntimeError, no candidate left; "broken": the generator raised in
\* the caller's hands, after call_with_fallback had returned it.
Locations == {"idle", "calling", "streaming", "returned", "raised", "broken"}

CircuitState ==
    [failure_count : 0..MaxFailures, elapsed : 0..Cooldown, is_open : BOOLEAN]

TypeOK ==
    /\ circuits \in [Models -> CircuitState]
    /\ pc \in [Requests -> Locations]
    /\ chain \in [Requests -> Chains \cup {<<>>}]
    /\ pos \in [Requests -> Nat]
    /\ \A r \in Requests : pos[r] \in 0..Len(chain[r])
    /\ \A r \in Requests : pc[r] \in {"calling", "streaming"} => pos[r] # 0
    /\ stream \in [Requests -> BOOLEAN]
    /\ reliable \in SUBSET Configured

-----------------------------------------------------------------------------
\* The candidates chat_service hands over: the primary, then the default
\* chain without it.  Callers of this module take Chains from here.
Candidates(primary, defaultChain) ==
    LET Other(m) == m # primary
    IN  <<primary>> \o SelectSeq(defaultChain, Other)

\* is_available: a closed circuit, or one whose cooldown has passed.  The
\* circuit itself does not change: there is no HALF-OPEN flag.
Available(cs, m) == cs[m].is_open => cs[m].elapsed >= Cooldown

\* Mutant of Usable: the loop forgets to ask is_available.
UsableIgnoresCircuit(cs, m) == m \in Configured

\* A candidate the loop of call_with_fallback does not skip.
Usable(cs, m) == Available(cs, m) /\ m \in Configured

\* Mutants of RecordSuccess: count down instead of resetting; reset the counter
\* and leave the flag.
RecordSuccessCountsDown(cs, m) ==
    [cs EXCEPT ![m] = [failure_count |-> @.failure_count - 1,
                       elapsed |-> @.elapsed, is_open |-> FALSE]]

RecordSuccessKeepsFlag(cs, m) == [cs EXCEPT ![m].failure_count = 0]

\* record_success
RecordSuccess(cs, m) ==
    [cs EXCEPT ![m] = [failure_count |-> 0, elapsed |-> @.elapsed, is_open |-> FALSE]]

\* Mutant of RecordFailure: the time of the failure is not stamped.
RecordFailureUnstamped(cs, m) ==
    LET count == IF cs[m].failure_count < MaxFailures
                 THEN cs[m].failure_count + 1 ELSE MaxFailures
    IN  [cs EXCEPT ![m].failure_count = count,
                   ![m].is_open = @ \/ count >= MaxFailures]

\* record_failure
RecordFailure(cs, m) ==
    LET count == IF cs[m].failure_count < MaxFailures
                 THEN cs[m].failure_count + 1 ELSE MaxFailures
    IN  [cs EXCEPT ![m] = [failure_count |-> count,
                           elapsed |-> 0,
                           is_open |-> @.is_open \/ count >= MaxFailures]]

-----------------------------------------------------------------------------
Init ==
    /\ circuits = [m \in Models |-> [failure_count |-> 0,
                                     elapsed |-> Cooldown,
                                     is_open |-> FALSE]]
    /\ pc = [r \in Requests |-> "idle"]
    /\ chain = [r \in Requests |-> <<>>]
    /\ pos = [r \in Requests |-> 0]
    /\ stream = [r \in Requests |-> FALSE]
    /\ reliable \in SUBSET Configured

\* Mutants of Rest: the loop starts over after a failure; it skips a candidate.
RestStartsOver(i, ch) == 1..Len(ch)

RestSkipsOne(i, ch) == (i + 1)..Len(ch)

\* The candidates the loop still has to look at, from position i of list ch.
Rest(i, ch) == i..Len(ch)

\* The loop from position i on, with the circuits as cs leaves them: the first
\* usable candidate is called, and without one RuntimeError is raised.  A
\* streaming call hands back its generator before any byte is asked for, so
\* it is recorded as a success in the step that makes it.
Proceed(r, i, ch, cs, str) ==
    LET usable == {j \in Rest(i, ch) : Usable(cs, ch[j])}
    IN  \/ /\ usable = {}
           /\ pc' = [pc EXCEPT ![r] = "raised"]
           /\ pos' = [pos EXCEPT ![r] = 0]
           /\ circuits' = cs
        \/ \E j \in usable :
             /\ \A k \in usable : j <= k
             /\ pos' = [pos EXCEPT ![r] = j]
             /\ \/ /\ ~str
                   /\ pc' = [pc EXCEPT ![r] = "calling"]
                   /\ circuits' = cs
                \/ /\ str
                   /\ pc' = [pc EXCEPT ![r] = "streaming"]
                   /\ circuits' = RecordSuccess(cs, ch[j])

\* A request enters call_with_fallback (once per tool round of a chat).
Begin(r) ==
    /\ pc[r] \notin {"calling", "streaming"}
    /\ \E ch \in Chains, str \in StreamModes :
         /\ chain' = [chain EXCEPT ![r] = ch]
         /\ stream' = [stream EXCEPT ![r] = str]
         /\ Proceed(r, 1, ch, circuits, str)
    /\ UNCHANGED reliable

\* The provider answers a non-streaming call.
CallSucceeds(r) ==
    /\ pc[r] = "calling"
    /\ pc' = [pc EXCEPT ![r] = "returned"]
    /\ circuits' = RecordSuccess(circuits, chain[r][pos[r]])
    /\ UNCHANGED <<chain, pos, stream, reliable>>

\* A non-streaming call raises; the loop goes on with the next candidate.
CallFails(r) ==
    /\ pc[r] = "calling"
    /\ chain[r][pos[r]] \notin reliable
    /\ Proceed(r, pos[r] + 1, chain[r],
               RecordFailure(circuits, chain[r][pos[r]]), stream[r])
    /\ UNCHANGED <<chain, stream, reliable>>

\* The caller consumes the generator to its end ...
StreamEnds(r) ==
    /\ pc[r] = "streaming"
    /\ pc' = [pc EXCEPT ![r] = "returned"]
    /\ UNCHANGED <<circuits, chain, pos, stream, reliable>>

\* ... or the generator raises while it is consumed, outside the breaker,
\* which never hears of it.
StreamBreaks(r) ==
    /\ pc[r] = "streaming"
    /\ chain[r][pos[r]] \notin reliable
    /\ pc' = [pc EXCEPT ![r] = "broken"]
    /\ UNCHANGED <<circuits, chain, pos, stream, reliable>>

\* time.monotonic() advances.
Tick ==
    /\ \E m \in Models : circuits[m].elapsed < Cooldown
    /\ circuits' = [m \in Models |->
                      [circuits[m] EXCEPT !.elapsed = IF @ < Cooldown THEN @ + 1 ELSE @]]
    /\ UNCHANGED <<pc, chain, pos, stream, reliable>>

Settle(r) == CallSucceeds(r) \/ CallFails(r) \/ StreamEnds(r) \/ StreamBreaks(r)

Next == Tick \/ \E r \in Requests : Begin(r) \/ Settle(r)

\* Time passes, and a call in flight ends: every provider client has an httpx
\* timeout (120 s, Ollama 300 s).  Nothing makes a caller begin.
Fairness ==
    /\ WF_vars(Tick)
    /\ \A r \in Requests : WF_vars(Settle(r))

Spec == Init /\ [][Next]_vars /\ Fairness

-----------------------------------------------------------------------------
(* Properties *)

\* The flag and the counter never disagree, whatever calls were in flight when
\* the circuit opened or closed: a circuit is open exactly when max_failures
\* failures have been recorded since the last success.
OpenAtThreshold ==
    \A m \in Models : circuits[m].is_open <=> circuits[m].failure_count = MaxFailures

\* "All models failed" is never reported while a candidate's provider works:
\* other requests' failures, circuits left open by them and the order of the
\* chain cannot keep a request from a provider that never fails.
ReliableCandidateAnswers ==
    \A r \in Requests, m \in reliable :
        pc[r] = "raised" => \A j \in DOMAIN chain[r] : chain[r][j] # m

\* The requests with a call to m in flight: one that has not been answered, or
\* a stream that is being consumed.
CallsTo(m) ==
    {r \in Requests : pc[r] \in {"calling", "streaming"} /\ chain[r][pos[r]] = m}

\* While a circuit cools down, no request starts a call to its model, streaming
\* or not: what is in flight to it only drains.  (The failure of a call restarts
\* the cooldown, and its success ends it early.)
CoolingModelIsLeftAlone ==
    [][\A m \in Models : ~Available(circuits, m) => CallsTo(m)' \subseteq CallsTo(m)]_vars

\* A circuit that blocks its model stops blocking it: late failures can extend
\* the cooldown, but only as many as there were calls in flight.
CooldownEnds ==
    \A m \in Models : ~Available(circuits, m) ~> Available(circuits, m)

\* Every request is answered or told that no model is left.
RequestEnds ==
    \A r \in Requests :
        pc[r] \in {"calling", "streaming"} ~> pc[r] \in {"returned", "raised", "broken"}

\* Neither a circuit nor a request is stuck.
BreakerRecovers == CooldownEnds /\ RequestEnds

\* The breaker keeps the promise of BreakerStates: open and half-open are the
\* same flag told apart by the clock.
Mode(m) ==
    CASE ~circuits[m].is_open -> "closed"
      [] circuits[m].is_open /\ circuits[m].elapsed < Cooldown -> "open"
      [] circuits[m].is_open /\ circuits[m].elapsed >= Cooldown -> "half_open"

Promise == INSTANCE BreakerStates WITH
    mode <- [m \in Models |-> Mode(m)],
    strikes <- [m \in Models |-> circuits[m].failure_count]

ImplementsBreakerStates == Promise!Spec

=============================================================================
