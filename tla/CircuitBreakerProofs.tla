------------------------ MODULE CircuitBreakerProofs -------------------------
(***************************************************************************)
(* Proofs about CircuitBreaker, for any number of requests, models and     *)
(* chains, any threshold and any cooldown.                                 *)
(***************************************************************************)
EXTENDS CircuitBreaker, TLAPS

\* record_success returns a well-typed table, closes the model's circuit with
\* a zero count, and leaves every other model's circuit alone.
LEMMA RecordSuccessCloses ==
    ASSUME NEW cs \in [Models -> CircuitState], NEW m \in Models
    PROVE  /\ RecordSuccess(cs, m) \in [Models -> CircuitState]
           /\ RecordSuccess(cs, m)[m].failure_count = 0
           /\ RecordSuccess(cs, m)[m].elapsed = cs[m].elapsed
           /\ RecordSuccess(cs, m)[m].is_open = FALSE
           /\ \A n \in Models \ {m} : RecordSuccess(cs, m)[n] = cs[n]
<1>. DEFINE closed == [failure_count |-> 0, elapsed |-> cs[m].elapsed, is_open |-> FALSE]
<1>1. cs[m].elapsed \in 0..Cooldown /\ 0 \in 0..MaxFailures
  BY BreakerAssumption DEF CircuitState
<1>2. RecordSuccess(cs, m) = [cs EXCEPT ![m] = closed]
  BY DEF RecordSuccess
<1>3. /\ closed \in CircuitState
      /\ closed.failure_count = 0
      /\ closed.elapsed = cs[m].elapsed
      /\ closed.is_open = FALSE
  BY <1>1 DEF CircuitState
<1>. HIDE DEF closed
<1>4. /\ RecordSuccess(cs, m) \in [Models -> CircuitState]
      /\ RecordSuccess(cs, m)[m] = closed
      /\ \A n \in Models \ {m} : RecordSuccess(cs, m)[n] = cs[n]
  BY <1>2, <1>3
<1>. QED
  BY <1>3, <1>4

LEMMA RecordSuccessIsLocal ==
    ASSUME NEW cs \in [Models -> CircuitState], NEW m \in Models,
           NEW n \in Models, n # m
    PROVE  RecordSuccess(cs, m)[n] = cs[n]
  BY DEF RecordSuccess

\* record_failure returns a well-typed table, restarts the model's cooldown,
\* never closes a circuit, opens it when the count reaches the threshold, and
\* leaves every other model's circuit alone.
Counted(c) == IF c.failure_count < MaxFailures THEN c.failure_count + 1 ELSE MaxFailures

LEMMA RecordFailureCounts ==
    ASSUME NEW cs \in [Models -> CircuitState], NEW m \in Models
    PROVE  /\ RecordFailure(cs, m) \in [Models -> CircuitState]
           /\ RecordFailure(cs, m)[m].failure_count = Counted(cs[m])
           /\ RecordFailure(cs, m)[m].elapsed = 0
           /\ RecordFailure(cs, m)[m].is_open <=>
                (cs[m].is_open \/ Counted(cs[m]) >= MaxFailures)
           /\ \A n \in Models \ {m} : RecordFailure(cs, m)[n] = cs[n]
<1>. DEFINE open == cs[m].is_open \/ Counted(cs[m]) >= MaxFailures
            failed == [failure_count |-> Counted(cs[m]), elapsed |-> 0, is_open |-> open]
<1>1. /\ Counted(cs[m]) \in 0..MaxFailures
      /\ 0 \in 0..Cooldown
      /\ open \in BOOLEAN
  BY BreakerAssumption DEF CircuitState, Counted
<1>2. RecordFailure(cs, m) = [cs EXCEPT ![m] = failed]
  BY DEF RecordFailure, Counted
<1>. HIDE DEF open
<1>3. /\ failed \in CircuitState
      /\ failed.failure_count = Counted(cs[m])
      /\ failed.elapsed = 0
      /\ failed.is_open = open
  BY <1>1 DEF CircuitState
<1>. HIDE DEF failed
<1>4. /\ RecordFailure(cs, m) \in [Models -> CircuitState]
      /\ RecordFailure(cs, m)[m] = failed
      /\ \A n \in Models \ {m} : RecordFailure(cs, m)[n] = cs[n]
  BY <1>2, <1>3
<1>. QED
  BY <1>3, <1>4 DEF open

\* A position of a request's chain holds a model.
LEMMA ChainHoldsModels ==
    ASSUME TypeOK, NEW r \in Requests, NEW j \in 1..Len(chain[r])
    PROVE  chain[r][j] \in Models
  BY BreakerAssumption DEF TypeOK

\* What the candidate loop does to the variables it assigns, whichever way it
\* goes: the types, the position, and the circuits, which are cs itself or cs
\* with one success recorded.
LEMMA ProceedShape ==
    ASSUME TypeOK, NEW r \in Requests, NEW i \in Nat \ {0}, NEW ch \in Chains,
           NEW cs \in [Models -> CircuitState], NEW str \in BOOLEAN,
           Proceed(r, i, ch, cs, str)
    PROVE  /\ circuits' \in [Models -> CircuitState]
           /\ pc' \in [Requests -> Locations]
           /\ pos' \in [Requests -> Nat]
           /\ \A q \in Requests \ {r} : pc'[q] = pc[q] /\ pos'[q] = pos[q]
           /\ \/ /\ pc'[r] = "raised"
                 /\ pos'[r] = 0
                 /\ circuits' = cs
                 /\ \A j \in Rest(i, ch) : ~Usable(cs, ch[j])
              \/ /\ pc'[r] \in {"calling", "streaming"}
                 /\ pos'[r] \in Rest(i, ch)
                 /\ ch[pos'[r]] \in Models
                 /\ Usable(cs, ch[pos'[r]])
                 /\ \A j \in Rest(i, ch) : j < pos'[r] => ~Usable(cs, ch[j])
                 /\ \/ pc'[r] = "calling" /\ circuits' = cs
                    \/ /\ pc'[r] = "streaming"
                       /\ circuits' = RecordSuccess(cs, ch[pos'[r]])
<1>. ch \in Seq(Models)
  BY BreakerAssumption
<1>. DEFINE usable == {j \in Rest(i, ch) : Usable(cs, ch[j])}
<1>1. CASE /\ usable = {}
           /\ pc' = [pc EXCEPT ![r] = "raised"]
           /\ pos' = [pos EXCEPT ![r] = 0]
           /\ circuits' = cs
  BY <1>1 DEF TypeOK, Locations
<1>2. ASSUME NEW j \in usable,
             \A k \in usable : j <= k,
             pos' = [pos EXCEPT ![r] = j],
             \/ /\ pc' = [pc EXCEPT ![r] = "calling"]
                /\ circuits' = cs
             \/ /\ pc' = [pc EXCEPT ![r] = "streaming"]
                /\ circuits' = RecordSuccess(cs, ch[j])
      PROVE  /\ circuits' \in [Models -> CircuitState]
             /\ pc' \in [Requests -> Locations]
             /\ pos' \in [Requests -> Nat]
             /\ \A q \in Requests \ {r} : pc'[q] = pc[q] /\ pos'[q] = pos[q]
             /\ pc'[r] \in {"calling", "streaming"}
             /\ pos'[r] \in Rest(i, ch)
             /\ ch[pos'[r]] \in Models
             /\ Usable(cs, ch[pos'[r]])
             /\ \A k \in Rest(i, ch) : k < pos'[r] => ~Usable(cs, ch[k])
             /\ \/ pc'[r] = "calling" /\ circuits' = cs
                \/ /\ pc'[r] = "streaming"
                   /\ circuits' = RecordSuccess(cs, ch[pos'[r]])
  <2>1. j \in Nat /\ j \in 1..Len(ch) /\ Usable(cs, ch[j])
    BY DEF Rest
  <2>2. ch[j] \in Models
    BY <2>1
  <2>3. pos'[r] = j /\ pos' \in [Requests -> Nat]
    BY <1>2, <2>1 DEF TypeOK
  <2>4. \A k \in Rest(i, ch) : k < j => ~Usable(cs, ch[k])
    BY <1>2, <2>1 DEF Rest
  <2>5. \A q \in Requests \ {r} : pc'[q] = pc[q] /\ pos'[q] = pos[q]
    BY <1>2 DEF TypeOK
  <2>6. /\ pc' \in [Requests -> Locations]
        /\ pc'[r] \in {"calling", "streaming"}
    BY <1>2 DEF TypeOK, Locations
  <2>7. circuits' \in [Models -> CircuitState]
    BY <1>2, <2>2, RecordSuccessCloses
  <2>8. \/ pc'[r] = "calling" /\ circuits' = cs
        \/ pc'[r] = "streaming" /\ circuits' = RecordSuccess(cs, ch[j])
    BY <1>2 DEF TypeOK
  <2>. QED
    BY <2>1, <2>2, <2>3, <2>4, <2>5, <2>6, <2>7, <2>8
<1>. QED
  BY <1>1, <1>2 DEF Proceed

\* The candidates the loop has left behind were not usable.
LEMMA ProceedSkipsUnusable ==
    ASSUME TypeOK, NEW r \in Requests, NEW i \in Nat \ {0}, NEW ch \in Chains,
           NEW cs \in [Models -> CircuitState], NEW str \in BOOLEAN,
           Proceed(r, i, ch, cs, str)
    PROVE  /\ pc'[r] # "raised" => pos'[r] \in Rest(i, ch)
           /\ \A k \in Rest(i, ch) :
                pc'[r] = "raised" \/ k < pos'[r] => ~Usable(cs, ch[k])
<1>1. CASE /\ pc'[r] = "raised"
           /\ \A k \in Rest(i, ch) : ~Usable(cs, ch[k])
  BY <1>1
<1>2. CASE /\ pc'[r] \in {"calling", "streaming"}
           /\ pos'[r] \in Rest(i, ch)
           /\ \A k \in Rest(i, ch) : k < pos'[r] => ~Usable(cs, ch[k])
  BY <1>2
<1>. QED
  BY <1>1, <1>2, ProceedShape

-----------------------------------------------------------------------------
LEMMA InitTypeOK == Init => TypeOK
  BY BreakerAssumption DEF Init, TypeOK, CircuitState, Locations

LEMMA NextTypeOK == TypeOK /\ [Next]_vars => TypeOK'
<1>. SUFFICES ASSUME TypeOK, [Next]_vars PROVE TypeOK'
  OBVIOUS
<1>1. CASE Tick
  <2>1. ASSUME NEW m \in Models PROVE circuits'[m] \in CircuitState
    <3>1. circuits[m] \in CircuitState
      BY DEF TypeOK
    <3>2. (IF circuits[m].elapsed < Cooldown
           THEN circuits[m].elapsed + 1 ELSE circuits[m].elapsed) \in 0..Cooldown
      BY <3>1, BreakerAssumption DEF CircuitState
    <3>3. circuits'[m] = [circuits[m] EXCEPT !.elapsed =
                            IF circuits[m].elapsed < Cooldown
                            THEN circuits[m].elapsed + 1 ELSE circuits[m].elapsed]
      BY <1>1 DEF Tick
    <3>. QED
      BY <3>1, <3>2, <3>3 DEF CircuitState
  <2>2. circuits' \in [Models -> CircuitState]
    BY <1>1, <2>1 DEF Tick
  <2>. QED
    BY <1>1, <2>2 DEF Tick, TypeOK
<1>2. ASSUME NEW r \in Requests, Begin(r) PROVE TypeOK'
  <2>1. PICK ch \in Chains, str \in StreamModes :
           /\ chain' = [chain EXCEPT ![r] = ch]
           /\ stream' = [stream EXCEPT ![r] = str]
           /\ Proceed(r, 1, ch, circuits, str)
    BY <1>2 DEF Begin
  <2>2. str \in BOOLEAN /\ circuits \in [Models -> CircuitState] /\ ch \in Seq(Models)
    BY BreakerAssumption DEF TypeOK
  <2>3. /\ circuits' \in [Models -> CircuitState]
        /\ pc' \in [Requests -> Locations]
        /\ pos' \in [Requests -> Nat]
        /\ \A q \in Requests \ {r} : pc'[q] = pc[q] /\ pos'[q] = pos[q]
        /\ pos'[r] \in 0..Len(ch)
        /\ pc'[r] \in {"calling", "streaming"} => pos'[r] # 0
    BY <2>1, <2>2, ProceedShape DEF Rest
  <2>4. chain' \in [Requests -> Chains \cup {<<>>}] /\ chain'[r] = ch
    BY <2>1 DEF TypeOK
  <2>5. stream' \in [Requests -> BOOLEAN] /\ reliable' = reliable
    BY <1>2, <2>1, <2>2 DEF Begin, TypeOK
  <2>6. \A q \in Requests : pos'[q] \in 0..Len(chain'[q])
    BY <2>1, <2>3, <2>4 DEF TypeOK
  <2>7. \A q \in Requests : pc'[q] \in {"calling", "streaming"} => pos'[q] # 0
    BY <2>3 DEF TypeOK
  <2>. QED
    BY <2>3, <2>4, <2>5, <2>6, <2>7 DEF TypeOK
<1>3. ASSUME NEW r \in Requests, CallSucceeds(r) PROVE TypeOK'
  <2>1. chain[r][pos[r]] \in Models
    BY <1>3, ChainHoldsModels DEF CallSucceeds, TypeOK
  <2>2. circuits' \in [Models -> CircuitState]
    BY <1>3, <2>1, RecordSuccessCloses DEF CallSucceeds, TypeOK
  <2>. QED
    BY <1>3, <2>2 DEF CallSucceeds, TypeOK, Locations
<1>4. ASSUME NEW r \in Requests, CallFails(r) PROVE TypeOK'
  <2>. DEFINE cs == RecordFailure(circuits, chain[r][pos[r]])
  <2>1. pos[r] \in 1..Len(chain[r]) /\ chain[r] \in Chains
    BY <1>4, BreakerAssumption DEF CallFails, TypeOK
  <2>2. cs \in [Models -> CircuitState]
    BY <2>1, ChainHoldsModels, RecordFailureCounts DEF TypeOK
  <2>3. Proceed(r, pos[r] + 1, chain[r], cs, stream[r])
    BY <1>4 DEF CallFails
  <2>. HIDE DEF cs
  <2>4. pos[r] + 1 \in Nat \ {0} /\ chain[r] \in Seq(Models)
    BY <2>1, BreakerAssumption
  <2>. DEFINE i == pos[r] + 1
              ch == chain[r]
  <2>5. /\ circuits' \in [Models -> CircuitState]
        /\ pc' \in [Requests -> Locations]
        /\ pos' \in [Requests -> Nat]
        /\ \A q \in Requests \ {r} : pc'[q] = pc[q] /\ pos'[q] = pos[q]
        /\ pos'[r] \in 0..Len(chain[r])
        /\ pc'[r] \in {"calling", "streaming"} => pos'[r] # 0
    <3>1. /\ i \in Nat \ {0} /\ ch \in Chains /\ ch \in Seq(Models)
          /\ Proceed(r, i, ch, cs, stream[r]) /\ stream[r] \in BOOLEAN
      BY <2>1, <2>3, <2>4 DEF TypeOK
    <3>. HIDE DEF i, ch
    <3>2. /\ circuits' \in [Models -> CircuitState]
          /\ pc' \in [Requests -> Locations]
          /\ pos' \in [Requests -> Nat]
          /\ \A q \in Requests \ {r} : pc'[q] = pc[q] /\ pos'[q] = pos[q]
          /\ pos'[r] \in 0..Len(ch)
          /\ pc'[r] \in {"calling", "streaming"} => pos'[r] # 0
      BY <2>2, <3>1, ProceedShape DEF Rest
    <3>. QED
      BY <3>2 DEF ch
  <2>6. UNCHANGED <<chain, stream, reliable>>
    BY <1>4 DEF CallFails
  <2>7. \A q \in Requests : pos'[q] \in 0..Len(chain'[q])
    BY <2>5, <2>6 DEF TypeOK
  <2>8. \A q \in Requests : pc'[q] \in {"calling", "streaming"} => pos'[q] # 0
    BY <2>5 DEF TypeOK
  <2>. QED
    BY <2>5, <2>6, <2>7, <2>8 DEF TypeOK
<1>5. ASSUME NEW r \in Requests, StreamEnds(r) PROVE TypeOK'
  BY <1>5 DEF StreamEnds, TypeOK, Locations
<1>6. ASSUME NEW r \in Requests, StreamBreaks(r) PROVE TypeOK'
  BY <1>6 DEF StreamBreaks, TypeOK, Locations
<1>7. CASE UNCHANGED vars
  BY <1>7 DEF vars, TypeOK
<1>. QED
  BY <1>1, <1>2, <1>3, <1>4, <1>5, <1>6, <1>7 DEF Next, Settle

\* Type correctness of the breaker and of the requests that share it.
THEOREM TypeCorrect == Spec => []TypeOK
  BY InitTypeOK, NextTypeOK, PTL DEF Spec

-----------------------------------------------------------------------------
\* A request that awaits a call is not a streaming one, so the loop that goes
\* on after a failure never records a success in the same step.
CallsAreNotStreams == \A r \in Requests : pc[r] = "calling" => stream[r] = FALSE

LEMMA NextCallsAreNotStreams ==
    TypeOK /\ CallsAreNotStreams /\ [Next]_vars => CallsAreNotStreams'
<1>. SUFFICES ASSUME TypeOK, CallsAreNotStreams, [Next]_vars PROVE CallsAreNotStreams'
  OBVIOUS
<1>1. ASSUME NEW r \in Requests, Begin(r) PROVE CallsAreNotStreams'
  <2>1. PICK ch \in Chains, str \in StreamModes :
           /\ stream' = [stream EXCEPT ![r] = str]
           /\ Proceed(r, 1, ch, circuits, str)
    BY <1>1 DEF Begin
  <2>2. str \in BOOLEAN
    BY BreakerAssumption
  <2>3. pc'[r] = "calling" => str = FALSE
    BY <2>1, <2>2 DEF Proceed, TypeOK
  <2>4. \A q \in Requests \ {r} : pc'[q] = pc[q] /\ stream'[q] = stream[q]
    BY <2>1 DEF Proceed, TypeOK
  <2>. QED
    BY <2>1, <2>3, <2>4 DEF CallsAreNotStreams, TypeOK
<1>2. ASSUME NEW r \in Requests, CallFails(r) PROVE CallsAreNotStreams'
  <2>1. \A q \in Requests \ {r} : pc'[q] = pc[q]
    BY <1>2 DEF CallFails, Proceed, TypeOK
  <2>. QED
    BY <1>2, <2>1 DEF CallsAreNotStreams, CallFails
<1>3. ASSUME NEW r \in Requests, CallSucceeds(r) \/ StreamEnds(r) \/ StreamBreaks(r)
      PROVE  CallsAreNotStreams'
  BY <1>3 DEF CallsAreNotStreams, CallSucceeds, StreamEnds, StreamBreaks, TypeOK
<1>4. CASE Tick \/ UNCHANGED vars
  BY <1>4 DEF CallsAreNotStreams, Tick, vars
<1>. QED
  BY <1>1, <1>2, <1>3, <1>4 DEF Next, Settle

\* Whatever a step does to the circuits is one of four things.
LEMMA CircuitSteps ==
    ASSUME TypeOK, CallsAreNotStreams, [Next]_vars
    PROVE  \/ Tick
           \/ circuits' = circuits
           \/ \E m \in Models : circuits' = RecordSuccess(circuits, m)
           \/ \E m \in Models : circuits' = RecordFailure(circuits, m)
<1>1. ASSUME NEW r \in Requests, Begin(r)
      PROVE  \/ circuits' = circuits
             \/ \E m \in Models : circuits' = RecordSuccess(circuits, m)
  <2>1. PICK ch \in Chains, str \in StreamModes : Proceed(r, 1, ch, circuits, str)
    BY <1>1 DEF Begin
  <2>2. str \in BOOLEAN /\ circuits \in [Models -> CircuitState]
    BY BreakerAssumption DEF TypeOK
  <2>. QED
    BY <2>1, <2>2, ProceedShape
<1>2. ASSUME NEW r \in Requests, CallSucceeds(r)
      PROVE  \E m \in Models : circuits' = RecordSuccess(circuits, m)
  BY <1>2, ChainHoldsModels DEF CallSucceeds, TypeOK
<1>3. ASSUME NEW r \in Requests, CallFails(r)
      PROVE  \E m \in Models : circuits' = RecordFailure(circuits, m)
  <2>1. chain[r][pos[r]] \in Models
    BY <1>3, ChainHoldsModels DEF CallFails, TypeOK
  <2>2. stream[r] = FALSE
    BY <1>3 DEF CallsAreNotStreams, CallFails
  <2>3. circuits' = RecordFailure(circuits, chain[r][pos[r]])
    BY <1>3, <2>2 DEF CallFails, Proceed
  <2>. QED
    BY <2>1, <2>3
<1>4. ASSUME NEW r \in Requests, StreamEnds(r) \/ StreamBreaks(r)
      PROVE  circuits' = circuits
  BY <1>4 DEF StreamEnds, StreamBreaks
<1>5. CASE UNCHANGED vars
  BY <1>5 DEF vars
<1>. QED
  BY <1>1, <1>2, <1>3, <1>4, <1>5 DEF Next, Settle

-----------------------------------------------------------------------------
LEMMA NextOpenAtThreshold ==
    TypeOK /\ CallsAreNotStreams /\ OpenAtThreshold /\ [Next]_vars => OpenAtThreshold'
<1>. SUFFICES ASSUME TypeOK, CallsAreNotStreams, OpenAtThreshold, [Next]_vars,
                     NEW n \in Models
              PROVE  circuits'[n].is_open <=> circuits'[n].failure_count = MaxFailures
  BY DEF OpenAtThreshold
<1>1. /\ circuits \in [Models -> CircuitState]
      /\ circuits[n] \in CircuitState
      /\ circuits[n].is_open <=> circuits[n].failure_count = MaxFailures
  BY DEF TypeOK, OpenAtThreshold
<1>2. CASE Tick
  <2>1. /\ circuits'[n].is_open = circuits[n].is_open
        /\ circuits'[n].failure_count = circuits[n].failure_count
    BY <1>1, <1>2 DEF Tick, CircuitState
  <2>. QED
    BY <1>1, <2>1
<1>3. CASE circuits' = circuits
  BY <1>1, <1>3
<1>4. ASSUME NEW m \in Models, circuits' = RecordSuccess(circuits, m)
      PROVE  circuits'[n].is_open <=> circuits'[n].failure_count = MaxFailures
  <2>1. CASE n # m
    <3>1. circuits'[n] = circuits[n]
      BY <1>1, <1>4, <2>1, RecordSuccessIsLocal
    <3>. QED
      BY <1>1, <3>1
  <2>2. CASE n = m
    <3>1. circuits'[n].failure_count = 0 /\ circuits'[n].is_open = FALSE
      BY <1>1, <1>4, <2>2, RecordSuccessCloses
    <3>. QED
      BY <3>1, BreakerAssumption
  <2>. QED
    BY <2>1, <2>2
<1>5. ASSUME NEW m \in Models, circuits' = RecordFailure(circuits, m)
      PROVE  circuits'[n].is_open <=> circuits'[n].failure_count = MaxFailures
  <2>1. CASE n # m
    <3>1. circuits'[n] = circuits[n]
      BY <1>1, <1>5, <2>1, RecordFailureCounts
    <3>. QED
      BY <1>1, <3>1
  <2>2. CASE n = m
    <3>1. /\ circuits'[n].failure_count = Counted(circuits[n])
          /\ circuits'[n].is_open <=>
               (circuits[n].is_open \/ Counted(circuits[n]) >= MaxFailures)
      BY <1>1, <1>5, <2>2, RecordFailureCounts
    <3>2. Counted(circuits[n]) >= MaxFailures <=> Counted(circuits[n]) = MaxFailures
      BY <1>1, BreakerAssumption DEF Counted, CircuitState
    <3>3. circuits[n].failure_count = MaxFailures => Counted(circuits[n]) = MaxFailures
      BY BreakerAssumption DEF Counted
    <3>. QED
      BY <1>1, <3>1, <3>2, <3>3
  <2>. QED
    BY <2>1, <2>2
<1>. QED
  BY <1>2, <1>3, <1>4, <1>5, CircuitSteps

\* A circuit is open exactly when its count stands at the threshold, whatever
\* the interleaving of calls that settle late.
THEOREM ThresholdDecides == Spec => []OpenAtThreshold
<1>1. Init => CallsAreNotStreams /\ OpenAtThreshold
  BY BreakerAssumption DEF Init, CallsAreNotStreams, OpenAtThreshold
<1>. QED
  BY <1>1, TypeCorrect, NextCallsAreNotStreams, NextOpenAtThreshold, PTL DEF Spec

-----------------------------------------------------------------------------
\* The strengthening of ReliableCandidateAnswers: the circuit of a reliable
\* model never opens, and a request has not moved past one.
ReliableStaysClosed == \A m \in reliable : ~circuits[m].is_open

NonePassedOver ==
    \A r \in Requests, m \in reliable :
        pc[r] = "calling" => \A j \in 1..(pos[r] - 1) : chain[r][j] # m

ReliableInv == ReliableStaysClosed /\ NonePassedOver /\ ReliableCandidateAnswers

\* The loop, run from position i of a chain with nothing reliable before i, on
\* circuits where reliable models are closed, ends past no reliable model.
LEMMA LoopStopsAtReliable ==
    ASSUME TypeOK, NEW r \in Requests, NEW i \in Nat \ {0}, NEW ch \in Chains,
           NEW cs \in [Models -> CircuitState], NEW str \in BOOLEAN,
           Proceed(r, i, ch, cs, str),
           \A m \in reliable : ~cs[m].is_open,
           \A m \in reliable : \A j \in 1..(i - 1) : ch[j] # m
    PROVE  \A m \in reliable :
             /\ ~circuits'[m].is_open
             /\ pc'[r] = "calling" => \A j \in 1..(pos'[r] - 1) : ch[j] # m
             /\ pc'[r] = "raised" => \A j \in 1..Len(ch) : ch[j] # m
<1>. SUFFICES ASSUME NEW m \in reliable
              PROVE  /\ ~circuits'[m].is_open
                     /\ pc'[r] = "calling" => \A j \in 1..(pos'[r] - 1) : ch[j] # m
                     /\ pc'[r] = "raised" => \A j \in 1..Len(ch) : ch[j] # m
  OBVIOUS
<1>1. m \in Models /\ m \in Configured /\ ch \in Seq(Models) /\ Len(ch) \in Nat
  BY BreakerAssumption DEF TypeOK
<1>2. Usable(cs, m)
  BY <1>1 DEF Usable, Available
<1>3. ~circuits'[m].is_open
  <2>1. circuits' = cs \/ \E n \in Models : circuits' = RecordSuccess(cs, n)
    BY ProceedShape
  <2>2. ASSUME NEW n \in Models, circuits' = RecordSuccess(cs, n)
        PROVE  ~circuits'[m].is_open
    <3>1. CASE n = m
      BY <1>1, <2>2, <3>1, RecordSuccessCloses
    <3>2. CASE n # m
      <4>1. circuits'[m] = cs[m]
        BY <1>1, <2>2, <3>2, RecordSuccessIsLocal
      <4>. QED
        BY <4>1
    <3>. QED
      BY <3>1, <3>2
  <2>. QED
    BY <2>1, <2>2
<1>4. ASSUME pc'[r] = "calling", NEW j \in 1..(pos'[r] - 1) PROVE ch[j] # m
  <2>1. /\ pos'[r] \in Rest(i, ch)
        /\ \A k \in Rest(i, ch) : k < pos'[r] => ~Usable(cs, ch[k])
    BY <1>4, ProceedSkipsUnusable
  <2>2. CASE j < i
    BY <2>1, <2>2 DEF Rest
  <2>3. CASE j >= i
    BY <1>1, <1>2, <2>1, <2>3 DEF Rest
  <2>. QED
    BY <1>1, <2>1, <2>2, <2>3 DEF Rest
<1>5. ASSUME pc'[r] = "raised", NEW j \in 1..Len(ch) PROVE ch[j] # m
  <2>1. \A k \in Rest(i, ch) : ~Usable(cs, ch[k])
    BY <1>5, ProceedSkipsUnusable
  <2>2. CASE j < i
    BY <2>2
  <2>3. CASE j >= i
    BY <1>1, <1>2, <2>1, <2>3 DEF Rest
  <2>. QED
    BY <1>1, <2>2, <2>3
<1>. QED
  BY <1>3, <1>4, <1>5

LEMMA NextReliableInv == TypeOK /\ ReliableInv /\ [Next]_vars => ReliableInv'
<1>. SUFFICES ASSUME TypeOK, ReliableInv, [Next]_vars PROVE ReliableInv'
  OBVIOUS
<1>1. reliable' = reliable
  BY DEF Next, Settle, Tick, Begin, CallSucceeds, CallFails, StreamEnds, StreamBreaks, vars
<1>. USE DEF ReliableInv, ReliableStaysClosed, NonePassedOver, ReliableCandidateAnswers
<1>2. CASE Tick
  <2>1. \A m \in reliable : circuits'[m].is_open = circuits[m].is_open
    BY <1>2, BreakerAssumption DEF Tick, TypeOK, CircuitState
  <2>2. \A m \in reliable : ~circuits'[m].is_open
    BY <2>1
  <2>. QED
    BY <1>1, <1>2, <2>2 DEF Tick
<1>3. ASSUME NEW r \in Requests, Begin(r) PROVE ReliableInv'
  <2>1. PICK ch \in Chains, str \in StreamModes :
           /\ chain' = [chain EXCEPT ![r] = ch]
           /\ Proceed(r, 1, ch, circuits, str)
    BY <1>3 DEF Begin
  <2>2. str \in BOOLEAN /\ circuits \in [Models -> CircuitState] /\ ch \in Seq(Models)
    BY BreakerAssumption DEF TypeOK
  <2>3. \A m \in reliable :
          /\ ~circuits'[m].is_open
          /\ pc'[r] = "calling" => \A j \in 1..(pos'[r] - 1) : ch[j] # m
          /\ pc'[r] = "raised" => \A j \in 1..Len(ch) : ch[j] # m
    BY <2>1, <2>2, LoopStopsAtReliable
  <2>4. chain'[r] = ch /\ DOMAIN ch = 1..Len(ch)
    BY <2>1, <2>2 DEF TypeOK
  <2>5. \A q \in Requests \ {r} : pc'[q] = pc[q] /\ pos'[q] = pos[q] /\ chain'[q] = chain[q]
    BY <2>1, <2>2, ProceedShape DEF TypeOK
  <2>. QED
    BY <1>1, <2>3, <2>4, <2>5
<1>4. ASSUME NEW r \in Requests, CallSucceeds(r) PROVE ReliableInv'
  <2>1. chain[r][pos[r]] \in Models /\ circuits \in [Models -> CircuitState]
    BY <1>4, ChainHoldsModels DEF CallSucceeds, TypeOK
  <2>2. ASSUME NEW m \in reliable PROVE ~circuits'[m].is_open
    <3>1. m \in Models
      BY BreakerAssumption DEF TypeOK
    <3>2. CASE m = chain[r][pos[r]]
      BY <1>4, <2>1, <3>2, RecordSuccessCloses DEF CallSucceeds
    <3>3. CASE m # chain[r][pos[r]]
      <4>1. circuits'[m] = circuits[m]
        BY <1>4, <2>1, <3>1, <3>3, RecordSuccessIsLocal DEF CallSucceeds
      <4>. QED
        BY <4>1
    <3>. QED
      BY <3>2, <3>3
  <2>3. \A q \in Requests : pc'[q] \in {"calling", "raised"} => pc'[q] = pc[q]
    BY <1>4 DEF CallSucceeds, TypeOK
  <2>. QED
    BY <1>1, <1>4, <2>2, <2>3 DEF CallSucceeds
<1>5. ASSUME NEW r \in Requests, CallFails(r) PROVE ReliableInv'
  <2>. DEFINE failing == chain[r][pos[r]]
              cs == RecordFailure(circuits, failing)
              i == pos[r] + 1
              ch == chain[r]
  <2>1. pos[r] \in 1..Len(ch) /\ ch \in Chains /\ failing \in Models /\ failing \notin reliable
    BY <1>5, ChainHoldsModels, BreakerAssumption DEF CallFails, TypeOK
  <2>2. cs \in [Models -> CircuitState]
    BY <2>1, RecordFailureCounts DEF TypeOK
  <2>3. ASSUME NEW m \in reliable PROVE ~cs[m].is_open
    <3>1. m \in Models /\ m # failing
      BY <2>1, BreakerAssumption DEF TypeOK
    <3>2. cs[m] = circuits[m]
      BY <2>1, <3>1, RecordFailureCounts DEF TypeOK
    <3>. QED
      BY <3>2
  <2>4. /\ i \in Nat \ {0}
        /\ stream[r] \in BOOLEAN
        /\ ch \in Seq(Models)
        /\ Proceed(r, i, ch, cs, stream[r])
    BY <1>5, <2>1, BreakerAssumption DEF CallFails, TypeOK
  <2>5. \A m \in reliable : \A j \in 1..(i - 1) : ch[j] # m
    BY <1>5, <2>1 DEF CallFails, TypeOK
  <2>6. UNCHANGED chain /\ DOMAIN ch = 1..Len(ch)
    BY <1>5, <2>4 DEF CallFails
  <2>. HIDE DEF cs, i, ch, failing
  <2>7. \A m \in reliable :
          /\ ~circuits'[m].is_open
          /\ pc'[r] = "calling" => \A j \in 1..(pos'[r] - 1) : ch[j] # m
          /\ pc'[r] = "raised" => \A j \in 1..Len(ch) : ch[j] # m
    BY <2>1, <2>2, <2>3, <2>4, <2>5, LoopStopsAtReliable
  <2>8. \A q \in Requests \ {r} : pc'[q] = pc[q] /\ pos'[q] = pos[q]
    BY <2>1, <2>2, <2>4, ProceedShape
  <2>. QED
    BY <1>1, <2>6, <2>7, <2>8 DEF ch
<1>6. ASSUME NEW r \in Requests, StreamEnds(r) \/ StreamBreaks(r) PROVE ReliableInv'
  <2>1. \A q \in Requests : pc'[q] \in {"calling", "raised"} => pc'[q] = pc[q]
    BY <1>6 DEF StreamEnds, StreamBreaks, TypeOK
  <2>. QED
    BY <1>1, <1>6, <2>1 DEF StreamEnds, StreamBreaks
<1>7. CASE UNCHANGED vars
  BY <1>7 DEF vars
<1>. QED
  BY <1>2, <1>3, <1>4, <1>5, <1>6, <1>7 DEF Next, Settle

\* No request is told that all models failed while a candidate of its chain is
\* served by a provider that never fails.
THEOREM ReliableCandidatesAreFound == Spec => []ReliableCandidateAnswers
<1>1. Init => ReliableInv
  BY BreakerAssumption
     DEF Init, ReliableInv, ReliableStaysClosed, NonePassedOver, ReliableCandidateAnswers
<1>2. ReliableInv => ReliableCandidateAnswers
  BY DEF ReliableInv
<1>. QED
  BY <1>1, <1>2, TypeCorrect, NextReliableInv, PTL DEF Spec

-----------------------------------------------------------------------------
\* A request found calling or streaming after a step of the loop was sent to a
\* model the loop found available.
LEMMA LoopCallsAvailable ==
    ASSUME TypeOK, NEW r \in Requests, NEW i \in Nat \ {0}, NEW ch \in Chains,
           NEW cs \in [Models -> CircuitState], NEW str \in BOOLEAN,
           Proceed(r, i, ch, cs, str), pc'[r] \in {"calling", "streaming"}
    PROVE  Available(cs, ch[pos'[r]])
  BY ProceedShape DEF Usable

LEMMA StepLeavesCoolingAlone ==
    ASSUME TypeOK, [Next]_vars, NEW m \in Models, ~Available(circuits, m)
    PROVE  CallsTo(m)' \subseteq CallsTo(m)
<1>. SUFFICES ASSUME NEW q \in Requests, pc'[q] \in {"calling", "streaming"},
                     chain'[q][pos'[q]] = m
              PROVE  pc[q] \in {"calling", "streaming"} /\ chain[q][pos[q]] = m
  BY DEF CallsTo
<1>1. ASSUME NEW r \in Requests, Begin(r)
      PROVE  pc[q] \in {"calling", "streaming"} /\ chain[q][pos[q]] = m
  <2>1. PICK ch \in Chains, str \in StreamModes :
           /\ chain' = [chain EXCEPT ![r] = ch]
           /\ Proceed(r, 1, ch, circuits, str)
    BY <1>1 DEF Begin
  <2>2. str \in BOOLEAN /\ circuits \in [Models -> CircuitState]
    BY BreakerAssumption DEF TypeOK
  <2>3. CASE q = r
    <3>1. chain'[q] = ch
      BY <2>1, <2>3 DEF TypeOK
    <3>2. Available(circuits, ch[pos'[r]])
      BY <2>1, <2>2, <2>3, LoopCallsAvailable
    <3>. QED
      BY <2>3, <3>1, <3>2
  <2>4. CASE q # r
    <3>1. chain'[q] = chain[q]
      BY <2>1, <2>4 DEF TypeOK
    <3>2. pc'[q] = pc[q] /\ pos'[q] = pos[q]
      BY <2>1, <2>2, <2>4, ProceedShape
    <3>. QED
      BY <3>1, <3>2
  <2>. QED
    BY <2>3, <2>4
<1>2. ASSUME NEW r \in Requests, CallFails(r)
      PROVE  pc[q] \in {"calling", "streaming"} /\ chain[q][pos[q]] = m
  <2>. DEFINE failing == chain[r][pos[r]]
              cs == RecordFailure(circuits, failing)
              i == pos[r] + 1
              ch == chain[r]
  <2>1. pos[r] \in 1..Len(ch) /\ ch \in Chains /\ failing \in Models
    BY <1>2, ChainHoldsModels, BreakerAssumption DEF CallFails, TypeOK
  <2>2. cs \in [Models -> CircuitState]
    BY <2>1, RecordFailureCounts DEF TypeOK
  <2>3. ~Available(cs, m)
    <3>1. circuits[m].is_open /\ 0 < Cooldown
      BY BreakerAssumption DEF Available
    <3>2. CASE m = failing
      <4>1. cs[m].elapsed = 0 /\ (cs[m].is_open <=>
              (circuits[m].is_open \/ Counted(circuits[m]) >= MaxFailures))
        BY <2>1, <3>2, RecordFailureCounts DEF TypeOK
      <4>. HIDE DEF cs
      <4>. QED
        BY <3>1, <4>1, BreakerAssumption DEF Available
    <3>3. CASE m # failing
      <4>1. cs[m] = circuits[m]
        BY <2>1, <3>3, RecordFailureCounts DEF TypeOK
      <4>. HIDE DEF cs
      <4>. QED
        BY <4>1 DEF Available
    <3>. QED
      BY <3>2, <3>3
  <2>4. i \in Nat \ {0} /\ stream[r] \in BOOLEAN /\ Proceed(r, i, ch, cs, stream[r])
    BY <1>2, <2>1 DEF CallFails, TypeOK
  <2>5. chain' = chain
    BY <1>2 DEF CallFails
  <2>. HIDE DEF cs, i, ch, failing
  <2>6. CASE q = r
    <3>1. Available(cs, ch[pos'[r]])
      BY <2>1, <2>2, <2>4, <2>6, LoopCallsAvailable
    <3>2. ch[pos'[r]] = m
      BY <2>5, <2>6 DEF ch
    <3>. QED
      BY <2>3, <3>1, <3>2
  <2>7. CASE q # r
    <3>1. pc'[q] = pc[q] /\ pos'[q] = pos[q]
      BY <2>1, <2>2, <2>4, <2>7, ProceedShape
    <3>. QED
      BY <2>5, <3>1
  <2>. QED
    BY <2>6, <2>7
<1>3. ASSUME NEW r \in Requests, CallSucceeds(r) \/ StreamEnds(r) \/ StreamBreaks(r)
      PROVE  pc[q] \in {"calling", "streaming"} /\ chain[q][pos[q]] = m
  BY <1>3 DEF CallSucceeds, StreamEnds, StreamBreaks, TypeOK
<1>4. CASE Tick \/ UNCHANGED vars
  BY <1>4 DEF Tick, vars
<1>. QED
  BY <1>1, <1>2, <1>3, <1>4 DEF Next, Settle

\* No step starts a call to a model whose circuit is cooling down, be it an
\* answer that is awaited or a stream (the default of chats), however many calls
\* were in flight when it opened.
THEOREM CoolingIsRespected == Spec => CoolingModelIsLeftAlone
<1>1. TypeOK /\ [Next]_vars =>
        [\A m \in Models : ~Available(circuits, m) => CallsTo(m)' \subseteq CallsTo(m)]_vars
  BY StepLeavesCoolingAlone
<1>. QED
  BY <1>1, TypeCorrect, PTL DEF Spec, CoolingModelIsLeftAlone

-----------------------------------------------------------------------------
LEMMA InitIsPromised == Init => Promise!Init
<1>. SUFFICES ASSUME Init PROVE Promise!Init
  OBVIOUS
<1>1. \A m \in Models : circuits[m].is_open = FALSE /\ circuits[m].failure_count = 0
  BY DEF Init
<1>2. \A m \in Models : Mode(m) = "closed"
  BY <1>1 DEF Mode
<1>. QED
  BY <1>1, <1>2 DEF Promise!Init

\* The four things a step may do to the circuits are the steps of BreakerStates.
LEMMA StepIsPromised ==
    ASSUME TypeOK, OpenAtThreshold, CallsAreNotStreams, [Next]_vars
    PROVE  [Promise!Next]_(Promise!states)
<1>1. CASE Tick
  <2>. DEFINE S == {m \in Models : Mode(m) = "open" /\ Mode(m)' = "half_open"}
  <2>1. ASSUME NEW m \in Models
        PROVE  /\ circuits'[m].failure_count = circuits[m].failure_count
               /\ Mode(m)' = IF m \in S THEN "half_open" ELSE Mode(m)
    <3>1. circuits[m] \in CircuitState
      BY DEF TypeOK
    <3>2. /\ circuits'[m].failure_count = circuits[m].failure_count
          /\ circuits'[m].is_open = circuits[m].is_open
          /\ circuits'[m].elapsed >= circuits[m].elapsed
      BY <1>1, <3>1, BreakerAssumption DEF Tick, CircuitState
    <3>3. circuits'[m].elapsed \in Nat /\ circuits[m].elapsed \in Nat /\ Cooldown \in Nat
      BY <1>1, <3>1, BreakerAssumption DEF Tick, CircuitState
    <3>4. CASE ~circuits[m].is_open
      BY <3>2, <3>4 DEF Mode
    <3>5. CASE circuits[m].is_open /\ circuits[m].elapsed >= Cooldown
      <4>1. circuits'[m].is_open /\ circuits'[m].elapsed >= Cooldown
        BY <3>2, <3>3, <3>5
      <4>2. Mode(m) = "half_open" /\ Mode(m)' = "half_open"
        BY <3>3, <3>5, <4>1 DEF Mode
      <4>. QED
        BY <3>2, <4>2
    <3>6. CASE circuits[m].is_open /\ circuits[m].elapsed < Cooldown
      <4>1. Mode(m) = "open" /\ Mode(m)' \in {"open", "half_open"}
        BY <3>2, <3>3, <3>6 DEF Mode
      <4>. QED
        BY <3>2, <4>1
    <3>. QED
      BY <3>3, <3>4, <3>5, <3>6
  <2>2. S \in SUBSET Models /\ \A m \in S : Mode(m) = "open"
    OBVIOUS
  <2>. HIDE DEF S
  <2>3. Promise!CoolDown(S)
    BY <2>1, <2>2 DEF Promise!CoolDown
  <2>. QED
    BY <2>2, <2>3 DEF Promise!Next
<1>2. CASE circuits' = circuits
  <2>1. \A m \in Models : Mode(m)' = Mode(m)
    BY <1>2 DEF Mode
  <2>. QED
    BY <1>2, <2>1 DEF Promise!states
<1>3. ASSUME NEW m \in Models, circuits' = RecordSuccess(circuits, m)
      PROVE  Promise!Next
  <2>1. circuits'[m].failure_count = 0 /\ circuits'[m].is_open = FALSE
    BY <1>3, RecordSuccessCloses DEF TypeOK
  <2>2. \A n \in Models \ {m} : circuits'[n] = circuits[n]
    BY <1>3, RecordSuccessCloses DEF TypeOK
  <2>3. Mode(m)' = "closed" /\ \A n \in Models \ {m} : Mode(n)' = Mode(n)
    BY <2>1, <2>2 DEF Mode
  <2>4. Promise!Succeed(m)
    BY <2>1, <2>2, <2>3 DEF Promise!Succeed
  <2>. QED
    BY <2>4 DEF Promise!Next
<1>4. ASSUME NEW m \in Models, circuits' = RecordFailure(circuits, m)
      PROVE  Promise!Next
  <2>1. /\ circuits'[m].failure_count = Counted(circuits[m])
        /\ circuits'[m].elapsed = 0
        /\ circuits'[m].is_open <=>
             (circuits[m].is_open \/ Counted(circuits[m]) >= MaxFailures)
        /\ \A n \in Models \ {m} : circuits'[n] = circuits[n]
    BY <1>4, RecordFailureCounts DEF TypeOK
  <2>2. \A n \in Models \ {m} : Mode(n)' = Mode(n)
    BY <2>1 DEF Mode
  <2>3. /\ circuits[m].failure_count \in 0..MaxFailures
        /\ circuits[m].is_open <=> circuits[m].failure_count = MaxFailures
    BY DEF TypeOK, CircuitState, OpenAtThreshold
  <2>4. CASE circuits[m].failure_count + 1 < MaxFailures
    <3>1. /\ Counted(circuits[m]) = circuits[m].failure_count + 1
          /\ ~circuits[m].is_open
          /\ ~circuits'[m].is_open
      BY <2>1, <2>3, <2>4, BreakerAssumption DEF Counted
    <3>2. Mode(m)' = Mode(m)
      BY <3>1 DEF Mode
    <3>3. Promise!Strike(m)
      BY <2>1, <2>2, <2>4, <3>1, <3>2 DEF Promise!Strike
    <3>. QED
      BY <3>3 DEF Promise!Next
  <2>5. CASE ~(circuits[m].failure_count + 1 < MaxFailures)
    <3>1. Counted(circuits[m]) = MaxFailures
      BY <2>3, <2>5, BreakerAssumption DEF Counted
    <3>2. /\ circuits'[m].is_open /\ circuits'[m].elapsed = 0
          /\ Cooldown \in Nat /\ 0 < Cooldown /\ ~(0 >= Cooldown)
      BY <2>1, <3>1, BreakerAssumption
    <3>3. Mode(m)' = "open"
      BY <3>2 DEF Mode
    <3>4. circuits[m].failure_count + 1 >= MaxFailures
      BY <2>3, <2>5, BreakerAssumption
    <3>5. Promise!Trip(m)
      BY <2>1, <2>2, <3>1, <3>3, <3>4 DEF Promise!Trip
    <3>. QED
      BY <3>5 DEF Promise!Next
  <2>. QED
    BY <2>4, <2>5
<1>. QED
  BY <1>1, <1>2, <1>3, <1>4, CircuitSteps

\* The breaker with its requests in flight implements the three-state machine
\* of its docstring (without the one-request limit of HALF-OPEN).
THEOREM BreakerKeepsItsStates == Spec => ImplementsBreakerStates
<1>1. Init => CallsAreNotStreams
  BY DEF Init, CallsAreNotStreams
<1>. QED
  BY <1>1, InitIsPromised, StepIsPromised, TypeCorrect, ThresholdDecides,
     NextCallsAreNotStreams, PTL
     DEF Spec, ImplementsBreakerStates, Promise!Spec

-----------------------------------------------------------------------------
(* What BreakerRecovers rests on, for every value of the constants.  That a *)
(* cooldown and a request end at all needs the fairness; that nothing can   *)
(* put their end off again and again needs only the steps.                  *)

\* A call that settles with a failure leaves its model's calls: the loop goes
\* on behind the position it was at, and nobody starts a call to a model that
\* cools down.
LEMMA FailuresUseUpCalls ==
    ASSUME TypeOK, [Next]_vars, NEW r \in Requests, CallFails(r),
           NEW m \in Models, ~Available(circuits, m), m = chain[r][pos[r]]
    PROVE  r \in CallsTo(m) /\ r \notin CallsTo(m)'
<1>. DEFINE cs == RecordFailure(circuits, m)
            i == pos[r] + 1
            ch == chain[r]
<1>1. /\ pos[r] \in 1..Len(ch) /\ ch \in Chains
      /\ i \in Nat \ {0} /\ stream[r] \in BOOLEAN
      /\ Proceed(r, i, ch, cs, stream[r])
  BY BreakerAssumption DEF CallFails, TypeOK
<1>2. /\ cs \in [Models -> CircuitState]
      /\ cs[m].elapsed = 0
      /\ (cs[m].is_open <=> (circuits[m].is_open \/ Counted(circuits[m]) >= MaxFailures))
  BY RecordFailureCounts DEF TypeOK
<1>3. r \in CallsTo(m)
  BY DEF CallFails, CallsTo
<1>. HIDE DEF cs, i
<1>4. ~Available(cs, m)
  BY <1>2, BreakerAssumption DEF Available
<1>5. SUFFICES ASSUME pc'[r] \in {"calling", "streaming"}, chain'[r][pos'[r]] = m
               PROVE  FALSE
  BY <1>3 DEF CallsTo
<1>6. Available(cs, ch[pos'[r]])
  BY <1>1, <1>2, <1>5, LoopCallsAvailable
<1>7. chain'[r] = ch
  BY DEF CallFails
<1>. QED
  BY <1>4, <1>5, <1>6, <1>7

\* The clock of a circuit that cools down is set back by a late failure only,
\* and each uses up a call that was in flight: as none is started meanwhile, a
\* cooldown is extended at most as often as there were calls in flight.
CooldownsAreBounded ==
    [][\A m \in Models :
         ~Available(circuits, m) =>
           \/ circuits'[m].elapsed >= circuits[m].elapsed
           \/ CallsTo(m)' \subseteq CallsTo(m) /\ CallsTo(m)' # CallsTo(m)]_vars

LEMMA NextCooldown ==
    ASSUME TypeOK, CallsAreNotStreams, [Next]_vars,
           NEW m \in Models, ~Available(circuits, m)
    PROVE  \/ circuits'[m].elapsed >= circuits[m].elapsed
           \/ CallsTo(m)' \subseteq CallsTo(m) /\ CallsTo(m)' # CallsTo(m)
<1>1. circuits[m] \in CircuitState /\ circuits[m].elapsed \in Nat
  BY BreakerAssumption DEF TypeOK, CircuitState
<1>2. ASSUME NEW r \in Requests, CallFails(r)
      PROVE  \/ circuits'[m].elapsed >= circuits[m].elapsed
             \/ CallsTo(m)' \subseteq CallsTo(m) /\ CallsTo(m)' # CallsTo(m)
  <2>. DEFINE failing == chain[r][pos[r]]
  <2>1. failing \in Models /\ circuits' = RecordFailure(circuits, failing)
    <3>1. stream[r] = FALSE
      BY <1>2 DEF CallsAreNotStreams, CallFails
    <3>2. pos[r] \in 1..Len(chain[r])
      BY <1>2, BreakerAssumption DEF CallFails, TypeOK
    <3>. QED
      BY <1>2, <3>1, <3>2, ChainHoldsModels DEF CallFails, Proceed
  <2>2. CASE m = failing
    BY <1>2, <2>2, FailuresUseUpCalls, StepLeavesCoolingAlone
  <2>3. CASE m # failing
    <3>1. circuits'[m] = circuits[m]
      BY <2>1, <2>3, RecordFailureCounts DEF TypeOK
    <3>. QED
      BY <1>1, <3>1
  <2>. QED
    BY <2>2, <2>3
<1>3. ASSUME NEW n \in Models, circuits' = RecordSuccess(circuits, n)
      PROVE  circuits'[m].elapsed = circuits[m].elapsed
  BY <1>3 DEF RecordSuccess, TypeOK
<1>4. ASSUME NEW r \in Requests, CallSucceeds(r)
      PROVE  circuits'[m].elapsed = circuits[m].elapsed
  BY <1>3, <1>4, ChainHoldsModels DEF CallSucceeds, TypeOK
<1>5. ASSUME NEW r \in Requests, Begin(r)
      PROVE  circuits'[m].elapsed = circuits[m].elapsed
  <2>1. PICK ch \in Chains, str \in StreamModes : Proceed(r, 1, ch, circuits, str)
    BY <1>5 DEF Begin
  <2>2. \/ circuits' = circuits
        \/ \E n \in Models : circuits' = RecordSuccess(circuits, n)
    <3>1. str \in BOOLEAN /\ circuits \in [Models -> CircuitState] /\ 1 \in Nat \ {0}
      BY BreakerAssumption DEF TypeOK
    <3>. QED
      BY <2>1, <3>1, ProceedShape
  <2>. QED
    BY <1>3, <2>2
<1>6. ASSUME Tick
      PROVE  circuits'[m].elapsed >= circuits[m].elapsed
  <2>1. circuits'[m] = [circuits[m] EXCEPT !.elapsed = IF @ < Cooldown THEN @ + 1 ELSE @]
    BY <1>6 DEF Tick
  <2>2. circuits'[m].elapsed = IF circuits[m].elapsed < Cooldown
                               THEN circuits[m].elapsed + 1 ELSE circuits[m].elapsed
    BY <1>1, <2>1 DEF CircuitState
  <2>. QED
    BY <1>1, <2>2
<1>7. ASSUME NEW r \in Requests, StreamEnds(r) \/ StreamBreaks(r)
      PROVE  circuits'[m].elapsed = circuits[m].elapsed
  BY <1>7 DEF StreamEnds, StreamBreaks
<1>8. CASE UNCHANGED vars
  BY <1>1, <1>8 DEF vars
<1>. QED
  BY <1>1, <1>2, <1>4, <1>5, <1>6, <1>7, <1>8 DEF Next, Settle

\* No circuit blocks its model longer than the calls in flight can make it.
THEOREM CooldownsEndWithTheCalls == Spec => CooldownsAreBounded
<1>1. TypeOK /\ CallsAreNotStreams /\ [Next]_vars =>
        [\A m \in Models :
           ~Available(circuits, m) =>
             \/ circuits'[m].elapsed >= circuits[m].elapsed
             \/ CallsTo(m)' \subseteq CallsTo(m) /\ CallsTo(m)' # CallsTo(m)]_vars
  BY NextCooldown
<1>2. Init => CallsAreNotStreams
  BY DEF Init, CallsAreNotStreams
<1>. QED
  BY <1>1, <1>2, TypeCorrect, NextCallsAreNotStreams, PTL DEF Spec, CooldownsAreBounded

\* A request that awaits a call is left alone by everyone else, and a step of
\* its own either ends the call or goes on to a later candidate of the same
\* list: no candidate is called twice, and the list is finite.
CandidatesRunOut ==
    [][\A r \in Requests :
         pc[r] = "calling" =>
           \/ pc'[r] = "calling" /\ pos'[r] = pos[r]
           \/ pc'[r] \in {"calling", "streaming"} /\ pos'[r] \in (pos[r] + 1)..Len(chain[r])
           \/ pc'[r] \in {"returned", "raised"}]_vars

LEMMA NextCandidate ==
    ASSUME TypeOK, [Next]_vars, NEW r \in Requests, pc[r] = "calling"
    PROVE  \/ pc'[r] = "calling" /\ pos'[r] = pos[r]
           \/ pc'[r] \in {"calling", "streaming"} /\ pos'[r] \in (pos[r] + 1)..Len(chain[r])
           \/ pc'[r] \in {"returned", "raised"}
<1>1. CASE CallFails(r)
  <2>. DEFINE m == chain[r][pos[r]]
              cs == RecordFailure(circuits, m)
              i == pos[r] + 1
              ch == chain[r]
  <2>1. /\ m \in Models
        /\ ch \in Chains
        /\ i \in Nat \ {0}
        /\ stream[r] \in BOOLEAN
    BY <1>1, ChainHoldsModels, BreakerAssumption DEF CallFails, TypeOK
  <2>2. cs \in [Models -> CircuitState]
    BY <2>1, RecordFailureCounts DEF TypeOK
  <2>3. Proceed(r, i, ch, cs, stream[r])
    BY <1>1 DEF CallFails
  <2>. HIDE DEF cs, m
  <2>4. \/ pc'[r] = "raised"
        \/ pc'[r] \in {"calling", "streaming"} /\ pos'[r] \in Rest(i, ch)
    BY <2>1, <2>2, <2>3, ProceedShape
  <2>. QED
    BY <2>4 DEF Rest
<1>2. CASE CallSucceeds(r)
  BY <1>2 DEF CallSucceeds, TypeOK
<1>3. ASSUME NEW q \in Requests, q # r, Begin(q)
      PROVE  pc'[r] = pc[r] /\ pos'[r] = pos[r]
  BY <1>3 DEF Begin, Proceed, TypeOK
<1>4. ASSUME NEW q \in Requests, q # r, Settle(q)
      PROVE  pc'[r] = pc[r] /\ pos'[r] = pos[r]
  BY <1>4 DEF Settle, CallSucceeds, CallFails, StreamEnds, StreamBreaks, Proceed, TypeOK
<1>5. ~Begin(r) /\ ~StreamEnds(r) /\ ~StreamBreaks(r)
  BY DEF Begin, StreamEnds, StreamBreaks
<1>6. CASE Tick \/ UNCHANGED vars
  BY <1>6 DEF Tick, vars
<1>. QED
  BY <1>1, <1>2, <1>3, <1>4, <1>5, <1>6 DEF Next, Settle

\* call_with_fallback tries each candidate at most once.
THEOREM CallsGoDownTheList == Spec => CandidatesRunOut
<1>1. TypeOK /\ [Next]_vars =>
        [\A r \in Requests :
           pc[r] = "calling" =>
             \/ pc'[r] = "calling" /\ pos'[r] = pos[r]
             \/ pc'[r] \in {"calling", "streaming"} /\ pos'[r] \in (pos[r] + 1)..Len(chain[r])
             \/ pc'[r] \in {"returned", "raised"}]_vars
  BY NextCandidate
<1>. QED
  BY <1>1, TypeCorrect, PTL DEF Spec, CandidatesRunOut

=============================================================================
