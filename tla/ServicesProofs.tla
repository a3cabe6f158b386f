----------------------------- MODULE ServicesProofs -----------------------------
(***************************************************************************)
(* Proofs about the MCP gateway, the execution of workflows, the rate      *)
(* limiter, the few-shot pool and the login with WeChat, and about the     *)
(* services as a whole.  Each service has an inductive invariant, which a  *)
(* step of the whole keeps because it is a step of that part or leaves its *)
(* variables alone.                                                        *)
(***************************************************************************)
EXTENDS Services, FiniteSetTheorems, SequenceTheorems, TLAPS

-----------------------------------------------------------------------------
(* The MCP gateway, for any requests, instances and number of updates.     *)
(* The invariant ties the two histories of races to what they excuse:      *)
(* while no update has overlapped a registration, whatever is registered,  *)
(* or on its way to be, has the committed configuration, and nothing is    *)
(* registered while a row is written; while no two registrations have      *)
(* overlapped, what is open is registered, and nothing is registered while *)
(* an instance is connected.                                               *)

\* Who connects or disconnects an instance knows its state.
OwnerInv ==
    \A r \in Requests :
        /\ At(r, {"connecting"}) => instance[task[r].on].state = "connecting"
        /\ At(r, {"closing"}) => instance[task[r].on].state = "closing"

UpdateInv ==
    "update" \notin overlaps =>
        /\ \A r, s \in Requests : ~(Registering(r) /\ Writing(s))
        /\ \A s \in Requests : Writing(s) => entry = None
        /\ entry # None => instance[entry].config = config
        /\ \A r \in Requests :
             /\ At(r, {"loaded"}) => task[r].config = config
             /\ At(r, {"connecting"}) => instance[task[r].on].config = config

StrandedInv ==
    "registrations" \notin overlaps =>
        /\ \A r, s \in Requests : r # s => ~(At(r, {"connecting"}) /\ At(s, {"connecting"}))
        /\ \A r \in Requests : At(r, {"connecting"}) => entry = None
        /\ \A i \in Instances : instance[i].state = "open" => i = entry

GatewayInv ==
    TypeOK /\ OwnerInv /\ OneOwner /\ RegisteredIsOpen /\ UpdateInv /\ StrandedInv

-----------------------------------------------------------------------------
\* What a request holds, by its step.
LEMMA TaskFields ==
    ASSUME TypeOK, NEW r \in Requests
    PROVE  /\ task[r].step \in {"idle", "loaded", "connecting", "calling", "checking",
                                "closing", "writing", "written"}
           /\ task[r].step = "loaded" => task[r].config \in 0..MaxUpdates
           /\ task[r].step \in {"connecting", "calling", "closing"} => task[r].on \in Instances
           /\ task[r].step \in {"closing", "writing", "written"} =>
                task[r].config \in 0..MaxUpdates /\ task[r].delete \in BOOLEAN
           /\ task[r].step = "idle" <=> task[r] = Idle
BY DEF TypeOK, Idle, Uses, Writes

\* A step of a request leaves the tasks of the others, and records what overlaps
\* after it.
LEMMA BecomesFacts ==
    ASSUME TypeOK, NEW r \in Requests, NEW t \in Uses \cup Writes, Becomes(r, t)
    PROVE  /\ task' \in [Requests -> {Idle} \cup Uses \cup Writes]
           /\ task'[r] = t
           /\ \A s \in Requests \ {r} : task'[s] = task[s]
           /\ overlaps \subseteq overlaps'
           /\ overlaps' \subseteq {"registrations", "update"}
           /\ "update" \notin overlaps' =>
                \A a, b \in Requests :
                    ~(/\ task'[a].step \in {"loaded", "connecting"}
                      /\ task'[b].step \in {"closing", "writing", "written"})
           /\ "registrations" \notin overlaps' =>
                \A a, b \in Requests :
                    a # b => ~(task'[a].step = "connecting" /\ task'[b].step = "connecting")
<1>1. task' = [task EXCEPT ![r] = t]
  BY DEF Becomes
<1>2. task' \in [Requests -> {Idle} \cup Uses \cup Writes]
  BY <1>1 DEF TypeOK
<1>3. task'[r] = t /\ \A s \in Requests \ {r} : task'[s] = task[s]
  BY <1>1 DEF TypeOK
<1>4. overlaps' = overlaps \cup Overlaps(task')
  BY DEF Becomes
<1>5. Overlaps(task') \subseteq {"registrations", "update"}
  BY DEF Overlaps
<1>6. ASSUME NEW a \in Requests, NEW b \in Requests,
             task'[a].step \in {"loaded", "connecting"},
             task'[b].step \in {"closing", "writing", "written"}
      PROVE  "update" \in Overlaps(task')
  BY <1>6 DEF Overlaps
<1>7. ASSUME NEW a \in Requests, NEW b \in Requests, a # b,
             task'[a].step = "connecting", task'[b].step = "connecting"
      PROVE  "registrations" \in Overlaps(task')
  BY <1>7 DEF Overlaps
<1> QED
  BY <1>2, <1>3, <1>4, <1>5, <1>6, <1>7 DEF TypeOK

LEMMA EndsFacts ==
    ASSUME TypeOK, NEW r \in Requests, Ends(r)
    PROVE  /\ task' \in [Requests -> {Idle} \cup Uses \cup Writes]
           /\ task'[r].step = "idle"
           /\ \A s \in Requests \ {r} : task'[s] = task[s]
           /\ overlaps' = overlaps
BY DEF TypeOK, Ends, Idle

LEMMA InitGatewayInv == Init => GatewayInv
BY GatewayAssumption
   DEF Init, GatewayInv, TypeOK, OwnerInv, OneOwner, RegisteredIsOpen, UpdateInv, StrandedInv,
       Idle, States, At, Registering, Writing

\* A step that leaves row, instances and registry alone, and after which the
\* request neither registers nor disconnects an instance, keeps the invariant.
LEMMA QuietStep ==
    ASSUME GatewayInv, NEW r \in Requests, UNCHANGED <<config, made, instance, entry>>,
           task' \in [Requests -> {Idle} \cup Uses \cup Writes],
           overlaps' \subseteq {"registrations", "update"}, overlaps \subseteq overlaps',
           \A s \in Requests \ {r} : task'[s] = task[s],
           task'[r].step \notin {"loaded", "connecting", "closing"},
           task'[r].step \in {"writing", "written"} => At(r, {"closing", "writing", "written"})
    PROVE  GatewayInv'
<1> USE DEF GatewayInv, TypeOK
<1>1. TypeOK'
  OBVIOUS
<1>2. OwnerInv' /\ OneOwner'
  BY DEF OwnerInv, OneOwner, At
<1>3. RegisteredIsOpen'
  BY DEF RegisteredIsOpen
<1>4. UpdateInv'
  BY DEF UpdateInv, At, Registering, Writing
<1>5. StrandedInv'
  BY DEF StrandedInv, At
<1> QED
  BY <1>1, <1>2, <1>3, <1>4, <1>5

-----------------------------------------------------------------------------
LEMMA LoadKeeps ==
    ASSUME GatewayInv, NEW r \in Requests, Load(r)
    PROVE  GatewayInv'
<1> USE DEF GatewayInv
<1> DEFINE t == [step |-> "loaded", config |-> config]
<1>1. t \in Uses
  BY DEF TypeOK, Uses
<1>2. Becomes(r, t) /\ UNCHANGED <<config, made, instance, entry>>
  BY DEF Load
<1> HIDE DEF t
<1>3. /\ task' \in [Requests -> {Idle} \cup Uses \cup Writes]
      /\ task'[r] = t
      /\ \A s \in Requests \ {r} : task'[s] = task[s]
      /\ overlaps \subseteq overlaps' /\ overlaps' \subseteq {"registrations", "update"}
      /\ "update" \notin overlaps' =>
           \A a, b \in Requests :
               ~(/\ task'[a].step \in {"loaded", "connecting"}
                 /\ task'[b].step \in {"closing", "writing", "written"})
  BY <1>1, <1>2, BecomesFacts
<1>4. t.step = "loaded" /\ t.config = config
  BY DEF t
<1>5. TypeOK'
  BY <1>2, <1>3 DEF TypeOK
<1>6. OwnerInv' /\ OneOwner' /\ RegisteredIsOpen'
  BY <1>2, <1>3, <1>4 DEF OwnerInv, OneOwner, RegisteredIsOpen, At
<1>7. UpdateInv'
  BY <1>2, <1>3, <1>4 DEF UpdateInv, At, Registering, Writing
<1>8. StrandedInv'
  BY <1>2, <1>3, <1>4 DEF StrandedInv, At
<1> QED
  BY <1>5, <1>6, <1>7, <1>8

LEMMA RegisterKeeps ==
    ASSUME GatewayInv, NEW r \in Requests, Register(r)
    PROVE  GatewayInv'
<1> USE DEF GatewayInv
<1>1. CASE Ends(r) /\ UNCHANGED instance
  BY <1>1, EndsFacts, QuietStep DEF Register, TypeOK
<1>2. ASSUME NEW i \in Instances, Fresh(i),
             instance' = [instance EXCEPT ![i] = [state |-> "connecting",
                                                  config |-> task[r].config]],
             Becomes(r, [step |-> "connecting", on |-> i])
      PROVE  GatewayInv'
  <2> DEFINE t == [step |-> "connecting", on |-> i]
  <2>1. t \in Uses /\ Becomes(r, t)
    BY <1>2 DEF Uses
  <2>2. t.step = "connecting" /\ t.on = i
    OBVIOUS
  <2>3. /\ At(r, {"loaded"}) /\ task[r].config \in 0..MaxUpdates
        /\ entry = None /\ UNCHANGED <<config, made, entry>>
    BY TaskFields DEF Register, At
  <2> HIDE DEF t
  <2>4. /\ task' \in [Requests -> {Idle} \cup Uses \cup Writes]
        /\ task'[r] = t
        /\ \A s \in Requests \ {r} : task'[s] = task[s]
        /\ overlaps \subseteq overlaps' /\ overlaps' \subseteq {"registrations", "update"}
        /\ "update" \notin overlaps' =>
             \A a, b \in Requests :
                 ~(/\ task'[a].step \in {"loaded", "connecting"}
                   /\ task'[b].step \in {"closing", "writing", "written"})
        /\ "registrations" \notin overlaps' =>
             \A a, b \in Requests :
                 a # b => ~(task'[a].step = "connecting" /\ task'[b].step = "connecting")
    BY <2>1, BecomesFacts
  <2>5. /\ instance'[i].state = "connecting" /\ instance'[i].config = task[r].config
        /\ \A j \in Instances \ {i} : instance'[j] = instance[j]
        /\ instance' \in [Instances -> [state : States, config : 0..MaxUpdates]]
    BY <1>2, <2>3 DEF TypeOK, States
  <2>6. instance[i].state = "closed"
    BY <1>2 DEF Fresh
  <2>7. \A s \in Requests : At(s, {"connecting", "closing"}) => task[s].on # i
    BY <2>6 DEF OwnerInv, At
  <2>8. TypeOK'
    BY <2>3, <2>4, <2>5 DEF TypeOK
  <2>9. OwnerInv'
    BY <2>2, <2>3, <2>4, <2>5, <2>7, TaskFields DEF OwnerInv, At
  <2>10. OneOwner'
    BY <2>2, <2>4, <2>7 DEF OneOwner, At
  <2>11. RegisteredIsOpen'
    BY <2>3, GatewayAssumption DEF RegisteredIsOpen
  <2>12. UpdateInv'
    BY <2>2, <2>3, <2>4, <2>5, <2>7, TaskFields DEF UpdateInv, At, Registering, Writing
  <2>13. StrandedInv'
    BY <2>2, <2>3, <2>4, <2>5 DEF StrandedInv, At
  <2> QED
    BY <2>8, <2>9, <2>10, <2>11, <2>12, <2>13
<1> QED
  BY <1>1, <1>2 DEF Register

LEMMA ConnectedKeeps ==
    ASSUME GatewayInv, NEW r \in Requests, Connected(r)
    PROVE  GatewayInv'
<1> USE DEF GatewayInv
<1> DEFINE i == task[r].on
<1>1. i \in Instances /\ At(r, {"connecting"}) /\ instance[i].state = "connecting"
  BY TaskFields DEF Connected, At, OwnerInv
<1>2. /\ instance' = [instance EXCEPT ![i].state = "open"]
      /\ entry' = i
      /\ UNCHANGED <<config, made>>
  BY DEF Connected
<1>3. PICK t \in Uses : Becomes(r, t) /\ t.step \in {"calling", "checking"}
  BY <1>1 DEF Connected, Calling, Checking, Uses
<1>4. \A s \in Requests \ {r} : At(s, {"connecting", "closing"}) => task[s].on # i
  BY <1>1 DEF OneOwner, At
<1> HIDE DEF i
<1>5. /\ task' \in [Requests -> {Idle} \cup Uses \cup Writes]
      /\ task'[r] = t
      /\ \A s \in Requests \ {r} : task'[s] = task[s]
      /\ overlaps \subseteq overlaps' /\ overlaps' \subseteq {"registrations", "update"}
  BY <1>3, BecomesFacts
<1>6. /\ instance'[i].state = "open" /\ instance'[i].config = instance[i].config
      /\ \A j \in Instances \ {i} : instance'[j] = instance[j]
      /\ instance' \in [Instances -> [state : States, config : 0..MaxUpdates]]
  BY <1>1, <1>2 DEF TypeOK, States
<1>7. TypeOK'
  BY <1>1, <1>2, <1>5, <1>6 DEF TypeOK
<1>8. OwnerInv' /\ OneOwner' /\ RegisteredIsOpen'
  BY <1>2, <1>3, <1>4, <1>5, <1>6, TaskFields DEF OwnerInv, OneOwner, RegisteredIsOpen, At
<1>9. UpdateInv'
  <2>1. At(r, {"connecting"}) => task[r].on = i
    BY DEF i
  <2> QED
    BY <1>1, <1>2, <1>3, <1>4, <1>5, <1>6, <2>1, TaskFields
       DEF UpdateInv, At, Registering, Writing
<1>10. StrandedInv'
  BY <1>1, <1>2, <1>3, <1>4, <1>5, <1>6, GatewayAssumption DEF StrandedInv, At
<1> QED
  BY <1>7, <1>8, <1>9, <1>10

LEMMA ConnectFailsKeeps ==
    ASSUME GatewayInv, NEW r \in Requests, ConnectFails(r)
    PROVE  GatewayInv'
<1> USE DEF GatewayInv
<1> DEFINE i == task[r].on
<1>1. i \in Instances /\ At(r, {"connecting"}) /\ instance[i].state = "connecting"
  BY TaskFields DEF ConnectFails, At, OwnerInv
<1>2. /\ instance' = [instance EXCEPT ![i].state = "closed"]
      /\ Ends(r)
      /\ UNCHANGED <<config, made, entry>>
  BY DEF ConnectFails
<1>3. \A s \in Requests \ {r} : At(s, {"connecting", "closing"}) => task[s].on # i
  BY <1>1 DEF OneOwner, At
<1> HIDE DEF i
<1>4. /\ task' \in [Requests -> {Idle} \cup Uses \cup Writes]
      /\ task'[r].step = "idle"
      /\ \A s \in Requests \ {r} : task'[s] = task[s]
      /\ overlaps' = overlaps
  BY <1>2, EndsFacts
<1>5. /\ instance'[i].state = "closed"
      /\ \A j \in Instances \ {i} : instance'[j] = instance[j]
      /\ instance' \in [Instances -> [state : States, config : 0..MaxUpdates]]
  BY <1>1, <1>2 DEF TypeOK, States
<1>6. entry # i
  BY <1>1, GatewayAssumption DEF RegisteredIsOpen
<1>7. TypeOK'
  BY <1>2, <1>4, <1>5 DEF TypeOK
<1>8. OwnerInv' /\ OneOwner' /\ RegisteredIsOpen'
  BY <1>2, <1>3, <1>4, <1>5, <1>6, TaskFields
     DEF OwnerInv, OneOwner, RegisteredIsOpen, At, TypeOK
<1>9. UpdateInv'
  BY <1>2, <1>3, <1>4, <1>5, <1>6, TaskFields DEF UpdateInv, At, Registering, Writing, TypeOK
<1>10. StrandedInv'
  BY <1>2, <1>4, <1>5 DEF StrandedInv, At
<1> QED
  BY <1>7, <1>8, <1>9, <1>10

LEMMA UnregisterKeeps ==
    ASSUME GatewayInv, NEW r \in Requests, NEW delete \in BOOLEAN, Unregister(r, delete)
    PROVE  GatewayInv'
<1> USE DEF GatewayInv
<1>1. /\ entry' = None /\ UNCHANGED config
      /\ made' \in 0..MaxUpdates
      /\ task[r].step = "idle"
  BY GatewayAssumption, TaskFields DEF Unregister, TypeOK
<1>2. CASE entry # None
  <2> DEFINE t == [step |-> "closing", on |-> entry, config |-> made', delete |-> delete]
  <2>1. t \in Writes /\ t.step = "closing" /\ t.on = entry /\ entry \in Instances
    BY <1>1, <1>2 DEF Writes, TypeOK
  <2>2. Becomes(r, t) /\ instance' = [instance EXCEPT ![entry].state = "closing"]
    BY <1>2 DEF Unregister
  <2> HIDE DEF t
  <2>3. /\ task' \in [Requests -> {Idle} \cup Uses \cup Writes]
        /\ task'[r] = t
        /\ \A s \in Requests \ {r} : task'[s] = task[s]
        /\ overlaps \subseteq overlaps' /\ overlaps' \subseteq {"registrations", "update"}
        /\ "update" \notin overlaps' =>
             \A a, b \in Requests :
                 ~(/\ task'[a].step \in {"loaded", "connecting"}
                   /\ task'[b].step \in {"closing", "writing", "written"})
    BY <2>1, <2>2, BecomesFacts
  <2>4. /\ instance'[entry].state = "closing"
        /\ \A j \in Instances \ {entry} : instance'[j] = instance[j]
        /\ instance' \in [Instances -> [state : States, config : 0..MaxUpdates]]
    BY <2>1, <2>2 DEF TypeOK, States
  <2>5. \A s \in Requests : At(s, {"connecting", "closing"}) => task[s].on # entry
    BY <1>2 DEF OwnerInv, RegisteredIsOpen, At
  <2>6. TypeOK'
    BY <1>1, <2>3, <2>4 DEF TypeOK
  <2>7. OwnerInv' /\ OneOwner' /\ RegisteredIsOpen'
    BY <1>1, <2>1, <2>3, <2>4, <2>5, TaskFields DEF OwnerInv, OneOwner, RegisteredIsOpen, At
  <2>8. UpdateInv'
    BY <1>1, <2>1, <2>3, <2>4, <2>5, TaskFields DEF UpdateInv, At, Registering, Writing
  <2>9. StrandedInv'
    BY <1>1, <2>1, <2>3, <2>4, GatewayAssumption DEF StrandedInv, At
  <2> QED
    BY <2>6, <2>7, <2>8, <2>9
<1>3. CASE entry = None
  <2> DEFINE t == [step |-> "writing", config |-> made', delete |-> delete]
  <2>1. t \in Writes /\ t.step = "writing"
    BY <1>1 DEF Writes
  <2>2. Becomes(r, t) /\ UNCHANGED instance
    BY <1>3 DEF Unregister
  <2> HIDE DEF t
  <2>3. /\ task' \in [Requests -> {Idle} \cup Uses \cup Writes]
        /\ task'[r] = t
        /\ \A s \in Requests \ {r} : task'[s] = task[s]
        /\ overlaps \subseteq overlaps' /\ overlaps' \subseteq {"registrations", "update"}
        /\ "update" \notin overlaps' =>
             \A a, b \in Requests :
                 ~(/\ task'[a].step \in {"loaded", "connecting"}
                   /\ task'[b].step \in {"closing", "writing", "written"})
    BY <2>1, <2>2, BecomesFacts
  <2>4. TypeOK'
    BY <1>1, <2>2, <2>3 DEF TypeOK
  <2>5. OwnerInv' /\ OneOwner' /\ RegisteredIsOpen'
    BY <1>1, <2>1, <2>2, <2>3 DEF OwnerInv, OneOwner, RegisteredIsOpen, At
  <2>6. UpdateInv'
    BY <1>1, <2>1, <2>2, <2>3 DEF UpdateInv, At, Registering, Writing
  <2>7. StrandedInv'
    BY <1>1, <1>3, <2>1, <2>2, <2>3 DEF StrandedInv, At
  <2> QED
    BY <2>4, <2>5, <2>6, <2>7
<1> QED
  BY <1>2, <1>3

LEMMA DisconnectedKeeps ==
    ASSUME GatewayInv, NEW r \in Requests, Disconnected(r)
    PROVE  GatewayInv'
<1> USE DEF GatewayInv
<1> DEFINE i == task[r].on
           t == [step |-> "writing", config |-> task[r].config, delete |-> task[r].delete]
<1>1. i \in Instances /\ At(r, {"closing"}) /\ instance[i].state = "closing"
  BY TaskFields DEF Disconnected, At, OwnerInv
<1>2. t \in Writes /\ t.step = "writing"
  BY <1>1, TaskFields DEF Writes, At
<1>3. /\ instance' = [instance EXCEPT ![i].state = "closed"]
      /\ Becomes(r, t)
      /\ UNCHANGED <<config, made, entry>>
  BY DEF Disconnected
<1>4. \A s \in Requests \ {r} : At(s, {"connecting", "closing"}) => task[s].on # i
  BY <1>1 DEF OneOwner, At
<1> HIDE DEF i, t
<1>5. /\ task' \in [Requests -> {Idle} \cup Uses \cup Writes]
      /\ task'[r] = t
      /\ \A s \in Requests \ {r} : task'[s] = task[s]
      /\ overlaps \subseteq overlaps' /\ overlaps' \subseteq {"registrations", "update"}
      /\ "update" \notin overlaps' =>
           \A a, b \in Requests :
               ~(/\ task'[a].step \in {"loaded", "connecting"}
                 /\ task'[b].step \in {"closing", "writing", "written"})
  BY <1>2, <1>3, BecomesFacts
<1>6. /\ instance'[i].state = "closed"
      /\ \A j \in Instances \ {i} : instance'[j] = instance[j]
      /\ instance' \in [Instances -> [state : States, config : 0..MaxUpdates]]
  BY <1>1, <1>3 DEF TypeOK, States
<1>7. entry # i
  BY <1>1, GatewayAssumption DEF RegisteredIsOpen
<1>8. TypeOK'
  BY <1>3, <1>5, <1>6 DEF TypeOK
<1>9. OwnerInv' /\ OneOwner' /\ RegisteredIsOpen'
  BY <1>2, <1>3, <1>4, <1>5, <1>6, <1>7, TaskFields
     DEF OwnerInv, OneOwner, RegisteredIsOpen, At, TypeOK
<1>10. UpdateInv'
  BY <1>1, <1>2, <1>3, <1>4, <1>5, <1>6, <1>7, TaskFields
     DEF UpdateInv, At, Registering, Writing, TypeOK
<1>11. StrandedInv'
  BY <1>2, <1>3, <1>5, <1>6 DEF StrandedInv, At
<1> QED
  BY <1>8, <1>9, <1>10, <1>11

LEMMA CommitKeeps ==
    ASSUME GatewayInv, NEW r \in Requests, Commit(r)
    PROVE  GatewayInv'
<1> USE DEF GatewayInv
<1>1. /\ At(r, {"written"})
      /\ config' \in 0..MaxUpdates
      /\ Ends(r)
      /\ UNCHANGED <<made, instance, entry>>
  BY TaskFields DEF Commit, At, TypeOK
<1>2. /\ task' \in [Requests -> {Idle} \cup Uses \cup Writes]
      /\ task'[r].step = "idle"
      /\ \A s \in Requests \ {r} : task'[s] = task[s]
      /\ overlaps' = overlaps
  BY <1>1, EndsFacts
<1>3. TypeOK'
  BY <1>1, <1>2 DEF TypeOK
<1>4. OwnerInv' /\ OneOwner' /\ RegisteredIsOpen'
  BY <1>1, <1>2 DEF OwnerInv, OneOwner, RegisteredIsOpen, At
<1>5. UpdateInv'
  BY <1>1, <1>2 DEF UpdateInv, At, Registering, Writing
<1>6. StrandedInv'
  BY <1>1, <1>2 DEF StrandedInv, At
<1> QED
  BY <1>3, <1>4, <1>5, <1>6

-----------------------------------------------------------------------------
LEMMA NextGatewayInv == GatewayInv /\ [Next]_vars => GatewayInv'
<1> SUFFICES ASSUME GatewayInv, [Next]_vars
             PROVE  GatewayInv'
  OBVIOUS
<1>0. TypeOK
  BY DEF GatewayInv
<1>1. ASSUME NEW r \in Requests, Load(r)
      PROVE  GatewayInv'
  BY <1>1, LoadKeeps
<1>2. ASSUME NEW r \in Requests, UseInChat(r)
      PROVE  GatewayInv'
  <2>1. Checking \in Uses /\ Checking.step = "checking"
    BY DEF Checking, Uses
  <2> QED
    BY <1>0, <1>2, <2>1, BecomesFacts, QuietStep DEF UseInChat
<1>3. ASSUME NEW r \in Requests, NEW delete \in BOOLEAN, Unregister(r, delete)
      PROVE  GatewayInv'
  BY <1>3, UnregisterKeeps
<1>4. ASSUME NEW r \in Requests, FindRegistered(r)
      PROVE  GatewayInv'
  <2>1. PICK t \in Uses : Becomes(r, t) /\ t.step \in {"calling", "checking"}
    BY <1>0, <1>4 DEF FindRegistered, Calling, Checking, Uses, TypeOK
  <2> QED
    BY <1>0, <1>4, <2>1, BecomesFacts, QuietStep DEF FindRegistered
<1>5. ASSUME NEW r \in Requests, Register(r)
      PROVE  GatewayInv'
  BY <1>5, RegisterKeeps
<1>6. ASSUME NEW r \in Requests, Connected(r)
      PROVE  GatewayInv'
  BY <1>6, ConnectedKeeps
<1>7. ASSUME NEW r \in Requests, ConnectFails(r)
      PROVE  GatewayInv'
  BY <1>7, ConnectFailsKeeps
<1>8. ASSUME NEW r \in Requests, Call(r)
      PROVE  GatewayInv'
  <2>1. CASE Ends(r)
    BY <1>0, <1>8, <2>1, EndsFacts, QuietStep DEF Call, TypeOK
  <2>2. CASE entry # None /\ Becomes(r, Calling(entry))
    <3>1. Calling(entry) \in Uses /\ Calling(entry).step = "calling"
      BY <1>0, <2>2 DEF Calling, Uses, TypeOK
    <3> QED
      BY <1>0, <1>8, <2>2, <3>1, BecomesFacts, QuietStep DEF Call
  <2> QED
    BY <1>8, <2>1, <2>2 DEF Call
<1>9. ASSUME NEW r \in Requests, EndCall(r)
      PROVE  GatewayInv'
  BY <1>0, <1>9, EndsFacts, QuietStep DEF EndCall, TypeOK
<1>10. ASSUME NEW r \in Requests, Disconnected(r)
       PROVE  GatewayInv'
  BY <1>10, DisconnectedKeeps
<1>11. ASSUME NEW r \in Requests, Write(r)
       PROVE  GatewayInv'
  <2> DEFINE t == [task[r] EXCEPT !.step = "written"]
  <2>1. task[r] \in Writes /\ At(r, {"writing"})
    BY <1>0, <1>11 DEF Write, At, TypeOK, Idle, Uses, Writes
  <2>2. t \in Writes /\ t.step = "written"
    BY <2>1 DEF At, Writes
  <2>3. Becomes(r, t) /\ UNCHANGED <<config, made, instance, entry>>
    BY <1>11 DEF Write
  <2> HIDE DEF t
  <2> QED
    BY <1>0, <2>1, <2>2, <2>3, BecomesFacts, QuietStep DEF At
<1>12. ASSUME NEW r \in Requests, Commit(r)
       PROVE  GatewayInv'
  BY <1>12, CommitKeeps
<1>13. ASSUME NEW r \in Requests, Abort(r)
       PROVE  GatewayInv'
  BY <1>0, <1>13, EndsFacts, QuietStep DEF Abort, TypeOK
<1>14. CASE UNCHANGED vars
  BY <1>14 DEF vars, GatewayInv, TypeOK, OwnerInv, OneOwner, RegisteredIsOpen, UpdateInv,
               StrandedInv, At, Registering, Writing
<1> QED
  BY <1>1, <1>2, <1>3, <1>4, <1>5, <1>6, <1>7, <1>8, <1>9, <1>10, <1>11, <1>12, <1>13, <1>14
     DEF Next, Work

\* The invariant holds in every state McpGateway can be in.
THEOREM GatewayInvariant == Spec => []GatewayInv
<1> QED
  BY InitGatewayInv, NextGatewayInv, PTL DEF Spec

\* Rows, instances and requests keep their types.
THEOREM GatewayTypeCorrect == Spec => []TypeOK
BY GatewayInvariant, PTL DEF GatewayInv

\* The registry hands out connected instances only: nobody disconnects what is
\* still registered, and nobody registers what is not connected yet.
THEOREM RegistryHandsOutOpen == Spec => []RegisteredIsOpen
BY GatewayInvariant, PTL DEF GatewayInv

\* An instance is connected or disconnected by one request at a time.
THEOREM InstancesHaveOneOwner == Spec => []OneOwner
BY GatewayInvariant, PTL DEF GatewayInv

\* Without a request that registers a connector while its row is updated, what is
\* registered has the committed configuration.
THEOREM UpdatesTakeEffect == Spec => []StaleOnlyAfterRace
<1>1. GatewayInv => StaleOnlyAfterRace
  BY DEF GatewayInv, UpdateInv, StaleOnlyAfterRace
<1> QED
  BY <1>1, GatewayInvariant, PTL

\* Without two requests that make an instance each, none is left open without
\* being registered.
THEOREM NothingStranded == Spec => []StrandedOnlyAfterRace
<1>1. GatewayInv => StrandedOnlyAfterRace
  BY DEF GatewayInv, StrandedInv, StrandedOnlyAfterRace
<1> QED
  BY <1>1, GatewayInvariant, PTL

\* What the registry hands out can be used, and is nobody else's to close.
THEOREM RegistrySound == Spec => []RegistryIsSound
BY RegistryHandsOutOpen, InstancesHaveOneOwner, PTL DEF RegistryIsSound

\* It is outdated, or instances are stranded, only after races.
THEOREM OnlyAfterRaces == Spec => []RacesAlone
BY UpdatesTakeEffect, NothingStranded, PTL DEF RacesAlone

-----------------------------------------------------------------------------
(* The execution of workflows, for graphs of any size: it visits what can  *)
(* be reached and nothing else.  The induction is on what was visited and  *)
(* is queued together, which only ever grows by the targets of edges that  *)
(* are followed.                                                           *)

Done == ToSet(steps)

\* The executed nodes of a kind that lead to n.
From(n, kind) == {m \in Done : kinds[m] = kind /\ n \in TargetsOf(m)}

\* What the traversal has come to.
Pending == visited \cup ToSet(queue)

ExecutorType ==
    /\ kinds \in BoundedSeq(Kinds \cup {"not executed"}, MaxNodes)
    /\ edges \subseteq Ids \X Ids /\ taken \subseteq edges
    /\ queue \in Seq(Ids) /\ visited \subseteq Ids /\ steps \in Seq(Ids)
    /\ status \in {"running", "completed", "error"}
    /\ executed \in [Ids -> Nat]

StepsInv ==
    /\ Done = visited \cap Nodes
    /\ \A i, j \in DOMAIN steps : steps[i] = steps[j] => i = j
    /\ \A i \in DOMAIN steps :
         kinds[steps[i]] = "error" <=> status = "error" /\ i = Len(steps)

\* It comes to the start nodes, to where edges were followed, and nowhere else.
ReachInv ==
    /\ StartNodes \subseteq Pending
    /\ \A e \in taken : e[2] \in Pending
    /\ \A S \in SUBSET Ids : Reached(S) => Pending \subseteq S
    /\ status = "completed" => queue = <<>>

Own(n) == IF n \in Done THEN 1 ELSE 0

TimesInv ==
    \A n \in Nodes :
        LET before == Own(n) + Cardinality(From(n, "parallel"))
        IN  /\ executed[n] >= before
            /\ executed[n] <= before + MaxIterations * Cardinality(From(n, "loop"))

ExecutorInv == ExecutorType /\ StepsInv /\ ReachInv /\ TimesInv

LEMMA ToSetTail ==
  ASSUME NEW S, NEW s \in Seq(S), s # <<>>
  PROVE  /\ Head(s) \in S /\ Tail(s) \in Seq(S)
         /\ ToSet(s) = {Head(s)} \cup ToSet(Tail(s))
  <1>1. /\ Head(s) \in S /\ Tail(s) \in Seq(S) /\ Len(Tail(s)) = Len(s) - 1
        /\ \A i \in 1..Len(Tail(s)) : Tail(s)[i] = s[i + 1]
    BY HeadTailProperties
  <1>2. DOMAIN s = 1..Len(s) /\ DOMAIN Tail(s) = 1..Len(Tail(s)) /\ Len(s) \in Nat \ {0}
    BY <1>1, LenProperties, EmptySeq
  <1>3. Head(s) = s[1]
    OBVIOUS
  <1>4. ToSet(s) \subseteq {Head(s)} \cup ToSet(Tail(s))
    <2> SUFFICES ASSUME NEW i \in 1..Len(s), i # 1 PROVE s[i] \in ToSet(Tail(s))
      BY <1>2, <1>3 DEF ToSet
    <2>1. i - 1 \in 1..Len(Tail(s)) /\ Tail(s)[i - 1] = s[(i - 1) + 1] /\ (i - 1) + 1 = i
      BY <1>1, <1>2
    <2> QED
      BY <1>2, <2>1 DEF ToSet
  <1>5. ToSet(Tail(s)) \subseteq ToSet(s)
    <2> SUFFICES ASSUME NEW i \in 1..Len(Tail(s)) PROVE s[i + 1] \in ToSet(s)
      BY <1>1, <1>2 DEF ToSet
    <2> QED
      BY <1>1, <1>2 DEF ToSet
  <1>6. Head(s) \in ToSet(s)
    BY <1>2, <1>3 DEF ToSet
  <1> QED
    BY <1>1, <1>4, <1>5, <1>6

LEMMA ToSetConcat ==
  ASSUME NEW S, NEW s \in Seq(S), NEW t \in Seq(S)
  PROVE  s \o t \in Seq(S) /\ ToSet(s \o t) = ToSet(s) \cup ToSet(t)
  <1>1. s \o t \in Seq(S) /\ Range(s \o t) = Range(s) \cup Range(t)
    BY ConcatProperties, RangeConcatenation
  <1> QED
    BY <1>1 DEF Range, ToSet

LEMMA ToSetAppend ==
  ASSUME NEW S, NEW s \in Seq(S), NEW x \in S
  PROVE  /\ Append(s, x) \in Seq(S) /\ Len(Append(s, x)) = Len(s) + 1
         /\ DOMAIN s = 1..Len(s) /\ Len(s) \in Nat
         /\ DOMAIN Append(s, x) = 1..(Len(s) + 1)
         /\ \A i \in 1..Len(s) : Append(s, x)[i] = s[i]
         /\ Append(s, x)[Len(s) + 1] = x
         /\ ToSet(Append(s, x)) = ToSet(s) \cup {x}
  <1>1. /\ Append(s, x) \in Seq(S) /\ Len(Append(s, x)) = Len(s) + 1
        /\ \A i \in 1..Len(s) : Append(s, x)[i] = s[i]
        /\ Append(s, x)[Len(s) + 1] = x
    BY AppendProperties
  <1>2. /\ DOMAIN s = 1..Len(s) /\ Len(s) \in Nat
        /\ DOMAIN Append(s, x) = 1..(Len(s) + 1)
    BY <1>1, LenProperties
  <1>3. \A i \in 1..(Len(s) + 1) : i \in 1..Len(s) \/ i = Len(s) + 1
    BY <1>2
  <1>4. 1..Len(s) \subseteq 1..(Len(s) + 1) /\ Len(s) + 1 \in 1..(Len(s) + 1)
    BY <1>2
  <1>5. ToSet(Append(s, x)) = ToSet(s) \cup {x}
    BY <1>1, <1>2, <1>3, <1>4 DEF ToSet
  <1> QED
    BY <1>1, <1>2, <1>5

\* Every order of a finite set has all its elements.
LEMMA OrdersOfSet ==
  ASSUME NEW S, IsFiniteSet(S), NEW f \in SetToSeqs(S)
  PROVE  f \in Seq(S) /\ ToSet(f) = S
  <1> DEFINE D == 1..Cardinality(S)
  <1>1. Cardinality(S) \in Nat
    BY FS_CardinalityType
  <1>2. f \in [D -> S] /\ \A i, j \in D : i # j => f[i] # f[j]
    BY DEF SetToSeqs
  <1>3. f \in Seq(S)
    BY <1>1, <1>2, SeqDef
  <1>4. f \in Injection(D, S)
    BY <1>2 DEF Injection, IsInjective
  <1>5. Cardinality(D) = Cardinality(S)
    BY <1>1, FS_Interval
  <1>6. f \in Surjection(D, S)
    BY <1>4, <1>5, FS_Injection
  <1>7. ToSet(f) = S
    BY <1>2, <1>6 DEF Surjection, ToSet
  <1> QED
    BY <1>3, <1>7

LEMMA ExecutorSets ==
  ASSUME ExecutorType
  PROVE  /\ Nodes \subseteq Ids /\ StartNodes \subseteq Nodes /\ Done \subseteq Ids
         /\ \A S \in SUBSET Ids : IsFiniteSet(S) /\ Cardinality(S) \in Nat
  <1>1. PICK m \in 0..MaxNodes : kinds \in [1..m -> Kinds \cup {"not executed"}]
    BY DEF ExecutorType, BoundedSeq, SeqOf
  <1>2. Nodes = 1..m /\ m <= MaxNodes /\ m \in Nat /\ MaxNodes \in Nat
    <2>1. Nodes = 1..m
      BY <1>1 DEF Nodes
    <2> QED
      BY <2>1, WorkflowExecutorAssumption
  <1>3. Nodes \subseteq Ids
    BY <1>2 DEF Ids
  <1>4. StartNodes \subseteq Nodes
    BY DEF StartNodes
  <1>5. Done \subseteq Ids
    <2>1. \A j \in DOMAIN steps : steps[j] \in Ids
      BY ElementOfSeq, LenProperties DEF ExecutorType
    <2> QED
      BY <2>1 DEF Done, ToSet
  <1>6. IsFiniteSet(Ids)
    BY <1>2, FS_Interval DEF Ids
  <1> QED
    BY <1>3, <1>4, <1>5, <1>6, FS_Subset, FS_CardinalityType

LEMMA ExecutorInit == WorkflowExecutorInit => ExecutorInv
  <1> SUFFICES ASSUME WorkflowExecutorInit PROVE ExecutorInv
    OBVIOUS
  <1>1. PICK m \in 0..MaxNodes : kinds = [j \in 1..m |-> "not executed"]
    BY DEF WorkflowExecutorInit
  <1>2. /\ edges \subseteq Ids \X Ids /\ visited = {} /\ steps = <<>> /\ taken = {}
        /\ executed = [n \in Ids |-> 0] /\ status = "running"
        /\ queue \in SetToSeqs(StartNodes)
    BY DEF WorkflowExecutorInit
  <1>3. kinds \in BoundedSeq(Kinds \cup {"not executed"}, MaxNodes)
    <2>1. kinds \in [1..m -> Kinds \cup {"not executed"}]
      BY <1>1
    <2> QED
      BY <2>1 DEF BoundedSeq, SeqOf
  <1>4. Nodes \subseteq Ids /\ StartNodes \subseteq Ids /\ IsFiniteSet(StartNodes)
    <2>0. Nodes = 1..m
      BY <1>1 DEF Nodes
    <2>1. Nodes = 1..m /\ m <= MaxNodes /\ m \in Nat /\ MaxNodes \in Nat
      BY <2>0, WorkflowExecutorAssumption
    <2>2. Nodes \subseteq Ids /\ StartNodes \subseteq Nodes /\ IsFiniteSet(Nodes)
      BY <2>1, FS_Interval DEF Ids, StartNodes
    <2> QED
      BY <2>2, FS_Subset
  <1>5. queue \in Seq(Ids) /\ ToSet(queue) = StartNodes
    BY <1>2, <1>4, OrdersOfSet, SeqMonotonic
  <1>6. ExecutorType
    BY <1>2, <1>3, <1>5, EmptySeq DEF ExecutorType
  <1>7. Done = {} /\ DOMAIN steps = {}
    BY <1>2 DEF Done, ToSet
  <1>8. StepsInv
    BY <1>2, <1>7 DEF StepsInv
  <1>9. ReachInv
    BY <1>2, <1>5 DEF ReachInv, Pending, Reached
  <1>10. TimesInv
    <2>1. \A n \in Nodes : executed[n] = 0 /\ Own(n) = 0
      BY <1>2, <1>4, <1>7 DEF Own
    <2>2. \A n \in Nodes : \A kind : From(n, kind) = {}
      BY <1>7 DEF From
    <2>3. Cardinality({}) = 0 /\ MaxIterations * 0 = 0
      BY FS_EmptySet, WorkflowExecutorAssumption
    <2>4. ASSUME NEW n \in Nodes
          PROVE  LET before == Own(n) + Cardinality(From(n, "parallel"))
                 IN  /\ executed[n] >= before
                     /\ executed[n] <= before + MaxIterations * Cardinality(From(n, "loop"))
      <3>1. Cardinality(From(n, "parallel")) = 0 /\ Cardinality(From(n, "loop")) = 0
        BY <2>2, <2>3
      <3> QED
        BY <2>1, <2>3, <3>1
    <2> QED
      BY <2>4 DEF TimesInv
  <1> QED
    BY <1>6, <1>8, <1>9, <1>10 DEF ExecutorInv

\* A node executes others as often as its kind says.
LEMMA ItselfBounds ==
  ASSUME NEW n \in Nodes, NEW kind \in Kinds, NEW times \in Itself(n, kind),
         NEW t \in Nodes, Nodes \subseteq Ids
  PROVE  /\ times[t] \in Nat
         /\ kind = "parallel" /\ t \in TargetsOf(n) => times[t] = 1
         /\ kind = "loop" /\ t \in TargetsOf(n) => times[t] <= MaxIterations
         /\ kind \notin {"parallel", "loop"} \/ t \notin TargetsOf(n) => times[t] = 0
  <1> DEFINE inside == TargetsOf(n) \cap Nodes
             Only(S, i) == [u \in Ids |-> IF u \in S THEN i ELSE 0]
  <1>1. t \in inside <=> t \in TargetsOf(n)
    OBVIOUS
  <1>2. CASE kind = "parallel"
    <2>1. times = Only(inside, 1)
      BY <1>2 DEF Itself
    <2> QED
      BY <1>1, <1>2, <2>1
  <1>3. CASE kind = "loop" /\ inside # {}
    <2>1. PICK body \in inside, i \in 0..MaxIterations : times = Only({body}, i)
      BY <1>3 DEF Itself
    <2>2. times[t] = IF t = body THEN i ELSE 0
      BY <2>1
    <2>3. i \in Nat /\ i <= MaxIterations /\ MaxIterations \in Nat
      BY WorkflowExecutorAssumption
    <2> QED
      BY <1>1, <1>3, <2>2, <2>3
  <1>4. CASE ~(kind = "parallel" \/ (kind = "loop" /\ inside # {}))
    <2>1. times = Only({}, 0)
      BY <1>4 DEF Itself
    <2>2. times[t] = 0
      BY <2>1
    <2> QED
      BY <1>1, <1>4, <2>2, WorkflowExecutorAssumption
  <1> QED
    BY <1>2, <1>3, <1>4

LEMMA ItselfType ==
  ASSUME NEW n, NEW kind, NEW times \in Itself(n, kind)
  PROVE  times \in [Ids -> Nat]
  BY WorkflowExecutorAssumption DEF Itself

\* What the execution of a node leaves to its success or failure.
Executed(n, kind) ==
    /\ Nodes' = Nodes /\ n \in Nodes /\ Nodes \subseteq Ids
    /\ kinds' \in BoundedSeq(Kinds \cup {"not executed"}, MaxNodes)
    /\ visited' \subseteq Ids /\ steps' \in Seq(Ids) /\ executed' \in [Ids -> Nat]
    /\ Tail(queue) \in Seq(Ids)
    /\ Done' = Done \cup {n} /\ n \notin Done /\ Done' = visited' \cap Nodes'
    /\ Pending = visited' \cup ToSet(Tail(queue)) /\ n \in Pending
    /\ kinds'[n] = kind /\ \A m \in Done : kinds'[m] = kinds[m]

LEMMA ExecuteStep ==
  ASSUME ExecutorInv, NEW n \in Nodes, NEW kind \in Kinds, Execute(n, kind)
  PROVE  Executed(n, kind)
  <1>0. ExecutorType /\ StepsInv
    BY DEF ExecutorInv
  <1>1. /\ n \in Ids /\ n \notin visited /\ n = Head(queue) /\ queue # <<>>
        /\ visited' = visited \cup {n} /\ steps' = Append(steps, n) /\ Nodes \subseteq Ids
        /\ kinds' = [kinds EXCEPT ![n] = kind]
    BY <1>0, ExecutorSets DEF Execute, Visit
  <1>2. Nodes' = Nodes /\ kinds'[n] = kind /\ \A m \in Nodes \ {n} : kinds'[m] = kinds[m]
    BY <1>1 DEF Nodes
  <1>3. kinds' \in BoundedSeq(Kinds \cup {"not executed"}, MaxNodes)
    <2>1. PICK m \in 0..MaxNodes : kinds \in [1..m -> Kinds \cup {"not executed"}]
      BY <1>0 DEF ExecutorType, BoundedSeq, SeqOf
    <2>2. kinds' \in [1..m -> Kinds \cup {"not executed"}]
      BY <1>1, <2>1
    <2> QED
      BY <2>2 DEF BoundedSeq, SeqOf
  <1>4. visited' \subseteq Ids /\ steps' \in Seq(Ids) /\ ToSet(steps') = ToSet(steps) \cup {n}
    <2>1. steps \in Seq(Ids) /\ visited \subseteq Ids
      BY <1>0 DEF ExecutorType
    <2>2. Append(steps, n) \in Seq(Ids) /\ ToSet(Append(steps, n)) = ToSet(steps) \cup {n}
      BY <1>1, <2>1, ToSetAppend
    <2> QED
      BY <1>1, <2>1, <2>2
  <1>5. executed' \in [Ids -> Nat]
    <2>1. PICK times \in Itself(n, kind) :
            executed' = [t \in Ids |-> executed[t] + times[t] + (IF t = n THEN 1 ELSE 0)]
      BY DEF Execute
    <2>2. times \in [Ids -> Nat] /\ executed \in [Ids -> Nat]
      BY <1>0, ItselfType DEF ExecutorType
    <2> QED
      BY <2>1, <2>2
  <1>6. Tail(queue) \in Seq(Ids) /\ ToSet(queue) = {n} \cup ToSet(Tail(queue))
    BY <1>0, <1>1, ToSetTail DEF ExecutorType
  <1>7. Done' = Done \cup {n} /\ n \notin Done /\ Done' = visited' \cap Nodes' /\ Done \subseteq Nodes
    BY <1>0, <1>1, <1>2, <1>4 DEF StepsInv, Done
  <1>8. Pending = visited' \cup ToSet(Tail(queue)) /\ n \in Pending
    BY <1>1, <1>6 DEF Pending
  <1> QED
    BY <1>1, <1>2, <1>3, <1>4, <1>5, <1>6, <1>7, <1>8 DEF Executed

\* Its kind is that of the last step.
LEMMA ExecuteSteps ==
  ASSUME ExecutorInv, NEW n \in Nodes, NEW kind \in Kinds, Execute(n, kind)
  PROVE  /\ \A i, j \in DOMAIN steps' : steps'[i] = steps'[j] => i = j
         /\ \A i \in DOMAIN steps' :
              kinds'[steps'[i]] = "error" <=> kind = "error" /\ i = Len(steps')
  <1>0. ExecutorType /\ StepsInv /\ Executed(n, kind) /\ status = "running"
        /\ steps' = Append(steps, n)
    BY ExecuteStep DEF ExecutorInv, Execute
  <1> DEFINE k == Len(steps)
  <1>1. /\ k \in Nat /\ DOMAIN steps = 1..k /\ DOMAIN steps' = 1..(k + 1) /\ Len(steps') = k + 1
        /\ \A i \in 1..k : steps'[i] = steps[i]
        /\ steps'[k + 1] = n
    <2>1. n \in Ids /\ steps \in Seq(Ids)
      BY <1>0 DEF Executed, ExecutorType
    <2>2. /\ Len(Append(steps, n)) = k + 1
          /\ DOMAIN steps = 1..k /\ k \in Nat
          /\ DOMAIN Append(steps, n) = 1..(k + 1)
          /\ \A i \in 1..k : Append(steps, n)[i] = steps[i]
          /\ Append(steps, n)[k + 1] = n
      BY <2>1, ToSetAppend
    <2> QED
      BY <1>0, <2>2
  <1> HIDE DEF k
  <1>2. \A i \in 1..k : steps[i] \in Done /\ steps[i] # n
    BY <1>0, <1>1 DEF Done, ToSet, Executed
  <1>3. \A i \in 1..(k + 1) : i \in 1..k \/ i = k + 1
    BY <1>1
  <1>4. \A i, j \in 1..k : steps[i] = steps[j] => i = j
    BY <1>0, <1>1 DEF StepsInv
  <1>5. \A i \in 1..k : kinds'[steps'[i]] # "error" /\ i # k + 1
    BY <1>0, <1>1, <1>2 DEF StepsInv, Executed
  <1>6. \A i, j \in DOMAIN steps' : steps'[i] = steps'[j] => i = j
    BY <1>1, <1>2, <1>3, <1>4
  <1>7. kinds'[steps'[k + 1]] = kind
    BY <1>0, <1>1 DEF Executed
  <1>8. \A i \in DOMAIN steps' :
          kinds'[steps'[i]] = "error" <=> kind = "error" /\ i = Len(steps')
    BY <1>1, <1>3, <1>5, <1>7
  <1> QED
    BY <1>6, <1>8

LEMMA ExecuteTimes ==
  ASSUME ExecutorInv, NEW n \in Nodes, NEW kind \in Kinds, Execute(n, kind)
  PROVE  TimesInv'
  <1>0. /\ ExecutorType /\ TimesInv /\ Executed(n, kind)
        /\ UNCHANGED edges /\ MaxIterations \in Nat
    BY ExecuteStep, WorkflowExecutorAssumption DEF ExecutorInv, Execute
  <1>1. PICK times \in Itself(n, kind) :
          executed' = [t \in Ids |-> executed[t] + times[t] + (IF t = n THEN 1 ELSE 0)]
    BY DEF Execute
  <1> SUFFICES ASSUME NEW t \in Nodes
               PROVE  LET before == Own(t)' + Cardinality(From(t, "parallel")')
                      IN  /\ executed'[t] >= before
                          /\ executed'[t]
                               <= before + MaxIterations * Cardinality(From(t, "loop")')
    BY <1>0 DEF TimesInv, Executed
  <1>2. t \in Ids /\ executed[t] \in Nat
    BY <1>0 DEF Executed, ExecutorType
  <1>3. /\ executed'[t] = executed[t] + times[t] + (IF t = n THEN 1 ELSE 0)
        /\ times[t] \in Nat
    BY <1>0, <1>1, <1>2, ItselfBounds DEF Executed
  <1>4. Own(t)' = Own(t) + (IF t = n THEN 1 ELSE 0) /\ Own(t) \in Nat
    <2>1. Done' = Done \cup {n} /\ n \notin Done
      BY <1>0 DEF Executed
    <2>2. CASE t = n
      <3>1. t \notin Done /\ t \in Done'
        BY <2>1, <2>2
      <3> QED
        BY <2>2, <3>1 DEF Own
    <2>3. CASE t # n
      <3>1. t \in Done' <=> t \in Done
        BY <2>1, <2>3
      <3> QED
        BY <2>3, <3>1 DEF Own
    <2> QED
      BY <2>2, <2>3
  <1>5. ASSUME NEW k
        PROVE  /\ kind = k /\ t \in TargetsOf(n) =>
                    Cardinality(From(t, k)') = Cardinality(From(t, k)) + 1
               /\ ~(kind = k /\ t \in TargetsOf(n)) =>
                    Cardinality(From(t, k)') = Cardinality(From(t, k))
               /\ Cardinality(From(t, k)) \in Nat
    <2>1. From(t, k) \subseteq Ids /\ n \notin From(t, k)
      BY <1>0, ExecutorSets DEF From, Executed
    <2>2. IsFiniteSet(From(t, k)) /\ Cardinality(From(t, k)) \in Nat
      BY <1>0, <2>1, ExecutorSets
    <2>3. /\ kind = k /\ t \in TargetsOf(n) => From(t, k)' = From(t, k) \cup {n}
          /\ ~(kind = k /\ t \in TargetsOf(n)) => From(t, k)' = From(t, k)
      BY <1>0 DEF From, Executed, TargetsOf
    <2> QED
      BY <2>1, <2>2, <2>3, FS_AddElement
  <1> DEFINE p == Cardinality(From(t, "parallel"))
             q == Cardinality(From(t, "parallel")')
             l == Cardinality(From(t, "loop"))
             m == Cardinality(From(t, "loop")')
             x == MaxIterations * l
             y == MaxIterations * m
  <1>6. /\ p \in Nat /\ l \in Nat
        /\ kind = "parallel" /\ t \in TargetsOf(n) => q = p + 1
        /\ ~(kind = "parallel" /\ t \in TargetsOf(n)) => q = p
        /\ kind = "loop" /\ t \in TargetsOf(n) => m = l + 1
        /\ ~(kind = "loop" /\ t \in TargetsOf(n)) => m = l
    BY <1>5
  <1>7. executed[t] >= Own(t) + p /\ executed[t] <= Own(t) + p + x
    BY <1>0 DEF TimesInv
  <1> HIDE DEF p, q, l, m
  <1>8. /\ kind = "loop" /\ t \in TargetsOf(n) => y = x + MaxIterations
        /\ ~(kind = "loop" /\ t \in TargetsOf(n)) => y = x
        /\ x \in Nat
    <2>1. MaxIterations * (l + 1) = MaxIterations * l + MaxIterations /\ x \in Nat
      BY <1>0, <1>6
    <2> QED
      BY <1>6, <2>1
  <1> HIDE DEF x, y
  <1>9. /\ kind = "parallel" /\ t \in TargetsOf(n) => times[t] = 1
        /\ kind = "loop" /\ t \in TargetsOf(n) => times[t] <= MaxIterations
        /\ kind \notin {"parallel", "loop"} \/ t \notin TargetsOf(n) => times[t] = 0
    <2>1. Nodes \subseteq Ids
      BY <1>0 DEF Executed
    <2> QED
      BY <1>1, <2>1, ItselfBounds
  <1>10. executed'[t] >= Own(t)' + q /\ executed'[t] <= Own(t)' + q + y
    <2> DEFINE mine == IF t = n THEN 1 ELSE 0
    <2>1. /\ executed'[t] = executed[t] + times[t] + mine /\ Own(t)' = Own(t) + mine
          /\ mine \in Nat
      BY <1>3, <1>4
    <2> HIDE DEF mine
    <2>2. CASE kind = "parallel" /\ t \in TargetsOf(n)
      <3>1. q = p + 1 /\ y = x /\ times[t] = 1
        BY <1>6, <1>8, <1>9, <2>2
      <3> QED
        BY <1>2, <1>4, <1>6, <1>7, <1>8, <2>1, <3>1
    <2>3. CASE kind = "loop" /\ t \in TargetsOf(n)
      <3>1. q = p /\ y = x + MaxIterations /\ times[t] <= MaxIterations
        BY <1>6, <1>8, <1>9, <2>3
      <3> QED
        BY <1>0, <1>2, <1>3, <1>4, <1>6, <1>7, <1>8, <2>1, <3>1
    <2>4. CASE kind \notin {"parallel", "loop"} \/ t \notin TargetsOf(n)
      <3>1. q = p /\ y = x /\ times[t] = 0
        BY <1>6, <1>8, <1>9, <2>4
      <3> QED
        BY <1>2, <1>4, <1>6, <1>7, <1>8, <2>1, <3>1
    <2> QED
      BY <2>2, <2>3, <2>4
  <1> QED
    BY <1>10 DEF q, m, y

LEMMA FinishKeeps == ASSUME ExecutorInv, Finish PROVE ExecutorInv'
  <1>1. /\ status = "running" /\ status' = "completed" /\ queue = <<>>
        /\ UNCHANGED <<kinds, edges, queue, visited, steps, taken, executed>>
    BY DEF Finish
  <1>2. /\ Done' = Done /\ Nodes' = Nodes /\ Pending' = Pending /\ StartNodes' = StartNodes
        /\ \A S : Reached(S)' <=> Reached(S)
    BY <1>1 DEF Done, Nodes, Pending, StartNodes, TargetsOf, Reached
  <1>3. ExecutorType'
    BY <1>1 DEF ExecutorInv, ExecutorType
  <1>4. StepsInv'
    BY <1>1, <1>2 DEF ExecutorInv, StepsInv
  <1>5. ReachInv'
    BY <1>1, <1>2 DEF ExecutorInv, ReachInv
  <1>6. TimesInv'
    BY <1>1, <1>2 DEF ExecutorInv, TimesInv, Own, From, TargetsOf
  <1> QED
    BY <1>3, <1>4, <1>5, <1>6 DEF ExecutorInv

LEMMA SkipKeeps == ASSUME ExecutorInv, Skip PROVE ExecutorInv'
  <1>0. ExecutorType /\ StepsInv /\ ReachInv /\ TimesInv
    BY DEF ExecutorInv
  <1>1. /\ status = "running" /\ queue # <<>>
        /\ Head(queue) \in visited \/ Head(queue) \notin Nodes
        /\ queue' = Tail(queue) /\ visited' = visited \cup {Head(queue)}
        /\ UNCHANGED <<kinds, edges, steps, status, taken, executed>>
    BY DEF Skip, Visit
  <1>2. /\ Head(queue) \in Ids /\ Tail(queue) \in Seq(Ids)
        /\ ToSet(queue) = {Head(queue)} \cup ToSet(Tail(queue))
    BY <1>0, <1>1, ToSetTail DEF ExecutorType
  <1>3. /\ Done' = Done /\ Nodes' = Nodes /\ StartNodes' = StartNodes
        /\ \A S : Reached(S)' <=> Reached(S)
    BY <1>1 DEF Done, Nodes, StartNodes, TargetsOf, Reached
  <1>4. Pending' = Pending
    BY <1>1, <1>2 DEF Pending
  <1>5. ExecutorType'
    BY <1>0, <1>1, <1>2 DEF ExecutorType
  <1>6. StepsInv'
    BY <1>0, <1>1, <1>3 DEF StepsInv
  <1>7. ReachInv'
    BY <1>0, <1>1, <1>3, <1>4 DEF ReachInv
  <1>8. TimesInv'
    BY <1>0, <1>1, <1>3 DEF TimesInv, Own, From, TargetsOf
  <1> QED
    BY <1>5, <1>6, <1>7, <1>8 DEF ExecutorInv

\* The start nodes are a matter of the graph, whatever its nodes turn out to be.
LEMMA StartNodesStay ==
  ASSUME Nodes' = Nodes, UNCHANGED edges
  PROVE  StartNodes' = StartNodes /\ \A n : TargetsOf(n)' = TargetsOf(n)
  BY DEF StartNodes, TargetsOf

LEMMA FailureKeeps ==
  ASSUME ExecutorInv, NEW n \in Nodes, ExecuteFails(n) PROVE ExecutorInv'
  <1>0. ExecutorType /\ StepsInv /\ ReachInv /\ TimesInv
    BY DEF ExecutorInv
  <1>1. /\ Execute(n, "error") /\ "error" \in Kinds
        /\ status' = "error" /\ queue' = Tail(queue) /\ UNCHANGED <<taken, edges>>
    BY DEF ExecuteFails, Execute, Kinds
  <1>2. Executed(n, "error")
    BY <1>1, ExecuteStep
  <1>3. StartNodes' = StartNodes /\ \A S : Reached(S)' <=> Reached(S)
    BY <1>1, <1>2, StartNodesStay DEF Executed, Reached
  <1>4. Pending' = Pending
    BY <1>1, <1>2 DEF Executed, Pending
  <1>5. ExecutorType'
    BY <1>0, <1>1, <1>2 DEF ExecutorType, Executed
  <1>6. StepsInv'
    <2>1. /\ \A i, j \in DOMAIN steps' : steps'[i] = steps'[j] => i = j
          /\ \A i \in DOMAIN steps' : kinds'[steps'[i]] = "error" <=> i = Len(steps')
      BY <1>1, ExecuteSteps
    <2> QED
      BY <1>1, <1>2, <2>1 DEF StepsInv, Executed
  <1>7. ReachInv'
    BY <1>0, <1>1, <1>3, <1>4 DEF ReachInv
  <1>8. TimesInv'
    BY <1>1, ExecuteTimes
  <1> QED
    BY <1>5, <1>6, <1>7, <1>8 DEF ExecutorInv

LEMMA SuccessKeeps ==
  ASSUME ExecutorInv, NEW n \in Nodes, NEW kind \in Kinds, ExecuteSucceeds(n, kind)
  PROVE  ExecutorInv'
  <1>0. ExecutorType /\ StepsInv /\ ReachInv /\ TimesInv
    BY DEF ExecutorInv
  <1>1. /\ Execute(n, kind) /\ kind # "error"
        /\ status = "running" /\ UNCHANGED <<status, edges>>
    BY DEF ExecuteSucceeds, Execute
  <1>2. Executed(n, kind)
    BY <1>1, ExecuteStep
  <1>a. PICK to \in SUBSET TargetsOf(n) :
          /\ taken' = taken \cup ({n} \X to)
          /\ \E next \in SetToSeqs(to \ visited') : queue' = Tail(queue) \o next
    BY DEF ExecuteSucceeds
  <1>3. PICK next \in SetToSeqs(to \ visited') :
          taken' = taken \cup ({n} \X to) /\ queue' = Tail(queue) \o next
    BY <1>a
  <1>4. /\ StartNodes' = StartNodes
        /\ to \subseteq Ids /\ \A t \in to : <<n, t>> \in edges /\ <<n, t>> \in taken'
    BY <1>1, <1>2, <1>3, StartNodesStay DEF Executed, TargetsOf
  <1>5. next \in Seq(Ids) /\ ToSet(next) = to \ visited'
    <2>1. IsFiniteSet(to \ visited') /\ to \ visited' \subseteq Ids
      BY <1>0, <1>4, ExecutorSets
    <2>2. next \in Seq(to \ visited') /\ ToSet(next) = to \ visited'
      BY <2>1, OrdersOfSet
    <2> QED
      BY <2>1, <2>2, SeqMonotonic
  <1>6. queue' \in Seq(Ids) /\ ToSet(queue') = ToSet(Tail(queue)) \cup (to \ visited')
    <2>1. Tail(queue) \in Seq(Ids)
      BY <1>2 DEF Executed
    <2>2. /\ Tail(queue) \o next \in Seq(Ids)
          /\ ToSet(Tail(queue) \o next) = ToSet(Tail(queue)) \cup ToSet(next)
      BY <1>5, <2>1, ToSetConcat
    <2>3. queue' = Tail(queue) \o next /\ ToSet(next) = to \ visited'
      BY <1>3, <1>5
    <2> QED
      BY <2>2, <2>3, Zenon
  <1>7. Pending' = Pending \cup to /\ n \in Pending
    <2>1. Pending = visited' \cup ToSet(Tail(queue)) /\ n \in Pending
      BY <1>2 DEF Executed
    <2>2. Pending' = visited' \cup ToSet(queue')
      BY DEF Pending
    <2> QED
      BY <1>6, <2>1, <2>2
  <1>8. ExecutorType'
    <2>1. taken' \subseteq edges
      <3>1. \A e \in {n} \X to : e = <<n, e[2]>> /\ e[2] \in to
        OBVIOUS
      <3>2. {n} \X to \subseteq edges
        BY <1>4, <3>1
      <3> QED
        BY <1>0, <1>3, <3>2 DEF ExecutorType
    <2> QED
      BY <1>0, <1>1, <1>2, <1>6, <2>1 DEF ExecutorType, Executed
  <1>9. StepsInv'
    <2>1. /\ \A i, j \in DOMAIN steps' : steps'[i] = steps'[j] => i = j
          /\ \A i \in DOMAIN steps' : kinds'[steps'[i]] # "error"
      BY <1>1, ExecuteSteps
    <2> QED
      BY <1>1, <1>2, <2>1 DEF StepsInv, Executed
  <1>10. ReachInv'
    <2>1. \A e \in taken' : e \in taken \/ e[2] \in to
      BY <1>3
    <2>2. ASSUME NEW S \in SUBSET Ids, Reached(S)' PROVE Pending' \subseteq S
      <3>1. Reached(S)
        BY <1>3, <1>4, <2>2 DEF Reached
      <3>2. n \in S
        BY <1>0, <1>7, <3>1 DEF ReachInv
      <3>3. \A t \in to : t \in S
        BY <1>4, <2>2, <3>2 DEF Reached
      <3> QED
        BY <1>0, <1>7, <3>1, <3>3 DEF ReachInv
    <2> QED
      BY <1>0, <1>1, <1>4, <1>7, <2>1, <2>2 DEF ReachInv
  <1>11. TimesInv'
    BY <1>1, ExecuteTimes
  <1> QED
    BY <1>8, <1>9, <1>10, <1>11 DEF ExecutorInv

LEMMA ExecutorNext == ASSUME ExecutorInv, [WorkflowExecutorNext]_executorVars PROVE ExecutorInv'
  <1>1. CASE UNCHANGED executorVars
    <2>1. UNCHANGED <<kinds, edges, queue, visited, steps, status, taken, executed>>
      BY <1>1 DEF executorVars
    <2>2. /\ Done' = Done /\ Nodes' = Nodes /\ Pending' = Pending
          /\ StartNodes' = StartNodes /\ \A S : Reached(S)' <=> Reached(S)
      BY <2>1 DEF Done, Nodes, Pending, StartNodes, TargetsOf, Reached
    <2>3. ExecutorType'
      BY <2>1 DEF ExecutorInv, ExecutorType
    <2>4. StepsInv' /\ ReachInv'
      BY <2>1, <2>2 DEF ExecutorInv, StepsInv, ReachInv
    <2>5. TimesInv'
      BY <2>1, <2>2 DEF ExecutorInv, TimesInv, Own, From, TargetsOf
    <2> QED
      BY <2>3, <2>4, <2>5 DEF ExecutorInv
  <1>2. ASSUME NEW n \in Nodes, NEW kind \in Kinds, ExecuteSucceeds(n, kind)
        PROVE  ExecutorInv'
    BY <1>2, SuccessKeeps
  <1> QED
    BY <1>1, <1>2, FinishKeeps, SkipKeeps, FailureKeeps DEF WorkflowExecutorNext

LEMMA ExecutorHolds == ASSUME ExecutorInv PROVE RunsWhatIsReached
  <1>0. ExecutorType /\ StepsInv /\ ReachInv /\ TimesInv
    BY DEF ExecutorInv
  <1>1. IsInjective(steps)
    BY <1>0 DEF StepsInv, IsInjective
  <1>2. ASSUME status = "completed"
        PROVE  /\ Reached(visited)
               /\ \A S \in SUBSET visited : Reached(S) => S = visited
               /\ Done = visited \cap Nodes
    <2>1. Pending = visited
      BY <1>0, <1>2 DEF ReachInv, Pending, ToSet
    <2> QED
      BY <1>0, <2>1 DEF ReachInv, Reached, StepsInv, ExecutorType
  <1>3. ASSUME NEW n \in Done
        PROVE  LET before == 1 + Cardinality(From(n, "parallel"))
               IN  /\ executed[n] >= before
                   /\ executed[n] <= before + MaxIterations * Cardinality(From(n, "loop"))
    BY <1>0, <1>3 DEF StepsInv, TimesInv, Own
  <1> QED
    BY <1>0, <1>1, <1>2, <1>3 DEF RunsWhatIsReached, StepsInv, Done, From

LEMMA ExecutorTypeHolds == ExecutorInv => WorkflowExecutorTypeOK
  <1> SUFFICES ASSUME ExecutorInv PROVE WorkflowExecutorTypeOK
    OBVIOUS
  <1>0. ExecutorType /\ StepsInv
    BY DEF ExecutorInv
  <1>1. \A j \in DOMAIN queue : queue[j] \in Ids
    BY <1>0, ElementOfSeq, LenProperties DEF ExecutorType
  <1>2. \A n \in ToSet(queue) \cup visited : n \in Ids
    BY <1>0, <1>1 DEF ExecutorType, ToSet
  <1>3. ToSet(steps) \subseteq Nodes
    BY <1>0 DEF StepsInv, Done
  <1> QED
    BY <1>0, <1>2, <1>3 DEF ExecutorType, WorkflowExecutorTypeOK

-----------------------------------------------------------------------------
(* The rate limiter.                                                        *)

\* What the bucket would hold at time t without a cap.
Uncapped(b, t) == b.parts + (t - b.at) * Rate

\* A request does not take longer than MaxDelay.
Prompt ==
    \A c \in InFlight : arrival[c].now <= clock /\ clock <= arrival[c].now + MaxDelay

\* The bucket has not got less than nothing by now, and is full when it expires.
BucketInv ==
    /\ bucket.at <= clock /\ bucket.written <= clock
    /\ bucket.written < 0 => bucket.at = 0 /\ bucket.parts = Capacity
    /\ bucket.written >= 0 => Uncapped(bucket, bucket.written) >= 0

ReadInv ==
    \A c \in Arrivals : arrival[c].step = "read" =>
        /\ arrival[c].parts <= Capacity
        /\ arrival[c].parts + (clock - arrival[c].now) * Rate >= 0

\* While no requests overlap, those of before the count come first, and others
\* alone; what was let through and what is left are within the rate.
AloneInv ==
    ~rateOverlaps =>
        /\ \A c \in InFlight : arrival[c].now < since => admitted = 0
        /\ \A c, d \in InFlight : c # d => arrival[c].now < since
        /\ admitted > 0 => /\ bucket.at >= since
                           /\ admitted * Unit + bucket.parts
                                <= Capacity + (bucket.at - since) * Rate
        /\ \A c \in Arrivals :
             arrival[c].step = "read" /\ arrival[c].now >= since =>
               admitted * Unit + arrival[c].parts
                 <= Capacity + (arrival[c].now - since) * Rate

RateInv == RateLimiterTypeOK /\ Prompt /\ BucketInv /\ ReadInv /\ AloneInv

\* The types of the bucket and of what requests do.
BucketType == bucket \in [parts : Int, at : 0..MaxClock, written : (0 - Ttl)..MaxClock]
ArrivalType ==
    arrival \in [Arrivals -> {Outside} \cup [step : {"timed"}, now : 0..MaxClock]
                     \cup [step : {"read"}, now : 0..MaxClock, parts : Int]]

LEMMA RateConstants ==
    Unit \in Nat /\ Capacity \in Nat /\ Rate \in Nat /\ Ttl \in Nat
    /\ MaxClock \in Nat /\ MaxDelay \in Nat
  BY RateLimiterAssumption

\* The types of the fields.
LEMMA RateTypes ==
  ASSUME RateLimiterTypeOK
  PROVE  /\ clock \in Nat /\ clock <= MaxClock /\ admitted \in Nat /\ rateOverlaps \in BOOLEAN
         /\ since \in Nat /\ since <= clock
         /\ bucket.parts \in Int /\ bucket.at \in Nat /\ bucket.written \in Int
         /\ \A c \in InFlight : arrival[c].now \in Nat
         /\ \A c \in Arrivals : arrival[c].step = "read" =>
              c \in InFlight /\ arrival[c].now \in Nat /\ arrival[c].parts \in Int
         /\ BucketType /\ ArrivalType
  <1> USE RateConstants DEF RateLimiterTypeOK
  <1>1. BucketType /\ ArrivalType
    BY DEF BucketType, ArrivalType
  <1>2. bucket.parts \in Int /\ bucket.at \in Nat /\ bucket.written \in Int
    BY <1>1 DEF BucketType
  <1>3. \A c \in InFlight : arrival[c].now \in Nat
    BY <1>1 DEF ArrivalType, InFlight, Outside
  <1>4. \A c \in Arrivals : arrival[c].step = "read" =>
          c \in InFlight /\ arrival[c].now \in Nat /\ arrival[c].parts \in Int
    BY <1>1 DEF ArrivalType, InFlight, Outside
  <1>5. /\ clock \in Nat /\ clock <= MaxClock /\ admitted \in Nat /\ rateOverlaps \in BOOLEAN
        /\ since \in Nat /\ since <= clock
    OBVIOUS
  <1> QED
    BY <1>1, <1>2, <1>3, <1>4, <1>5

LEMMA TimesMonotone ==
  ASSUME NEW x \in Int, NEW y \in Int, NEW k \in Nat, x <= y
  PROVE  x * k <= y * k
  <1>1. (y - x) * k >= 0
    <2>1. y - x \in Nat OBVIOUS
    <2>2. \A a, b \in Nat : a * b \in Nat OBVIOUS
    <2> QED BY <2>1, <2>2
  <1>2. (y - x) * k = y * k - x * k OBVIOUS
  <1> QED BY <1>1, <1>2

\* Time that passes adds to the bucket.
LEMMA UncappedLater ==
  ASSUME NEW p \in Int, NEW k \in Nat, NEW a \in Int, NEW s \in Int, NEW t \in Int, s <= t
  PROVE  /\ p + (s - a) * k <= p + (t - a) * k
         /\ p + (t - a) * k = p + (s - a) * k + (t - s) * k
  <1>1. (s - a) * k <= (t - a) * k
    BY TimesMonotone, s - a \in Int, t - a \in Int, s - a <= t - a
  <1>2. (t - a) * k = (s - a) * k + (t - s) * k OBVIOUS
  <1> QED BY <1>1, <1>2

LEMMA RateInit == RateLimiterInit => RateInv
  <1> SUFFICES ASSUME RateLimiterInit PROVE RateInv
    OBVIOUS
  <1> USE RateConstants
  <1>1. InFlight = {}
    BY DEF RateLimiterInit, InFlight, Outside
  <1>2. RateLimiterTypeOK
    <2>1. BucketType /\ bucket.parts <= Capacity
      <3>1. 0 - Ttl \in (0 - Ttl)..MaxClock
        OBVIOUS
      <3> QED
        BY <3>1 DEF RateLimiterInit, BucketType
    <2>2. ArrivalType
      BY DEF RateLimiterInit, ArrivalType
    <2>3. clock \in 0..MaxClock /\ admitted \in Nat /\ since \in 0..clock
      BY DEF RateLimiterInit
    <2>4. rateOverlaps \in BOOLEAN
      BY DEF RateLimiterInit
    <2> QED
      BY <2>1, <2>2, <2>3, <2>4 DEF RateLimiterTypeOK, BucketType, ArrivalType
  <1>3. \A c \in Arrivals : arrival[c].step # "read"
    BY DEF RateLimiterInit, Outside
  <1>4. BucketInv
    BY DEF RateLimiterInit, BucketInv, Uncapped
  <1> QED
    BY <1>1, <1>2, <1>3, <1>4 DEF RateInv, Prompt, ReadInv, AloneInv, RateLimiterInit

LEMMA TickKeeps == RateInv /\ Tick => RateInv'
  <1> SUFFICES ASSUME RateInv, Tick PROVE RateInv'
    OBVIOUS
  <1> USE RateConstants
  <1>a. RateLimiterTypeOK
    BY DEF RateInv
  <1>0. /\ clock \in Nat /\ clock' = clock + 1 /\ bucket' = bucket /\ arrival' = arrival
        /\ InFlight' = InFlight
    BY <1>a, RateTypes DEF Tick, InFlight
  <1>1. RateLimiterTypeOK'
    <2>1. BucketType' /\ ArrivalType' /\ bucket'.parts <= Capacity
      BY <1>0, <1>a, RateTypes DEF BucketType, ArrivalType, RateLimiterTypeOK
    <2>2. clock + 1 \in 0..MaxClock /\ clock + 1 \in 0..(clock + 1)
      BY <1>0, <1>a, RateTypes DEF Tick
    <2>3. admitted' \in Nat /\ since' \in 0..(clock + 1)
      <3>1. since \in 0..(clock + 1) /\ admitted \in Nat
        BY <1>0, <1>a, RateTypes
      <3> QED
        BY <1>0, <2>2, <3>1 DEF Tick
    <2>4. rateOverlaps' \in BOOLEAN
      BY <1>a, RateTypes DEF Tick
    <2> QED
      BY <1>0, <2>1, <2>2, <2>3, <2>4 DEF RateLimiterTypeOK, BucketType, ArrivalType
  <1>2. ASSUME NEW c \in InFlight
        PROVE  arrival[c].now \in Nat
    BY <1>2, <1>a, RateTypes
  <1>3. Prompt'
    BY <1>0, <1>2 DEF RateInv, Prompt, Tick
  <1>4. BucketInv'
    BY <1>0 DEF RateInv, RateLimiterTypeOK, BucketInv, Uncapped
  <1>5. ReadInv'
    <2> SUFFICES ASSUME NEW c \in Arrivals, arrival'[c].step = "read"
                 PROVE  /\ arrival'[c].parts <= Capacity
                        /\ arrival'[c].parts + (clock' - arrival'[c].now) * Rate >= 0
      BY DEF ReadInv
    <2>0. arrival[c].step = "read"
      BY <1>0
    <2>1. arrival[c].parts \in Int /\ arrival[c].now \in Nat
      BY <1>a, <2>0, RateTypes
    <2>2. /\ arrival[c].parts <= Capacity
          /\ arrival[c].parts + (clock - arrival[c].now) * Rate >= 0
      BY <2>0 DEF RateInv, ReadInv
    <2>a. clock \in Int /\ clock' \in Int /\ clock <= clock'
      BY <1>0
    <2>3. arrival[c].parts + (clock - arrival[c].now) * Rate
            <= arrival[c].parts + (clock' - arrival[c].now) * Rate
      BY <2>a, <2>1, UncappedLater
    <2>4. /\ arrival[c].parts + (clock - arrival[c].now) * Rate \in Int
          /\ arrival[c].parts + (clock' - arrival[c].now) * Rate \in Int
      BY <2>a, <2>1
    <2>5. arrival[c].parts + (clock' - arrival[c].now) * Rate >= 0
      <3> DEFINE x == arrival[c].parts + (clock - arrival[c].now) * Rate
                 y == arrival[c].parts + (clock' - arrival[c].now) * Rate
      <3>1. x >= 0 /\ x <= y /\ x \in Int /\ y \in Int
        BY <2>2, <2>3, <2>4
      <3> HIDE DEF x, y
      <3>2. y >= 0
        BY <3>1
      <3> QED
        BY <3>2 DEF y
    <2>6. arrival' = arrival
      BY <1>0
    <2> QED
      BY <2>2, <2>5, <2>6, Zenon
  <1>6. AloneInv'
    <2>1. CASE UNCHANGED <<admitted, since, rateOverlaps>>
      BY <1>0, <2>1 DEF RateInv, AloneInv
    <2>2. CASE admitted' = 0 /\ since' = clock + 1
      <3>1. \A c \in InFlight : arrival[c].now < since'
        BY <1>0, <1>2, <2>2 DEF RateInv, Prompt
      <3>2. ASSUME NEW c \in Arrivals, arrival[c].step = "read"
            PROVE  c \in InFlight
        BY <3>2 DEF InFlight
      <3>3. ASSUME NEW c \in Arrivals, arrival[c].step = "read"
            PROVE  ~(arrival[c].now >= since')
        BY <1>0, <1>2, <2>2, <3>1, <3>2, <3>3
      <3> QED
        BY <1>0, <2>2, <3>1, <3>3 DEF AloneInv
    <2> QED
      BY <1>0, <2>1, <2>2 DEF Tick
  <1> QED
    BY <1>1, <1>3, <1>4, <1>5, <1>6 DEF RateInv

LEMMA ArriveKeeps == ASSUME NEW c \in Arrivals, RateInv, Arrive(c) PROVE RateInv'
  <1> USE RateConstants
  <1> DEFINE new == [step |-> "timed", now |-> clock]
  <1>0. /\ arrival' = [arrival EXCEPT ![c] = new]
        /\ UNCHANGED <<clock, bucket, admitted, since>>
        /\ rateOverlaps' = (rateOverlaps \/ InFlight # {})
        /\ clock \in Nat /\ clock <= MaxClock /\ since \in Nat /\ since <= clock
        /\ DOMAIN arrival = Arrivals
    BY RateTypes DEF Arrive, Goes, RateInv, ArrivalType
  <1>1. /\ InFlight' = InFlight \cup {c}
        /\ \A d \in Arrivals : d # c => arrival'[d] = arrival[d]
        /\ arrival'[c] = new
    BY <1>0 DEF InFlight, Outside
  <1>2. RateLimiterTypeOK'
    <2>1. new \in [step : {"timed"}, now : 0..MaxClock]
      BY <1>0
    <2>2. ArrivalType'
      BY <1>0, <2>1, RateTypes DEF RateInv, ArrivalType
    <2> QED
      BY <1>0, <2>2 DEF RateInv, RateLimiterTypeOK, ArrivalType
  <1>3. Prompt' /\ BucketInv' /\ ReadInv'
    BY <1>0, <1>1 DEF RateInv, Prompt, BucketInv, Uncapped, ReadInv, InFlight
  <1>4. AloneInv'
    <2> SUFFICES ASSUME ~rateOverlaps, InFlight = {}
                 PROVE  AloneInv'
      BY <1>0 DEF AloneInv
    <2>1. InFlight' = {c} /\ arrival'[c].now >= since
      BY <1>0, <1>1
    <2>2. \A d \in Arrivals : arrival'[d].step # "read"
      BY <1>1 DEF InFlight
    <2> QED
      BY <1>0, <2>1, <2>2 DEF RateInv, AloneInv
  <1> QED
    BY <1>2, <1>3, <1>4 DEF RateInv

\* A bucket that is full when it expires is full some time before already.
LEMMA BucketFacts ==
  ASSUME RateInv
  PROVE  /\ Uncapped(bucket, clock) \in Int /\ Uncapped(bucket, clock) >= 0
         /\ \A now \in Nat : now <= clock /\ clock <= now + MaxDelay /\ Expired
              => Uncapped(bucket, now) >= Capacity
  <1> USE RateConstants
  <1> DEFINE w == bucket.written
  <1>0. /\ clock \in Nat /\ bucket.parts \in Int /\ bucket.at \in Nat /\ w \in Int
    BY RateTypes DEF RateInv
  <1>1. \A t \in Int : Uncapped(bucket, t) \in Int
    BY <1>0 DEF Uncapped
  <1>2. CASE w < 0
    <2>1. bucket.at = 0 /\ bucket.parts = Capacity
      BY <1>2 DEF RateInv, BucketInv
    <2>2. ASSUME NEW t \in Nat
          PROVE  Uncapped(bucket, t) >= Capacity
      <3>1. 0 * Rate <= t * Rate
        BY TimesMonotone
      <3>2. 0 * Rate = 0 /\ t * Rate \in Int /\ t - 0 = t
        OBVIOUS
      <3>3. Uncapped(bucket, t) = Capacity + t * Rate
        BY <2>1, <3>2 DEF Uncapped
      <3> QED
        BY <3>1, <3>2, <3>3
    <2> QED
      BY <1>0, <1>1, <2>2
  <1>3. CASE w >= 0
    <2>1. Uncapped(bucket, w) >= 0 /\ w <= clock
      BY <1>3 DEF RateInv, BucketInv
    <2>2. ASSUME NEW t \in Int, w <= t
          PROVE  /\ Uncapped(bucket, t) = Uncapped(bucket, w) + (t - w) * Rate
                 /\ Uncapped(bucket, t) >= Uncapped(bucket, w)
      BY <1>0, <2>2, UncappedLater DEF Uncapped
    <2>3. Uncapped(bucket, clock) >= 0
      BY <1>0, <1>1, <2>1, <2>2
    <2>4. ASSUME NEW now \in Nat, clock <= now + MaxDelay, Expired
          PROVE  Uncapped(bucket, now) >= Capacity
      <3>1. Ttl - MaxDelay <= now - w
        BY <1>0, <2>4 DEF Expired
      <3>2. (Ttl - MaxDelay) * Rate <= (now - w) * Rate
        BY <1>0, <3>1, TimesMonotone, Ttl - MaxDelay \in Int, now - w \in Int
      <3>3. (Ttl - MaxDelay) * Rate >= Capacity
        BY RateLimiterAssumption
      <3>4. CASE w <= now
        <4> DEFINE x == (Ttl - MaxDelay) * Rate
                   y == (now - w) * Rate
        <4>1. x \in Int /\ y \in Int
          BY <1>0
        <4>2. Uncapped(bucket, now) = Uncapped(bucket, w) + y
          BY <1>0, <2>2, <3>4
        <4>3. x <= y /\ x >= Capacity
          BY <3>2, <3>3
        <4> HIDE DEF x, y
        <4> QED
          BY <1>0, <1>1, <2>1, <4>1, <4>2, <4>3
      <3>5. CASE now < w
        <4> DEFINE y == (now - w) * Rate
        <4>1. y <= 0 * Rate /\ 0 * Rate = 0
          BY <1>0, <3>5, TimesMonotone, now - w \in Int
        <4>2. Uncapped(bucket, w) = Uncapped(bucket, now) + (w - now) * Rate
          BY <1>0, <3>5, UncappedLater DEF Uncapped
        <4>3. (w - now) * Rate = 0 - y /\ y \in Int
          BY <1>0
        <4>4. y >= Capacity
          <5> DEFINE x == (Ttl - MaxDelay) * Rate
          <5>1. x \in Int /\ x <= y /\ x >= Capacity
            BY <3>2, <3>3
          <5> HIDE DEF x, y
          <5> QED
            BY <4>3, <5>1
        <4> HIDE DEF y
        <4> QED
          BY <1>0, <1>1, <2>1, <4>1, <4>2, <4>3, <4>4
      <3> QED
        BY <1>0, <3>4, <3>5
    <2> QED
      BY <1>0, <1>1, <2>3, <2>4
  <1> QED
    BY <1>0, <1>2, <1>3

LEMMA WithinLater ==
  ASSUME NEW m \in Int, NEW p \in Int, NEW q \in Int, NEW k \in Nat, NEW n \in Int,
         NEW a \in Int, NEW s \in Int, NEW t \in Int,
         m + p <= n + (a - s) * k, q <= p + (t - a) * k
  PROVE  m + q <= n + (t - s) * k
  <1>1. (t - s) * k = (a - s) * k + (t - a) * k
    OBVIOUS
  <1> DEFINE x == (a - s) * k
             y == (t - a) * k
             z == (t - s) * k
  <1>2. z = x + y /\ m + p <= n + x /\ q <= p + y /\ x \in Int /\ y \in Int
    BY <1>1
  <1> HIDE DEF x, y, z
  <1>3. m + q <= n + z
    BY <1>2
  <1> QED
    BY <1>3 DEF z

\* What a request reads: no more than a bucket holds, uncapped, nor less than nothing.
LEMMA ReadFacts ==
  ASSUME RateInv, NEW c \in Arrivals, arrival[c].step = "timed"
  PROVE  LET now == arrival[c].now
             parts == IF Expired THEN Capacity ELSE Refilled(bucket, now)
         IN  /\ parts \in Int /\ parts <= Capacity
             /\ parts <= Uncapped(bucket, now)
             /\ parts + (clock - now) * Rate >= 0
  <1> USE RateConstants
  <1> DEFINE now == arrival[c].now
             parts == IF Expired THEN Capacity ELSE Refilled(bucket, now)
  <1>0. /\ clock \in Nat /\ bucket.parts \in Int /\ bucket.at \in Nat
        /\ now \in Nat /\ now <= clock /\ clock <= now + MaxDelay
    BY RateTypes DEF RateInv, Prompt, InFlight
  <1>1. /\ Uncapped(bucket, now) \in Int
        /\ Uncapped(bucket, clock) = Uncapped(bucket, now) + (clock - now) * Rate
    BY <1>0, UncappedLater DEF Uncapped
  <1>2. (clock - now) * Rate \in Int /\ (clock - now) * Rate >= 0
    BY <1>0, TimesMonotone, clock - now \in Int, 0 <= clock - now, 0 * Rate = 0
  <1>3. /\ Uncapped(bucket, clock) >= 0
        /\ Expired => Uncapped(bucket, now) >= Capacity
    BY <1>0, BucketFacts
  <1>4. \/ parts = Capacity /\ Uncapped(bucket, now) >= Capacity
        \/ parts = Uncapped(bucket, now) /\ Uncapped(bucket, now) <= Capacity
    BY <1>1, <1>3 DEF Refilled, AtMost, Uncapped
  <1> DEFINE d == (clock - now) * Rate
  <1>5. d \in Int /\ d >= 0 /\ Uncapped(bucket, now) + d >= 0
    BY <1>1, <1>2, <1>3
  <1> HIDE DEF d, parts
  <1>6. parts \in Int /\ parts <= Capacity /\ parts <= Uncapped(bucket, now) /\ parts + d >= 0
    BY <1>1, <1>4, <1>5
  <1> QED
    BY <1>6 DEF d, parts

LEMMA ReadKeeps == ASSUME NEW c \in Arrivals, RateInv, ReadBucket(c) PROVE RateInv'
  <1> USE RateConstants
  <1> DEFINE now == arrival[c].now
             parts == IF Expired THEN Capacity ELSE Refilled(bucket, now)
             new == [step |-> "read", now |-> now, parts |-> parts]
  <1>0. /\ arrival' = [arrival EXCEPT ![c] = new]
        /\ arrival[c].step = "timed"
        /\ UNCHANGED <<clock, bucket, admitted, since, rateOverlaps>>
    BY DEF ReadBucket, Goes
  <1>1. /\ parts \in Int /\ parts <= Capacity /\ parts <= Uncapped(bucket, now)
        /\ parts + (clock - now) * Rate >= 0
    BY <1>0, ReadFacts
  <1>2. /\ c \in InFlight /\ now \in Nat /\ now <= clock /\ DOMAIN arrival = Arrivals
        /\ clock \in Nat /\ clock <= MaxClock
    BY <1>0, RateTypes DEF RateInv, Prompt, InFlight, ArrivalType
  <1> HIDE DEF parts
  <1>3. /\ \A d \in Arrivals : d # c => arrival'[d] = arrival[d]
        /\ arrival'[c] = new /\ InFlight' = InFlight
        /\ \A d \in InFlight : arrival'[d].now = arrival[d].now
    BY <1>0, <1>2 DEF InFlight
  <1>4. RateLimiterTypeOK'
    <2>1. new \in [step : {"read"}, now : 0..MaxClock, parts : Int]
      BY <1>1, <1>2
    <2>2. ArrivalType'
      BY <1>0, <2>1, RateTypes DEF RateInv, ArrivalType
    <2> QED
      BY <1>0, <2>2 DEF RateInv, RateLimiterTypeOK, ArrivalType
  <1>5. Prompt' /\ BucketInv'
    BY <1>0, <1>3 DEF RateInv, Prompt, BucketInv, Uncapped
  <1>6. ReadInv'
    <2> SUFFICES ASSUME NEW d \in Arrivals, arrival'[d].step = "read"
                 PROVE  /\ arrival'[d].parts <= Capacity
                        /\ arrival'[d].parts + (clock' - arrival'[d].now) * Rate >= 0
      BY DEF ReadInv
    <2>1. CASE d = c
      <3>1. arrival'[d].parts = parts /\ arrival'[d].now = now /\ clock' = clock
        BY <1>0, <1>3, <2>1
      <3> QED
        BY <1>1, <3>1, Zenon
    <2>2. CASE d # c
      <3>1. arrival'[d] = arrival[d] /\ clock' = clock
        BY <1>0, <1>3, <2>2
      <3>2. /\ arrival[d].parts <= Capacity
            /\ arrival[d].parts + (clock - arrival[d].now) * Rate >= 0
        BY <3>1 DEF RateInv, ReadInv
      <3> QED
        BY <3>1, <3>2, Zenon
    <2> QED
      BY <2>1, <2>2
  <1>7. AloneInv'
    <2> SUFFICES ASSUME ~rateOverlaps
                 PROVE  AloneInv'
      BY <1>0 DEF AloneInv
    <2>1. ASSUME now >= since
          PROVE  admitted * Unit + parts <= Capacity + (now - since) * Rate
      <3>0. /\ admitted \in Nat /\ since \in Nat /\ bucket.parts \in Int /\ bucket.at \in Nat
        BY RateTypes DEF RateInv
      <3>1. CASE admitted = 0
        <4>1. (now - since) * Rate >= 0 /\ (now - since) * Rate \in Int
          BY <1>2, <2>1, <3>0, TimesMonotone, now - since \in Int, 0 <= now - since, 0 * Rate = 0
        <4>2. admitted * Unit = 0
          BY <3>1
        <4> DEFINE x == (now - since) * Rate
                   m == admitted * Unit
        <4>3. m = 0 /\ x >= 0 /\ x \in Int
          BY <4>1, <4>2
        <4> HIDE DEF x, m
        <4>4. m + parts <= Capacity + x
          BY <1>1, <4>3
        <4> QED
          BY <4>4 DEF x, m
      <3>2. CASE admitted > 0
        <4>1. admitted * Unit + bucket.parts <= Capacity + (bucket.at - since) * Rate
          BY <3>2 DEF RateInv, AloneInv
        <4>2. parts <= bucket.parts + (now - bucket.at) * Rate
          BY <1>1 DEF Uncapped
        <4>3. admitted * Unit \in Int
          BY <3>0
        <4> QED
          BY <1>1, <1>2, <3>0, <4>1, <4>2, <4>3, WithinLater
      <3> QED
        BY <3>0, <3>1, <3>2
    <2>2. ASSUME NEW d \in Arrivals, arrival'[d].step = "read", arrival'[d].now >= since
          PROVE  admitted * Unit + arrival'[d].parts
                   <= Capacity + (arrival'[d].now - since) * Rate
      <3>1. CASE d = c
        <4>1. arrival'[d].parts = parts /\ arrival'[d].now = now
          BY <1>3, <3>1
        <4>2. now >= since
          BY <2>2, <4>1
        <4> QED
          BY <2>1, <4>1, <4>2, Zenon
      <3>2. CASE d # c
        <4>1. arrival'[d] = arrival[d]
          BY <1>3, <3>2
        <4>2. arrival[d].step = "read" /\ arrival[d].now >= since
          BY <2>2, <4>1
        <4>3. admitted * Unit + arrival[d].parts <= Capacity + (arrival[d].now - since) * Rate
          BY <4>2 DEF RateInv, AloneInv
        <4> QED
          BY <4>1, <4>3, Zenon
      <3> QED
        BY <3>1, <3>2
    <2>3. /\ \A d \in InFlight : arrival'[d].now < since => admitted = 0
          /\ \A d, e \in InFlight : d # e => arrival'[d].now < since
      BY <1>3 DEF RateInv, AloneInv
    <2>4. admitted > 0 => /\ bucket.at >= since
                          /\ admitted * Unit + bucket.parts
                               <= Capacity + (bucket.at - since) * Rate
      BY DEF RateInv, AloneInv
    <2> QED
      BY <1>0, <1>3, <2>2, <2>3, <2>4, Zenon DEF AloneInv
  <1> QED
    BY <1>4, <1>5, <1>6, <1>7 DEF RateInv

\* A request that is over is gone, and others are as they were.
LEMMA OverFacts ==
  ASSUME NEW c \in Arrivals, RateInv, arrival[c] # Outside, Goes(c, Outside)
  PROVE  /\ c \in InFlight
         /\ InFlight' = InFlight \ {c}
         /\ \A d \in Arrivals : d # c => arrival'[d] = arrival[d]
         /\ arrival'[c].step = "outside"
         /\ ArrivalType'
  <1>1. ArrivalType
    BY RateTypes DEF RateInv
  <1>2. arrival' = [arrival EXCEPT ![c] = Outside] /\ DOMAIN arrival = Arrivals
    BY <1>1 DEF Goes, ArrivalType
  <1>3. c \in InFlight
    BY <1>1 DEF InFlight, ArrivalType, Outside
  <1>4. /\ InFlight' = InFlight \ {c}
        /\ \A d \in Arrivals : d # c => arrival'[d] = arrival[d]
        /\ arrival'[c].step = "outside"
    BY <1>2 DEF InFlight, Outside
  <1>5. ArrivalType'
    BY <1>1, <1>2 DEF ArrivalType
  <1> QED
    BY <1>3, <1>4, <1>5

LEMMA WriteKeeps == ASSUME NEW c \in Arrivals, RateInv, WriteBucket(c) PROVE RateInv'
  <1> USE RateConstants
  <1> DEFINE now == arrival[c].now
             parts == arrival[c].parts
             left == parts - (IF parts >= Unit THEN Unit ELSE 0)
  <1>0. /\ arrival[c].step = "read" /\ Goes(c, Outside)
        /\ bucket' = [parts |-> left, at |-> now, written |-> clock]
        /\ admitted' = IF parts >= Unit /\ now >= since THEN admitted + 1 ELSE admitted
        /\ UNCHANGED <<clock, since, rateOverlaps>>
    BY DEF WriteBucket
  <1>1. /\ parts \in Int /\ now \in Nat /\ now <= clock /\ now <= MaxClock
        /\ clock \in Nat /\ clock <= MaxClock /\ admitted \in Nat /\ since \in Nat
        /\ arrival[c] # Outside
    BY <1>0, RateTypes DEF RateInv, Prompt, Outside
  <1>2. /\ c \in InFlight /\ InFlight' = InFlight \ {c}
        /\ \A d \in Arrivals : d # c => arrival'[d] = arrival[d]
        /\ arrival'[c].step = "outside" /\ ArrivalType'
    BY <1>0, <1>1, OverFacts
  <1>3. parts <= Capacity /\ parts + (clock - now) * Rate >= 0
    BY <1>0 DEF RateInv, ReadInv
  <1>4. left \in Int /\ left <= parts /\ (left = parts \/ left >= 0)
    BY <1>1
  <1>5. RateLimiterTypeOK'
    <2>1. 0 - Ttl <= clock
      BY <1>1
    <2>2. clock \in (0 - Ttl)..MaxClock /\ now \in 0..MaxClock
      BY <1>1, <2>1
    <2>3. bucket'.parts <= Capacity /\ BucketType'
      BY <1>0, <1>1, <1>3, <1>4, <2>2 DEF BucketType
    <2>4. clock' \in 0..MaxClock /\ admitted' \in Nat /\ since' \in 0..clock'
      BY <1>0, <1>1, RateTypes DEF RateInv
    <2>5. rateOverlaps' \in BOOLEAN
      BY <1>0, RateTypes DEF RateInv
    <2> QED
      BY <1>2, <2>3, <2>4, <2>5 DEF RateLimiterTypeOK, BucketType, ArrivalType
  <1>6. Prompt'
    BY <1>0, <1>2 DEF RateInv, Prompt, InFlight
  <1>7. BucketInv'
    <2>1. left + (clock - now) * Rate >= 0
      <3>1. (clock - now) * Rate \in Int /\ (clock - now) * Rate >= 0
        BY <1>1, TimesMonotone, clock - now \in Int, 0 <= clock - now, 0 * Rate = 0
      <3> DEFINE x == (clock - now) * Rate
      <3>2. x \in Int /\ x >= 0 /\ parts + x >= 0
        BY <1>3, <3>1
      <3> HIDE DEF x, parts, left
      <3>3. left + x >= 0
        BY <1>1, <1>4, <3>2
      <3> QED
        BY <3>3 DEF x
    <2>2. Uncapped(bucket, bucket.written)' >= 0
      BY <1>0, <2>1, Zenon DEF Uncapped
    <2>3. bucket'.at <= clock' /\ bucket'.written <= clock' /\ bucket'.written >= 0
      BY <1>0, <1>1
    <2>4. bucket'.written \in Int
      BY <1>0, <1>1
    <2> QED
      BY <2>2, <2>3, <2>4 DEF BucketInv
  <1>8. ReadInv'
    <2> SUFFICES ASSUME NEW d \in Arrivals, arrival'[d].step = "read"
                 PROVE  /\ arrival'[d].parts <= Capacity
                        /\ arrival'[d].parts + (clock' - arrival'[d].now) * Rate >= 0
      BY DEF ReadInv
    <2>1. arrival'[d] = arrival[d] /\ clock' = clock
      BY <1>0, <1>2
    <2>2. /\ arrival[d].parts <= Capacity
          /\ arrival[d].parts + (clock - arrival[d].now) * Rate >= 0
      BY <2>1 DEF RateInv, ReadInv
    <2> QED
      BY <2>1, <2>2, Zenon
  <1>9. AloneInv'
    <2> SUFFICES ASSUME ~rateOverlaps
                 PROVE  AloneInv'
      BY <1>0 DEF AloneInv
    <2>1. /\ \A d, e \in InFlight : d # e => arrival[d].now < since
          /\ \A d \in InFlight : arrival[d].now < since => admitted = 0
      BY DEF RateInv, AloneInv
    <2>2. ASSUME NEW d \in Arrivals, d \in InFlight'
          PROVE  d # c /\ arrival'[d].now < since /\ now < since /\ admitted' = 0
      BY <1>0, <1>1, <1>2, <2>1, <2>2
    <2>3. ASSUME NEW d \in Arrivals, arrival'[d].step = "read"
          PROVE  ~(arrival'[d].now >= since)
      <3>1. d \in InFlight' /\ d \in InFlight /\ arrival'[d] = arrival[d]
        BY <1>2, <2>3 DEF InFlight
      <3>2. arrival[d].now \in Nat
        BY <3>1, RateTypes DEF RateInv
      <3> QED
        BY <1>1, <2>2, <3>1, <3>2
    <2>4. ASSUME admitted' > 0
          PROVE  /\ now >= since
                 /\ admitted' * Unit + left <= Capacity + (now - since) * Rate
      <3>1. now >= since
        BY <1>0, <1>1, <1>2, <2>1, <2>4
      <3>2. admitted * Unit + parts <= Capacity + (now - since) * Rate
        BY <1>0, <3>1 DEF RateInv, AloneInv
      <3>3. CASE parts >= Unit
        <4>1. admitted' * Unit + left = admitted * Unit + parts
          <5>1. admitted' = admitted + 1 /\ left = parts - Unit
            BY <1>0, <3>1, <3>3
          <5>2. (admitted + 1) * Unit = admitted * Unit + Unit
            BY <1>1
          <5> DEFINE m == admitted * Unit
          <5>3. m \in Int
            BY <1>1
          <5> HIDE DEF m, parts, left
          <5>4. m + Unit + (parts - Unit) = m + parts
            BY <1>1, <5>3
          <5> QED
            BY <5>1, <5>2, <5>4 DEF m
        <4> QED
          BY <3>1, <3>2, <4>1, Zenon
      <3>4. CASE ~(parts >= Unit)
        <4>1. admitted' = admitted /\ left = parts
          BY <1>0, <1>1, <3>4
        <4> QED
          BY <3>1, <3>2, <4>1, Zenon
      <3> QED
        BY <3>3, <3>4
    <2>5. admitted' > 0 => /\ bucket'.at >= since
                           /\ admitted' * Unit + bucket'.parts
                                <= Capacity + (bucket'.at - since) * Rate
      BY <1>0, <2>4
    <2>6. /\ \A d \in InFlight' : arrival'[d].now < since => admitted' = 0
          /\ \A d, e \in InFlight' : d # e => arrival'[d].now < since
      BY <2>2 DEF InFlight
    <2>7. since' = since
      BY <1>0
    <2> QED
      BY <2>3, <2>5, <2>6, <2>7, Zenon DEF AloneInv
  <1> QED
    BY <1>5, <1>6, <1>7, <1>8, <1>9 DEF RateInv

LEMMA FailsKeeps == ASSUME NEW c \in Arrivals, RateInv, RedisFails(c) PROVE RateInv'
  <1>0. /\ arrival[c] # Outside /\ Goes(c, Outside)
        /\ UNCHANGED <<clock, bucket, admitted, since, rateOverlaps>>
    BY DEF RedisFails
  <1>1. /\ InFlight' = InFlight \ {c}
        /\ \A d \in Arrivals : d # c => arrival'[d] = arrival[d]
        /\ arrival'[c].step = "outside" /\ ArrivalType'
    BY <1>0, OverFacts
  <1>2. RateLimiterTypeOK'
    BY <1>0, <1>1 DEF RateInv, RateLimiterTypeOK, ArrivalType
  <1>3. Prompt'
    BY <1>0, <1>1 DEF RateInv, Prompt, InFlight
  <1>4. BucketInv'
    BY <1>0 DEF RateInv, BucketInv, Uncapped
  <1>5. ReadInv'
    <2> SUFFICES ASSUME NEW d \in Arrivals, arrival'[d].step = "read"
                 PROVE  /\ arrival'[d].parts <= Capacity
                        /\ arrival'[d].parts + (clock' - arrival'[d].now) * Rate >= 0
      BY DEF ReadInv
    <2>1. arrival'[d] = arrival[d] /\ clock' = clock
      BY <1>0, <1>1
    <2>2. /\ arrival[d].parts <= Capacity
          /\ arrival[d].parts + (clock - arrival[d].now) * Rate >= 0
      BY <2>1 DEF RateInv, ReadInv
    <2> QED
      BY <2>1, <2>2, Zenon
  <1>6. AloneInv'
    <2> SUFFICES ASSUME ~rateOverlaps
                 PROVE  AloneInv'
      BY <1>0 DEF AloneInv
    <2>1. /\ \A d \in InFlight' : d \in InFlight /\ arrival'[d] = arrival[d]
          /\ \A d \in Arrivals : arrival'[d].step = "read" => arrival'[d] = arrival[d]
      BY <1>1 DEF InFlight
    <2>2. /\ \A d \in InFlight : arrival[d].now < since => admitted = 0
          /\ \A d, e \in InFlight : d # e => arrival[d].now < since
      BY DEF RateInv, AloneInv
    <2>3. \A d \in Arrivals :
            arrival'[d].step = "read" /\ arrival'[d].now >= since =>
              admitted * Unit + arrival'[d].parts
                <= Capacity + (arrival'[d].now - since) * Rate
      BY <2>1, Zenon DEF RateInv, AloneInv
    <2>4. admitted > 0 => /\ bucket.at >= since
                          /\ admitted * Unit + bucket.parts
                               <= Capacity + (bucket.at - since) * Rate
      BY DEF RateInv, AloneInv
    <2> QED
      BY <1>0, <2>1, <2>2, <2>3, <2>4, Zenon DEF AloneInv
  <1> QED
    BY <1>2, <1>3, <1>4, <1>5, <1>6 DEF RateInv

LEMMA RateNext == RateInv /\ [RateLimiterNext]_rateVars => RateInv'
  <1> SUFFICES ASSUME RateInv, [RateLimiterNext]_rateVars PROVE RateInv'
    OBVIOUS
  <1>1. CASE UNCHANGED rateVars
    BY <1>1 DEF rateVars, RateInv, RateLimiterTypeOK, Prompt, BucketInv, ReadInv, AloneInv,
                InFlight, Uncapped
  <1>2. CASE RateLimiterNext
    BY <1>2, TickKeeps, ArriveKeeps, ReadKeeps, WriteKeeps, FailsKeeps DEF RateLimiterNext
  <1> QED
    BY <1>1, <1>2

\* What is let through is what the bucket has lost.
LEMMA RateHolds == RateInv => AdmittedWithinRate
  <1> SUFFICES ASSUME RateInv, ~rateOverlaps
               PROVE  admitted * Unit <= Capacity + (clock - since) * Rate
    BY DEF AdmittedWithinRate
  <1> USE RateConstants
  <1>0. /\ clock \in Nat /\ since \in Nat /\ since <= clock /\ admitted \in Nat
        /\ bucket.parts \in Int /\ bucket.at \in Nat
    BY RateTypes DEF RateInv
  <1>1. CASE admitted = 0
    <2>1. (clock - since) * Rate >= 0 /\ (clock - since) * Rate \in Int
      BY <1>0, TimesMonotone, clock - since \in Int, 0 <= clock - since, 0 * Rate = 0
    <2> DEFINE x == (clock - since) * Rate
    <2>2. x \in Int /\ x >= 0 /\ admitted * Unit = 0
      BY <1>1, <2>1
    <2> HIDE DEF x
    <2>3. admitted * Unit <= Capacity + x
      BY <2>2
    <2> QED
      BY <2>3 DEF x
  <1>2. CASE admitted > 0
    <2>1. admitted * Unit + bucket.parts <= Capacity + (bucket.at - since) * Rate
      BY <1>2 DEF RateInv, AloneInv
    <2>2. Uncapped(bucket, clock) \in Int /\ Uncapped(bucket, clock) >= 0
      BY BucketFacts
    <2>3. admitted * Unit \in Int
      BY <1>0
    <2> DEFINE u == bucket.parts + (clock - bucket.at) * Rate
               m == admitted * Unit
               x == (clock - since) * Rate
    <2>4. m + u <= Capacity + x
      BY <1>0, <2>1, <2>2, <2>3, WithinLater DEF Uncapped
    <2>5. u \in Int /\ u >= 0 /\ m \in Int /\ x \in Int
      BY <1>0, <2>2, <2>3 DEF Uncapped
    <2> HIDE DEF u, m, x
    <2>6. m <= Capacity + x
      BY <2>4, <2>5
    <2> QED
      BY <2>6 DEF m, x
  <1> QED
    BY <1>0, <1>1, <1>2
-----------------------------------------------------------------------------
(* The few-shot pool.                                                       *)

Counting == {r \in Raters : store[r].step = "counted"}

\* What the stores that have counted are going to remove, example by example.
Removals == {p \in Raters \X Nat : p[1] \in Counting /\ p[2] \in 1..store[p[1]].excess}

StoreType ==
    store \in [Raters -> {NotStoring}
                    \cup [step : {"added", "renewed"}] \cup [step : {"counted"}, excess : Nat]]

\* A store that runs alone knows the pool.
StoreInv ==
    /\ \A r \in poolAlone :
         /\ Storing \subseteq {r}
         /\ r \in Storing /\ store[r].step # "added" => ~lasting
         /\ store[r].step = "counted" => pool <= Cap + store[r].excess
    /\ \A r \in Counting : store[r].excess >= 1 /\ store[r].excess <= mostExcess
    /\ ~poolOverlaps => \A r, s \in Storing : r = s

Again == IF poolOverlaps THEN Cardinality(Raters) - 1 ELSE 0

\* What is left when everything was removed that was counted.
OwedInv ==
    poolTrimmed \/ Counting # {} =>
        pool + Again * mostExcess >= Cap + Cardinality(Removals)

NoMore == ~poolFailed => pool <= Cap + Cardinality(Storing)
Expires == lasting => poolFailed \/ \E r \in Storing : store[r].step = "added"

PoolInv == FewShotPoolTypeOK /\ StoreInv /\ OwedInv /\ NoMore /\ Expires

LEMMA PoolFinite ==
  /\ IsFiniteSet(Raters) /\ Cardinality(Raters) \in Nat
  /\ \A S \in SUBSET Raters : IsFiniteSet(S) /\ Cardinality(S) \in Nat
  BY FewShotPoolAssumption, FS_Subset, FS_CardinalityType

LEMMA NotStoringStep == NotStoring.step = "not storing"
  BY DEF NotStoring

LEMMA StoreFields ==
  ASSUME FewShotPoolTypeOK
  PROVE  /\ \A r \in Storing : store[r].step \in {"added", "renewed", "counted"}
         /\ \A r \in Counting : store[r].excess \in Nat /\ r \in Storing
         /\ pool \in Nat /\ mostExcess \in Nat /\ Cap \in Nat
         /\ StoreType /\ DOMAIN store = Raters
  <1>1. StoreType /\ DOMAIN store = Raters
    BY DEF FewShotPoolTypeOK, StoreType
  <1>2. ASSUME NEW r \in Raters
        PROVE  /\ r \in Storing => store[r].step \in {"added", "renewed", "counted"}
               /\ r \in Counting => store[r].excess \in Nat /\ r \in Storing
    <2>1. CASE store[r] = NotStoring
      <3>1. store[r].step = "not storing"
        BY <2>1, NotStoringStep
      <3> QED
        BY <3>1 DEF Storing, Counting
    <2>2. CASE store[r] \in [step : {"added", "renewed"}]
      BY <2>2 DEF Storing, Counting
    <2>3. CASE store[r] \in [step : {"counted"}, excess : Nat]
      BY <2>3 DEF Storing, Counting
    <2> QED
      BY <1>1, <2>1, <2>2, <2>3 DEF StoreType
  <1>3. pool \in Nat /\ mostExcess \in Nat /\ Cap \in Nat
    BY FewShotPoolAssumption DEF FewShotPoolTypeOK
  <1> QED
    BY <1>1, <1>2, <1>3 DEF Storing, Counting

\* The removals are finite in number, at most mostExcess for every store that counts.
LEMMA RemovalsBound ==
  ASSUME FewShotPoolTypeOK, StoreInv
  PROVE  /\ IsFiniteSet(Removals) /\ Cardinality(Removals) \in Nat
         /\ Cardinality(Removals) <= Cardinality(Counting) * mostExcess
  <1> DEFINE All == Counting \X (1..mostExcess)
  <1>1. IsFiniteSet(Counting) /\ mostExcess \in Nat
    BY PoolFinite, StoreFields DEF Counting
  <1>2. IsFiniteSet(1..mostExcess) /\ Cardinality(1..mostExcess) = mostExcess
    BY <1>1, FS_Interval
  <1>3. IsFiniteSet(All) /\ Cardinality(All) = Cardinality(Counting) * mostExcess
    BY <1>1, <1>2, FS_Product
  <1>4. Removals \subseteq All
    <2> SUFFICES ASSUME NEW p \in Removals
                 PROVE  p \in All
      OBVIOUS
    <2>1. /\ p \in Raters \X Nat /\ p[1] \in Counting /\ p[2] \in Nat
          /\ 1 <= p[2] /\ p[2] <= store[p[1]].excess
      BY DEF Removals
    <2>2. store[p[1]].excess \in Nat /\ store[p[1]].excess <= mostExcess
      BY <2>1, StoreFields DEF StoreInv
    <2> QED
      BY <1>1, <2>1, <2>2
  <1> QED
    BY <1>3, <1>4, FS_Subset, FS_CardinalityType

\* Those of one store are as many as it counted.
LEMMA RemovalsOf ==
  ASSUME NEW r, NEW n \in Nat
  PROVE  IsFiniteSet({r} \X (1..n)) /\ Cardinality({r} \X (1..n)) = n
  <1>1. IsFiniteSet({r}) /\ Cardinality({r}) = 1
    BY FS_Singleton
  <1>2. IsFiniteSet(1..n) /\ Cardinality(1..n) = n
    BY FS_Interval
  <1>3. Cardinality({r} \X (1..n)) = Cardinality({r}) * Cardinality(1..n)
        /\ IsFiniteSet({r} \X (1..n))
    BY <1>1, <1>2, FS_Product
  <1> QED
    BY <1>1, <1>2, <1>3

LEMMA PoolTimes ==
  ASSUME NEW x \in Int, NEW y \in Int, NEW k \in Nat, x <= y
  PROVE  x * k <= y * k
  <1>1. y - x \in Nat /\ \A a, b \in Nat : a * b \in Nat
    OBVIOUS
  <1>2. (y - x) * k >= 0
    BY <1>1
  <1>3. (y - x) * k = y * k - x * k
    OBVIOUS
  <1> QED
    BY <1>2, <1>3

LEMMA PoolInit == FewShotPoolInit => PoolInv
  <1> SUFFICES ASSUME FewShotPoolInit PROVE PoolInv
    OBVIOUS
  <1>1. Storing = {} /\ Counting = {}
    BY DEF FewShotPoolInit, Storing, Counting, NotStoring
  <1>2. FewShotPoolTypeOK
    <2>1. StoreType /\ poolAlone \subseteq Raters
      BY DEF FewShotPoolInit, StoreType
    <2>2. pool \in 0..MaxPool /\ mostExcess \in 0..MaxPool
      BY FewShotPoolAssumption DEF FewShotPoolInit
    <2>3. {lasting, poolTrimmed, poolFailed, poolOverlaps} \subseteq BOOLEAN
      BY DEF FewShotPoolInit
    <2> QED
      BY <2>1, <2>2, <2>3 DEF FewShotPoolTypeOK, StoreType
  <1>3. StoreInv /\ OwedInv /\ Expires
    BY <1>1 DEF FewShotPoolInit, StoreInv, OwedInv, Expires
  <1>4. NoMore
    BY <1>1, FS_EmptySet, FewShotPoolAssumption DEF FewShotPoolInit, NoMore
  <1> QED
    BY <1>2, <1>3, <1>4 DEF PoolInv

\* r has got to s, and the others stay.
StoreGoes(r, s) ==
    /\ store'[r] = s
    /\ \A q \in Raters : q # r => store'[q] = store[q]
    /\ Storing' = IF s.step = "not storing" THEN Storing \ {r} ELSE Storing \cup {r}
    /\ Counting' = IF s.step = "counted" THEN Counting \cup {r} ELSE Counting \ {r}
    /\ StoreType'

LEMMA StoreStep ==
  ASSUME FewShotPoolTypeOK, NEW r \in Raters, NEW s, GoesOn(r, s),
         s \in {NotStoring}
                 \cup [step : {"added", "renewed"}] \cup [step : {"counted"}, excess : Nat]
  PROVE  StoreGoes(r, s)
  <1>1. StoreType
    BY StoreFields
  <1>2. store' = [store EXCEPT ![r] = s]
    BY DEF GoesOn
  <1> QED
    BY <1>1, <1>2 DEF StoreType, StoreGoes, Storing, Counting

\* When no store counts anew there is nothing more to remove.
LEMMA RemovalsKeep ==
  ASSUME FewShotPoolTypeOK, StoreInv, Counting' \subseteq Counting,
         \A q \in Counting' : store'[q].excess = store[q].excess
  PROVE  /\ Removals' \subseteq Removals
         /\ Cardinality(Removals') \in Nat
         /\ Cardinality(Removals') <= Cardinality(Removals)
  <1>1. Removals' \subseteq Removals
    BY DEF Removals
  <1> QED
    BY <1>1, RemovalsBound, FS_Subset, FS_CardinalityType

\* What is left suffices when there is more, and less is owed.
LEMMA OwedStays ==
  ASSUME FewShotPoolTypeOK, StoreInv,
         pool + Again * mostExcess >= Cap + Cardinality(Removals),
         NEW p \in Nat, NEW again \in Int, NEW owed \in Nat, Again \in Int,
         pool <= p, Again <= again, owed <= Cardinality(Removals)
  PROVE  p + again * mostExcess >= Cap + owed
  <1>1. pool \in Nat /\ mostExcess \in Nat /\ Cap \in Nat /\ Cardinality(Removals) \in Nat
    BY StoreFields, RemovalsBound
  <1>2. Again * mostExcess <= again * mostExcess
    BY <1>1, PoolTimes
  <1> DEFINE x == Again * mostExcess
             y == again * mostExcess
  <1>3. x \in Int /\ y \in Int /\ x <= y /\ pool + x >= Cap + Cardinality(Removals)
    BY <1>1, <1>2
  <1> HIDE DEF x, y
  <1>4. p + y >= Cap + owed
    BY <1>1, <1>3
  <1> QED
    BY <1>4 DEF y

LEMMA AddKeeps == ASSUME NEW r \in Raters, PoolInv, AddExample(r) PROVE PoolInv'
  <1>0. FewShotPoolTypeOK /\ StoreInv /\ OwedInv /\ NoMore /\ Expires
    BY DEF PoolInv
  <1>1. /\ r \notin Storing /\ r \notin Counting
        /\ pool' \in Nat /\ pool <= pool' /\ pool' <= pool + 1 /\ pool' <= MaxPool
        /\ UNCHANGED <<poolTrimmed, mostExcess, poolFailed>>
    <2>1. store[r].step = "not storing"
      BY NotStoringStep DEF AddExample
    <2>2. r \notin Storing /\ r \notin Counting
      BY <2>1 DEF Storing, Counting
    <2>3. pool \in Nat
      BY <1>0, StoreFields
    <2>4. PICK more \in {0, 1} : pool + more <= MaxPool /\ pool' = pool + more
      BY DEF AddExample
    <2>5. pool' \in Nat /\ pool <= pool' /\ pool' <= pool + 1 /\ pool' <= MaxPool
      BY <2>3, <2>4
    <2>6. UNCHANGED <<poolTrimmed, mostExcess, poolFailed>>
      BY DEF AddExample
    <2> QED
      BY <2>2, <2>5, <2>6
  <1>a. /\ poolAlone' = (IF Storing = {} THEN {r} ELSE {})
        /\ poolOverlaps' <=> poolOverlaps \/ Storing # {}
    BY DEF AddExample
  <1>2. StoreGoes(r, [step |-> "added"])
    BY <1>0, StoreStep DEF AddExample
  <1>3. /\ Storing' = Storing \cup {r} /\ Counting' = Counting
        /\ store'[r].step = "added"
        /\ \A q \in Storing : store'[q] = store[q]
        /\ \A q \in Counting : store'[q] = store[q]
    <2>1. [step |-> "added"].step = "added"
      OBVIOUS
    <2>2. Storing' = Storing \cup {r} /\ Counting' = Counting \ {r} /\ store'[r].step = "added"
      BY <1>2, <2>1 DEF StoreGoes
    <2>3. \A q \in Raters : q # r => store'[q] = store[q]
      BY <1>2 DEF StoreGoes
    <2> QED
      BY <1>1, <2>2, <2>3 DEF Storing, Counting
  <1>5. FewShotPoolTypeOK'
    <2>1. pool' \in 0..MaxPool /\ mostExcess' \in 0..MaxPool
      BY <1>0, <1>1 DEF FewShotPoolTypeOK
    <2>2. {lasting', poolTrimmed', poolFailed', poolOverlaps'} \subseteq BOOLEAN
      BY <1>0, <1>1 DEF FewShotPoolTypeOK, AddExample
    <2> QED
      BY <1>2, <1>a, <2>1, <2>2 DEF FewShotPoolTypeOK, StoreType, StoreGoes
  <1>6. StoreInv'
    <2>1. \A q \in poolAlone' : q = r /\ Storing = {}
      BY <1>a
    <2>2. \A q \in poolAlone' :
            /\ Storing' \subseteq {q}
            /\ q \in Storing' /\ store'[q].step # "added" => ~lasting'
            /\ store'[q].step = "counted" => pool' <= Cap + store'[q].excess
      BY <1>3, <2>1
    <2>3. \A q \in Counting' : store'[q].excess >= 1 /\ store'[q].excess <= mostExcess'
      BY <1>0, <1>1, <1>3 DEF StoreInv
    <2>4. ~poolOverlaps' => \A p, q \in Storing' : p = q
      BY <1>a, <1>3
    <2> QED
      BY <2>2, <2>3, <2>4 DEF StoreInv
  <1>7. OwedInv'
    <2> SUFFICES ASSUME poolTrimmed \/ Counting # {}
                 PROVE  pool' + Again' * mostExcess >= Cap + Cardinality(Removals')
      BY <1>1, <1>3 DEF OwedInv
    <2>1. Cardinality(Removals') <= Cardinality(Removals) /\ Cardinality(Removals') \in Nat
      BY <1>0, <1>3, RemovalsKeep
    <2>2. Again \in Int /\ Again' \in Int /\ Again <= Again'
      <3>1. Cardinality(Raters) >= 1 /\ Cardinality(Raters) \in Nat
        BY PoolFinite, FS_EmptySet
      <3>2. CASE poolOverlaps
        BY <1>a, <3>1, <3>2 DEF Again
      <3>3. CASE ~poolOverlaps
        BY <3>1, <3>3 DEF Again
      <3> QED
        BY <3>2, <3>3
    <2> QED
      BY <1>0, <1>1, <2>1, <2>2, OwedStays DEF OwedInv
  <1>8. NoMore'
    <2>1. /\ Cardinality(Storing') = Cardinality(Storing) + 1
          /\ Cardinality(Storing) \in Nat
      BY <1>1, <1>3, PoolFinite, FS_AddElement DEF Storing
    <2> QED
      BY <1>0, <1>1, <2>1, StoreFields DEF NoMore
  <1>9. Expires'
    BY <1>3 DEF Expires
  <1> QED
    BY <1>5, <1>6, <1>7, <1>8, <1>9 DEF PoolInv

LEMMA RenewKeeps == ASSUME NEW r \in Raters, PoolInv, Renew(r) PROVE PoolInv'
  <1>0. FewShotPoolTypeOK /\ StoreInv /\ OwedInv /\ NoMore /\ Expires
    BY DEF PoolInv
  <1>1. /\ r \in Storing /\ r \notin Counting /\ lasting' = FALSE
        /\ UNCHANGED <<pool, poolHistory>>
    BY DEF Renew, Storing, Counting
  <1>2. StoreGoes(r, [step |-> "renewed"])
    BY <1>0, StoreStep DEF Renew
  <1>3. /\ Storing' = Storing /\ Counting' = Counting /\ store'[r].step = "renewed"
        /\ \A q \in Counting : store'[q] = store[q]
    BY <1>1, <1>2 DEF StoreGoes, Counting
  <1>4. FewShotPoolTypeOK'
    BY <1>0, <1>1, <1>2 DEF FewShotPoolTypeOK, StoreGoes, StoreType, poolHistory
  <1>5. StoreInv'
    <2>1. \A q \in poolAlone' :
            /\ Storing' \subseteq {q}
            /\ q \in Storing' /\ store'[q].step # "added" => ~lasting'
      BY <1>0, <1>1, <1>3 DEF StoreInv, poolHistory
    <2>2. \A q \in poolAlone' : store'[q].step = "counted" => pool' <= Cap + store'[q].excess
      <3> SUFFICES ASSUME NEW q \in poolAlone, store'[q].step = "counted"
                   PROVE  pool <= Cap + store'[q].excess
        BY <1>1 DEF poolHistory
      <3>1. q \in Raters /\ q \in Counting' /\ store'[q] = store[q]
        BY <1>0, <1>3 DEF FewShotPoolTypeOK, Counting
      <3> QED
        BY <1>0, <3>1 DEF StoreInv
    <2>3. \A q \in Counting' : store'[q].excess >= 1 /\ store'[q].excess <= mostExcess'
      BY <1>0, <1>1, <1>3 DEF StoreInv, poolHistory
    <2>4. ~poolOverlaps' => \A p, q \in Storing' : p = q
      BY <1>0, <1>1, <1>3 DEF StoreInv, poolHistory
    <2> QED
      BY <2>1, <2>2, <2>3, <2>4 DEF StoreInv
  <1>6. OwedInv'
    <2> SUFFICES ASSUME poolTrimmed \/ Counting # {}
                 PROVE  pool' + Again' * mostExcess' >= Cap + Cardinality(Removals')
      BY <1>1, <1>3 DEF OwedInv, poolHistory
    <2>1. Cardinality(Removals') <= Cardinality(Removals) /\ Cardinality(Removals') \in Nat
      BY <1>0, <1>3, RemovalsKeep
    <2>2. Again' = Again /\ Again \in Int /\ mostExcess' = mostExcess
      BY <1>1, PoolFinite DEF Again, poolHistory
    <2>3. pool + Again * mostExcess >= Cap + Cardinality(Removals) /\ pool \in Nat /\ pool' = pool
      BY <1>0, <1>1, StoreFields DEF OwedInv
    <2>4. pool + Again * mostExcess >= Cap + Cardinality(Removals')
      BY <1>0, <2>1, <2>2, <2>3, OwedStays
    <2> QED
      BY <2>2, <2>3, <2>4
  <1>7. NoMore' /\ Expires'
    BY <1>0, <1>1, <1>3 DEF NoMore, Expires, poolHistory
  <1> QED
    BY <1>4, <1>5, <1>6, <1>7 DEF PoolInv

LEMMA StoreLeaves ==
  ASSUME FewShotPoolTypeOK, StoreInv, NEW r \in Storing, GoesOn(r, NotStoring),
         UNCHANGED <<mostExcess, poolOverlaps, poolAlone>>
  PROVE  /\ Storing' = Storing \ {r} /\ Counting' = Counting \ {r}
         /\ \A q \in Raters : q # r => store'[q] = store[q]
         /\ StoreType' /\ StoreInv'
  <1>1. StoreGoes(r, NotStoring)
    BY StoreStep DEF Storing
  <1>2. Storing' = Storing \ {r} /\ Counting' = Counting \ {r} /\ StoreType'
    BY <1>1, NotStoringStep DEF StoreGoes
  <1>3. \A q \in Raters : q # r => store'[q] = store[q]
    BY <1>1 DEF StoreGoes
  <1>4. \A q \in poolAlone' : q = r /\ Storing' = {} /\ q \notin Counting' /\ q \in Raters
    BY <1>2 DEF StoreInv, FewShotPoolTypeOK
  <1>5. \A q \in poolAlone' :
          /\ Storing' \subseteq {q}
          /\ q \in Storing' /\ store'[q].step # "added" => ~lasting'
          /\ store'[q].step = "counted" => pool' <= Cap + store'[q].excess
    BY <1>4 DEF Counting
  <1>6. \A q \in Counting' : store'[q].excess >= 1 /\ store'[q].excess <= mostExcess'
    <2> SUFFICES ASSUME NEW q \in Counting'
                 PROVE  store'[q].excess >= 1 /\ store'[q].excess <= mostExcess'
      OBVIOUS
    <2>1. q \in Counting /\ store'[q] = store[q]
      BY <1>2, <1>3 DEF Counting
    <2> QED
      BY <2>1 DEF StoreInv
  <1>7. ~poolOverlaps' => \A p, q \in Storing' : p = q
    BY <1>2 DEF StoreInv
  <1> QED
    BY <1>2, <1>3, <1>5, <1>6, <1>7 DEF StoreInv

LEMMA FailKeeps == ASSUME NEW r \in Raters, PoolInv, StoreFails(r) PROVE PoolInv'
  <1>0. FewShotPoolTypeOK /\ StoreInv /\ OwedInv /\ NoMore /\ Expires
    BY DEF PoolInv
  <1>1. /\ r \in Storing /\ poolFailed' = TRUE /\ GoesOn(r, NotStoring)
        /\ UNCHANGED <<pool, lasting, poolTrimmed, mostExcess, poolOverlaps, poolAlone>>
    BY DEF StoreFails
  <1>2. /\ Counting' = Counting \ {r} /\ StoreType' /\ StoreInv'
        /\ \A q \in Raters : q # r => store'[q] = store[q]
    BY <1>0, <1>1, StoreLeaves
  <1>3. FewShotPoolTypeOK'
    BY <1>0, <1>1, <1>2 DEF FewShotPoolTypeOK, StoreType
  <1>4. OwedInv'
    <2> SUFFICES ASSUME poolTrimmed \/ Counting # {}
                 PROVE  pool + Again' * mostExcess >= Cap + Cardinality(Removals')
      BY <1>1, <1>2 DEF OwedInv
    <2>1. Cardinality(Removals') <= Cardinality(Removals) /\ Cardinality(Removals') \in Nat
      <3>1. \A q \in Counting' : store'[q].excess = store[q].excess
        BY <1>2 DEF Counting
      <3> QED
        BY <1>0, <1>2, <3>1, RemovalsKeep
    <2>2. Again' = Again /\ Again \in Int
      BY <1>1, PoolFinite DEF Again
    <2>3. pool + Again * mostExcess >= Cap + Cardinality(Removals) /\ pool \in Nat
      BY <1>0, StoreFields DEF OwedInv
    <2>4. pool + Again * mostExcess >= Cap + Cardinality(Removals')
      BY <1>0, <2>1, <2>2, <2>3, OwedStays
    <2> QED
      BY <2>2, <2>4
  <1> QED
    BY <1>1, <1>2, <1>3, <1>4 DEF PoolInv, NoMore, Expires

LEMMA ExpiryKeeps == ASSUME PoolInv, PoolExpires PROVE PoolInv'
  <1>0. FewShotPoolTypeOK /\ StoreInv /\ OwedInv /\ NoMore /\ Expires
    BY DEF PoolInv
  <1>1. /\ pool' = 0 /\ ~poolTrimmed' /\ mostExcess' = 0 /\ poolTrimmed' \in BOOLEAN
        /\ ~lasting /\ \A r \in Storing : store[r].step = "added"
        /\ UNCHANGED <<lasting, store, poolFailed, poolOverlaps, poolAlone>>
    BY DEF PoolExpires
  <1>2. Storing' = Storing /\ Counting' = {}
    BY <1>1 DEF Storing, Counting
  <1>3. FewShotPoolTypeOK'
    <2>1. pool' \in 0..MaxPool /\ mostExcess' \in 0..MaxPool
      BY <1>1, FewShotPoolAssumption
    <2> QED
      BY <1>0, <1>1, <2>1 DEF FewShotPoolTypeOK
  <1>4. StoreInv'
    <2>1. \A q \in poolAlone' : q \notin Counting' /\ q \in Raters
      BY <1>0, <1>1, <1>2 DEF FewShotPoolTypeOK
    <2> QED
      BY <1>0, <1>1, <1>2, <2>1 DEF StoreInv, Counting
  <1>5. NoMore'
    <2>1. Cardinality(Storing') \in Nat /\ Cap \in Nat
      BY <1>0, <1>2, PoolFinite, StoreFields DEF Storing
    <2> QED
      BY <1>1, <2>1 DEF NoMore
  <1> QED
    BY <1>1, <1>2, <1>3, <1>4, <1>5 DEF PoolInv, OwedInv, Expires

\* A store that is over leaves what it found when nothing lasts and nothing is over Cap.
LEMMA OverExpires ==
  ASSUME FewShotPoolTypeOK, StoreInv, Expires, NEW r \in Storing, Stored(r),
         store[r].step # "added", lasting' => lasting,
         \A q \in Raters : q # r => store'[q] = store[q]
  PROVE  Expires'
  <1> SUFFICES ASSUME lasting'
               PROVE  poolFailed' \/ \E q \in Storing' : store'[q].step = "added"
    BY DEF Expires
  <1>1. CASE poolFailed
    <2>1. r \notin poolAlone
      BY DEF StoreInv
    <2> QED
      BY <1>1, <2>1 DEF Stored
  <1>2. CASE \E q \in Storing : store[q].step = "added"
    <2>1. PICK q \in Storing : store[q].step = "added"
      BY <1>2
    <2>2. q \in Raters /\ store'[q] = store[q]
      BY <2>1 DEF Storing
    <2>3. q \in Storing'
      BY <2>1, <2>2 DEF Storing
    <2> QED
      BY <2>1, <2>2, <2>3
  <1> QED
    BY <1>1, <1>2 DEF Expires

LEMMA TrimKeeps == ASSUME NEW r \in Raters, PoolInv, Trim(r) PROVE PoolInv'
  <1>0. FewShotPoolTypeOK /\ StoreInv /\ OwedInv /\ NoMore /\ Expires
    BY DEF PoolInv
  <1> DEFINE e == store[r].excess
  <1>1. /\ store[r].step = "counted" /\ r \in Counting /\ r \in Storing
        /\ Stored(r) /\ GoesOn(r, NotStoring)
        /\ UNCHANGED <<mostExcess, poolOverlaps, poolAlone>>
    BY DEF Trim, Counting, Storing, Stored
  <1>2. /\ Storing' = Storing \ {r} /\ Counting' = Counting \ {r}
        /\ StoreType' /\ StoreInv'
        /\ \A q \in Raters : q # r => store'[q] = store[q]
    BY <1>0, <1>1, StoreLeaves
  <1>3. /\ e \in Nat /\ e >= 1 /\ pool \in Nat /\ mostExcess \in Nat /\ Cap \in Nat
        /\ r \in poolAlone => pool <= Cap + e
    BY <1>0, <1>1, StoreFields DEF StoreInv
  <1>4. pool' = IF pool > e THEN pool - e ELSE 0
    BY DEF Trim
  <1> HIDE DEF e
  <1>5. /\ pool' \in Nat /\ pool' <= pool /\ pool' >= pool - e
        /\ pool' > 0 => pool' = pool - e
    BY <1>3, <1>4
  <1>6. FewShotPoolTypeOK'
    <2>0. pool \in 0..MaxPool /\ mostExcess \in 0..MaxPool /\ MaxPool \in Nat
      BY <1>0, FewShotPoolAssumption DEF FewShotPoolTypeOK
    <2>1. pool' \in 0..MaxPool /\ mostExcess' \in 0..MaxPool
      BY <1>1, <1>5, <2>0
    <2>2. lasting' \in BOOLEAN /\ poolTrimmed' \in BOOLEAN
      BY DEF Trim
    <2>3. poolFailed' \in BOOLEAN /\ poolOverlaps' \in BOOLEAN
      BY <1>0, <1>1 DEF FewShotPoolTypeOK, Stored
    <2> QED
      BY <1>0, <1>1, <1>2, <2>1, <2>2, <2>3 DEF FewShotPoolTypeOK, StoreType
  <1>7. OwedInv'
    <2> DEFINE mine == {r} \X (1..e)
    <2>1. mine \subseteq Removals /\ Removals' = Removals \ mine
      <3>1. \A q \in Counting' : q # r /\ store'[q] = store[q]
        BY <1>2 DEF Counting
      <3>2. \A p \in mine : p[1] = r /\ p[2] \in 1..e /\ p \in Raters \X Nat
        OBVIOUS
      <3>3. mine \subseteq Removals
        BY <1>1, <3>2 DEF Removals, e
      <3>4. \A p \in Removals : p[1] = r => p \in mine
        BY DEF Removals, e
      <3>5. \A p \in Raters \X Nat : p \in Removals' <=> p \in Removals /\ p[1] # r
        BY <1>2, <3>1 DEF Removals
      <3>6. Removals \subseteq Raters \X Nat /\ Removals' \subseteq Raters \X Nat
        BY DEF Removals
      <3> HIDE DEF mine
      <3> QED
        BY <3>2, <3>3, <3>4, <3>5, <3>6
    <2>2. IsFiniteSet(mine) /\ Cardinality(mine) = e
      BY <1>3, RemovalsOf
    <2>3. IsFiniteSet(Removals) /\ Cardinality(Removals) \in Nat
      BY <1>0, RemovalsBound
    <2> HIDE DEF mine
    <2>4. Cardinality(Removals') = Cardinality(Removals) - e
      <3>1. Cardinality(Removals \ mine) = Cardinality(Removals) - Cardinality(Removals \cap mine)
        BY <2>3, FS_Difference
      <3>2. Removals \cap mine = mine
        BY <2>1
      <3> QED
        BY <2>1, <2>2, <3>1, <3>2
    <2>5. Again' = Again /\ Again \in Int /\ mostExcess' = mostExcess
      BY <1>1, PoolFinite DEF Again
    <2> DEFINE x == Again * mostExcess
    <2>6. x \in Int /\ pool + x >= Cap + Cardinality(Removals)
      BY <1>0, <1>1, <1>3, <2>5 DEF OwedInv
    <2> HIDE DEF x
    <2>7. pool' + x >= Cap + Cardinality(Removals')
      BY <1>3, <1>5, <2>3, <2>4, <2>6
    <2> QED
      BY <2>5, <2>7 DEF OwedInv, x
  <1>8. NoMore'
    <2>1. Cardinality(Storing') = Cardinality(Storing) - 1 /\ Cardinality(Storing) \in Nat
      BY <1>1, <1>2, PoolFinite, FS_RemoveElement DEF Storing
    <2>2. Cardinality(Storing') \in Nat
      BY <1>2, PoolFinite DEF Storing
    <2>3. ~poolFailed' => ~poolFailed \/ r \in poolAlone
      BY <1>1 DEF Stored
    <2>4. ~poolFailed => pool <= Cap + Cardinality(Storing)
      BY <1>0 DEF NoMore
    <2>5. CASE pool' = 0
      BY <1>3, <2>2, <2>5 DEF NoMore
    <2>6. CASE pool' > 0 /\ r \in poolAlone
      <3>1. pool' <= Cap + Cardinality(Storing')
        BY <1>3, <1>5, <2>2, <2>6
      <3> QED
        BY <3>1 DEF NoMore
    <2>7. CASE pool' > 0 /\ r \notin poolAlone
      <3> SUFFICES ASSUME ~poolFailed PROVE pool' <= Cap + Cardinality(Storing')
        BY <2>3, <2>7 DEF NoMore
      <3> QED
        BY <1>3, <1>5, <2>1, <2>4, <2>7
    <2> QED
      BY <1>5, <2>5, <2>6, <2>7
  <1>9. Expires'
    <2>1. lasting' => lasting
      BY DEF Trim
    <2> QED
      BY <1>0, <1>1, <1>2, <2>1, OverExpires
  <1> QED
    BY <1>2, <1>6, <1>7, <1>8, <1>9 DEF PoolInv

\* What is to be removed already is not more than what may be removed twice.
LEMMA OwedBefore ==
  ASSUME FewShotPoolTypeOK, StoreInv, NEW r \in Storing, r \notin Counting,
         NEW m \in Nat, mostExcess <= m
  PROVE  Again \in Int /\ Cardinality(Removals) <= Again * m
  <1>1. /\ Cardinality(Counting) \in Nat /\ Cardinality(Raters) \in Nat
        /\ mostExcess \in Nat /\ Cardinality(Removals) \in Nat
        /\ Cardinality(Removals) <= Cardinality(Counting) * mostExcess
    BY PoolFinite, StoreFields, RemovalsBound DEF Counting
  <1>2. Again \in Int /\ Cardinality(Counting) <= Again
    <2>1. CASE poolOverlaps
      <3>1. /\ Counting \subseteq Raters \ {r}
            /\ Cardinality(Raters \ {r}) = Cardinality(Raters) - 1
            /\ IsFiniteSet(Raters \ {r})
        BY PoolFinite, FS_RemoveElement DEF Counting, Storing
      <3>2. Cardinality(Counting) <= Cardinality(Raters \ {r})
        BY <3>1, FS_Subset
      <3> QED
        BY <1>1, <2>1, <3>1, <3>2 DEF Again
    <2>2. CASE ~poolOverlaps
      <3>1. Counting = {}
        BY <2>2, StoreFields DEF StoreInv
      <3>2. Cardinality(Counting) = 0
        BY <3>1, FS_EmptySet
      <3> QED
        BY <2>2, <3>2 DEF Again
    <2> QED
      BY <2>1, <2>2
  <1> DEFINE c == Cardinality(Counting)
             a == Again
  <1>3. c \in Nat /\ a \in Int /\ c <= a
    BY <1>1, <1>2
  <1> DEFINE x == c * mostExcess
             y == c * m
             z == a * m
  <1>4. Cardinality(Removals) <= x
    BY <1>1
  <1> HIDE DEF c, a
  <1>5. x <= y
    <2>1. mostExcess * c <= m * c
      BY <1>1, <1>3, PoolTimes
    <2>2. mostExcess * c = c * mostExcess /\ m * c = c * m
      BY <1>1, <1>3
    <2> QED
      BY <2>1, <2>2
  <1>6. y <= z
    BY <1>3, PoolTimes
  <1>7. x \in Int /\ y \in Int /\ z \in Int
    BY <1>1, <1>3
  <1> HIDE DEF x, y, z
  <1>8. Cardinality(Removals) <= z
    BY <1>1, <1>4, <1>5, <1>6, <1>7
  <1> QED
    BY <1>2, <1>8 DEF a, z

LEMMA CountKeeps == ASSUME NEW r \in Raters, PoolInv, CountPool(r) PROVE PoolInv'
  <1>0. FewShotPoolTypeOK /\ StoreInv /\ OwedInv /\ NoMore /\ Expires
    BY DEF PoolInv
  <1>1. /\ store[r].step = "renewed" /\ r \in Storing /\ r \notin Counting
        /\ UNCHANGED <<pool, lasting, poolTrimmed, poolOverlaps, poolAlone>>
        /\ pool \in Nat /\ Cap \in Nat /\ mostExcess \in Nat /\ pool <= MaxPool
    <2>1. /\ store[r].step = "renewed"
          /\ UNCHANGED <<pool, lasting, poolTrimmed, poolOverlaps, poolAlone>>
      BY DEF CountPool
    <2>2. r \in Storing /\ r \notin Counting
      BY <2>1 DEF Storing, Counting
    <2>3. pool \in 0..MaxPool /\ MaxPool \in Nat
      BY <1>0, FewShotPoolAssumption DEF FewShotPoolTypeOK
    <2> QED
      BY <1>0, <2>1, <2>2, <2>3, StoreFields
  <1>2. CASE pool > Cap /\ UNCHANGED poolFailed
    <2> DEFINE e == pool - Cap
    <2>1. e \in Nat /\ e >= 1 /\ pool = Cap + e
      BY <1>1, <1>2
    <2>2. /\ GoesOn(r, [step |-> "counted", excess |-> e])
          /\ mostExcess' = IF e > mostExcess THEN e ELSE mostExcess
      BY <1>1, <1>2 DEF CountPool
    <2> HIDE DEF e
    <2>3. mostExcess' \in Nat /\ mostExcess <= mostExcess' /\ e <= mostExcess'
      BY <1>1, <2>1, <2>2
    <2>4. StoreGoes(r, [step |-> "counted", excess |-> e])
      BY <1>0, <2>1, <2>2, StoreStep
    <2>5. /\ Storing' = Storing /\ Counting' = Counting \cup {r} /\ StoreType'
          /\ store'[r].step = "counted" /\ store'[r].excess = e
          /\ \A q \in Raters : q # r => store'[q] = store[q]
      <3>1. /\ [step |-> "counted", excess |-> e].step = "counted"
            /\ [step |-> "counted", excess |-> e].excess = e
        OBVIOUS
      <3> QED
        BY <1>1, <2>4, <3>1 DEF StoreGoes
    <2>6. FewShotPoolTypeOK'
      <3>0. mostExcess \in 0..MaxPool /\ MaxPool \in Nat
        BY <1>0, FewShotPoolAssumption DEF FewShotPoolTypeOK
      <3>1. mostExcess' \in 0..MaxPool
        BY <1>1, <2>1, <2>2, <3>0
      <3> QED
        BY <1>0, <1>1, <1>2, <2>5, <3>1 DEF FewShotPoolTypeOK, StoreType
    <2>7. StoreInv'
      <3>1. \A q \in poolAlone' : q = r /\ Storing \subseteq {r} /\ ~lasting
        BY <1>0, <1>1 DEF StoreInv
      <3>2. pool' <= Cap + store'[r].excess
        BY <1>1, <2>1, <2>5
      <3>3. \A q \in Counting' : store'[q].excess >= 1 /\ store'[q].excess <= mostExcess'
        <4>1. ASSUME NEW q \in Counting
              PROVE  store'[q].excess >= 1 /\ store'[q].excess <= mostExcess'
          <5>1. /\ store'[q] = store[q] /\ store[q].excess \in Nat
                /\ store[q].excess >= 1 /\ store[q].excess <= mostExcess
            BY <1>0, <1>1, <2>5, StoreFields DEF StoreInv, Counting
          <5> QED
            BY <1>1, <2>3, <5>1
        <4> QED
          BY <2>1, <2>3, <2>5, <4>1
      <3>4. ~poolOverlaps' => \A p, q \in Storing' : p = q
        BY <1>0, <1>1, <2>5 DEF StoreInv
      <3> QED
        BY <1>1, <2>5, <3>1, <3>2, <3>3, <3>4 DEF StoreInv
    <2>8. OwedInv'
      <3> DEFINE mine == {r} \X (1..e)
      <3>1. Removals' \subseteq Removals \cup mine
        <4> SUFFICES ASSUME NEW p \in Removals', p \notin Removals PROVE p \in mine
          OBVIOUS
        <4>1. /\ p \in Raters \X Nat /\ p[1] \in Counting \cup {r}
              /\ p[2] \in 1..store'[p[1]].excess
          BY <2>5 DEF Removals
        <4>2. p[1] = r
          BY <2>5, <4>1 DEF Removals, Counting
        <4> QED
          BY <2>5, <4>1, <4>2
      <3>2. IsFiniteSet(mine) /\ Cardinality(mine) = e
        BY <2>1, RemovalsOf
      <3>3. IsFiniteSet(Removals) /\ Cardinality(Removals) \in Nat
        BY <1>0, RemovalsBound
      <3> HIDE DEF mine
      <3>4. /\ IsFiniteSet(Removals \cup mine)
            /\ Cardinality(Removals \cup mine) <= Cardinality(Removals) + e
            /\ Cardinality(Removals \cup mine) \in Nat
        <4>1. /\ IsFiniteSet(Removals \cup mine)
              /\ Cardinality(Removals \cup mine)
                   = Cardinality(Removals) + Cardinality(mine) - Cardinality(Removals \cap mine)
          BY <3>2, <3>3, FS_Union
        <4>2. Cardinality(Removals \cap mine) \in Nat /\ Cardinality(Removals \cup mine) \in Nat
          BY <3>2, <4>1, FS_Intersection, FS_CardinalityType
        <4> QED
          BY <2>1, <3>2, <3>3, <4>1, <4>2
      <3>5. /\ Cardinality(Removals') <= Cardinality(Removals \cup mine)
            /\ Cardinality(Removals') \in Nat
        BY <3>1, <3>4, FS_Subset, FS_CardinalityType
      <3>6. Again \in Int /\ Cardinality(Removals) <= Again * mostExcess' /\ Again' = Again
        BY <1>0, <1>1, <2>3, OwedBefore DEF Again
      <3> DEFINE x == Again * mostExcess'
      <3>7. x \in Int /\ Cardinality(Removals) <= x
        BY <2>3, <3>6
      <3> HIDE DEF x
      <3>8. pool + x >= Cap + Cardinality(Removals')
        BY <1>1, <2>1, <3>3, <3>4, <3>5, <3>7
      <3> QED
        BY <1>1, <3>6, <3>8 DEF OwedInv, x
    <2>9. NoMore'
      BY <1>0, <1>1, <1>2, <2>5 DEF NoMore
    <2>10. Expires'
      <3>1. \A q \in Storing : store[q].step = "added" => store'[q] = store[q]
        BY <1>1, <2>5 DEF Storing
      <3> QED
        BY <1>0, <1>1, <1>2, <2>5, <3>1 DEF Expires
    <2> QED
      BY <2>6, <2>7, <2>8, <2>9, <2>10 DEF PoolInv
  <1>3. CASE pool <= Cap /\ Stored(r) /\ UNCHANGED mostExcess
    <2>1. GoesOn(r, NotStoring)
      BY <1>3 DEF Stored
    <2>2. /\ Storing' = Storing \ {r} /\ Counting' = Counting \ {r}
          /\ StoreType' /\ StoreInv'
          /\ \A q \in Raters : q # r => store'[q] = store[q]
      BY <1>0, <1>1, <1>3, <2>1, StoreLeaves
    <2>3. FewShotPoolTypeOK'
      BY <1>0, <1>1, <1>3, <2>2 DEF FewShotPoolTypeOK, StoreType, Stored
    <2>4. OwedInv'
      <3>1. Counting' = Counting /\ \A q \in Counting' : store'[q].excess = store[q].excess
        BY <1>1, <2>2 DEF Counting
      <3>2. Removals' = Removals
        BY <3>1 DEF Removals
      <3> QED
        BY <1>0, <1>1, <1>3, <3>1, <3>2 DEF OwedInv, Again
    <2>5. NoMore'
      <3>1. Cardinality(Storing') \in Nat
        BY <2>2, PoolFinite DEF Storing
      <3> QED
        BY <1>1, <1>3, <3>1 DEF NoMore
    <2>6. Expires'
      BY <1>0, <1>1, <1>3, <2>2, OverExpires
    <2> QED
      BY <2>2, <2>3, <2>4, <2>5, <2>6 DEF PoolInv
  <1> QED
    BY <1>1, <1>2, <1>3 DEF CountPool

LEMMA PoolNext == ASSUME PoolInv, [FewShotPoolNext]_poolVars PROVE PoolInv'
  <1>1. CASE UNCHANGED poolVars
    <2>1. UNCHANGED <<pool, lasting, store, poolTrimmed, mostExcess, poolFailed, poolOverlaps,
                      poolAlone>>
      BY <1>1 DEF poolVars, poolHistory
    <2> QED
      BY <2>1 DEF PoolInv, FewShotPoolTypeOK, StoreInv, OwedInv, NoMore, Expires,
                  Again, Removals, Counting, Storing
  <1>2. CASE PoolExpires
    BY <1>2, ExpiryKeeps
  <1>3. ASSUME NEW r \in Raters,
               AddExample(r) \/ Renew(r) \/ CountPool(r) \/ Trim(r) \/ StoreFails(r)
        PROVE  PoolInv'
    BY <1>3, AddKeeps, RenewKeeps, CountKeeps, TrimKeeps, FailKeeps
  <1> QED
    BY <1>1, <1>2, <1>3 DEF FewShotPoolNext

LEMMA PoolHolds == ASSUME PoolInv PROVE PoolSettlesAtCap
  <1>0. FewShotPoolTypeOK /\ StoreInv /\ OwedInv /\ NoMore /\ Expires
    BY DEF PoolInv
  <1>1. poolTrimmed => pool + Again * mostExcess >= Cap
    <2> SUFFICES ASSUME poolTrimmed PROVE pool + Again * mostExcess >= Cap
      OBVIOUS
    <2>1. Again \in Int /\ pool \in Nat /\ mostExcess \in Nat /\ Cap \in Nat
      BY <1>0, PoolFinite, StoreFields DEF Again
    <2>2. Cardinality(Removals) \in Nat
      BY <1>0, RemovalsBound
    <2> DEFINE x == Again * mostExcess
    <2>3. x \in Int /\ pool + x >= Cap + Cardinality(Removals)
      BY <1>0, <2>1 DEF OwedInv
    <2> HIDE DEF x
    <2>4. pool + x >= Cap
      BY <2>1, <2>2, <2>3
    <2> QED
      BY <2>4 DEF x
  <1> QED
    BY <1>0, <1>1 DEF PoolSettlesAtCap, Again, NoMore, Expires
-----------------------------------------------------------------------------
(* The login with WeChat.                                                   *)

Inserted == {c \in Logins : login[c].step = "inserted"}

\* A user who was inserted clashes with nobody else.
NoClash ==
    \A c \in Inserted :
        /\ \A p \in users : ~Clash(p, login[c].who)
        /\ \A d \in Inserted : d # c => ~Clash(login[d].who, login[c].who)

\* A state that was found had been handed out.
FoundOut == \A c \in Logins : LoginAt(c, "found") => login[c].state \in handedOut

LoginInv == WeChatLoginTypeOK /\ LoginsHold /\ NoClash /\ FoundOut

\* What is kept of a callback that has got to a step.
LEMMA LoginFields ==
  ASSUME WeChatLoginTypeOK, NEW c \in Logins
  PROVE  /\ LoginAt(c, "found") \/ LoginAt(c, "asking") =>
              login[c] = [step |-> login[c].step, state |-> login[c].state]
              /\ login[c].state \in QrStates
         /\ LoginAt(c, "known") \/ LoginAt(c, "unknown") \/ LoginAt(c, "inserted") =>
              login[c] = [step |-> login[c].step, who |-> login[c].who]
              /\ login[c].who \in Openids
  <1>1. login[c] \in {NoLogin} \cup [step : {"found", "asking"}, state : QrStates]
                      \cup [step : {"known", "unknown", "inserted"}, who : Openids]
    BY DEF WeChatLoginTypeOK
  <1>2. CASE login[c] = NoLogin
    BY <1>2 DEF LoginAt, NoLogin
  <1>3. CASE login[c] \in [step : {"found", "asking"}, state : QrStates]
    BY <1>3 DEF LoginAt
  <1>4. CASE login[c] \in [step : {"known", "unknown", "inserted"}, who : Openids]
    BY <1>4 DEF LoginAt
  <1> QED
    BY <1>1, <1>2, <1>3, <1>4

\* A callback goes on, and the others stay.
LEMMA LoginGoesOn ==
  ASSUME WeChatLoginTypeOK, NEW c \in Logins, NEW l, LoginGoes(c, l),
         l \in {NoLogin} \cup [step : {"found", "asking"}, state : QrStates]
                \cup [step : {"known", "unknown", "inserted"}, who : Openids]
  PROVE  /\ login' \in [Logins -> {NoLogin} \cup [step : {"found", "asking"}, state : QrStates]
                              \cup [step : {"known", "unknown", "inserted"}, who : Openids]]
         /\ login'[c] = l
         /\ \A d \in Logins : d # c => login'[d] = login[d]
         /\ Inserted' = IF l.step = "inserted" THEN Inserted \cup {c} ELSE Inserted \ {c}
  BY DEF WeChatLoginTypeOK, LoginGoes, Inserted

LEMMA LoginInit == WeChatLoginInit => LoginInv
  BY DEF WeChatLoginInit, LoginInv, WeChatLoginTypeOK, LoginsHold, NoClash, Inserted, NoLogin,
         FoundOut, LoginAt

\* A step that changes no user and inserts none.
LEMMA LoginQuiet ==
  ASSUME LoginInv, WeChatLoginTypeOK', FoundOut', Inserted' \subseteq Inserted,
         \A c \in Inserted' : login'[c] = login[c],
         users' = users, refused' = refused, signedIn' \subseteq users,
         usedUp' \cap inRedis' = {}
  PROVE  LoginInv'
  <1>1. LoginsHold'
    BY DEF LoginInv, LoginsHold, Clash
  <1>2. NoClash'
    BY DEF LoginInv, NoClash, Clash
  <1> QED
    BY <1>1, <1>2 DEF LoginInv

\* Callback c has got to l, and the others stay.
GoesTo(c, l) ==
    /\ login' \in [Logins -> {NoLogin} \cup [step : {"found", "asking"}, state : QrStates]
                              \cup [step : {"known", "unknown", "inserted"}, who : Openids]]
    /\ login'[c] = l
    /\ \A d \in Logins : d # c => login'[d] = login[d]

\* A step of a callback alone.
LEMMA LoginStays ==
  ASSUME LoginInv, NEW c \in Logins, NEW l, GoesTo(c, l), l.step \notin {"found", "inserted"},
         signedIn' \subseteq users,
         UNCHANGED <<inRedis, handedOut, users, usedUp, refused>>
  PROVE  LoginInv'
  <1>0. WeChatLoginTypeOK /\ LoginsHold /\ NoClash /\ FoundOut
    BY DEF LoginInv
  <1>1. WeChatLoginTypeOK'
    BY <1>0 DEF GoesTo, WeChatLoginTypeOK
  <1>2. Inserted' \subseteq Inserted /\ \A d \in Inserted' : login'[d] = login[d]
    BY DEF GoesTo, Inserted
  <1>3. FoundOut'
    BY <1>0 DEF GoesTo, FoundOut, LoginAt
  <1>4. usedUp' \cap inRedis' = {}
    BY <1>0 DEF LoginsHold
  <1> QED
    BY <1>1, <1>2, <1>3, <1>4, LoginQuiet

LEMMA LoginNext == LoginInv /\ [WeChatLoginNext]_loginVars => LoginInv'
  <1> SUFFICES ASSUME LoginInv, [WeChatLoginNext]_loginVars PROVE LoginInv'
    OBVIOUS
  <1>0. WeChatLoginTypeOK /\ LoginsHold /\ NoClash /\ FoundOut
    BY DEF LoginInv
  <1>1. ASSUME NEW s \in QrStates, HandOut(s) \/ StateExpires(s)
        PROVE  LoginInv'
    <2>1. UNCHANGED <<login, users, usedUp, signedIn, refused>> /\ Inserted' = Inserted
      BY <1>1 DEF HandOut, StateExpires, Inserted
    <2>2. WeChatLoginTypeOK' /\ usedUp' \cap inRedis' = {}
      BY <1>0, <1>1, <2>1 DEF HandOut, StateExpires, WeChatLoginTypeOK, LoginsHold
    <2>3. FoundOut'
      BY <1>0, <1>1 DEF HandOut, StateExpires, FoundOut, LoginAt
    <2> QED
      BY <1>0, <2>1, <2>2, <2>3, LoginQuiet DEF LoginsHold
  <1>2. ASSUME NEW c \in Logins, NEW s \in QrStates, FindState(c, s)
        PROVE  LoginInv'
    <2> DEFINE l == [step |-> "found", state |-> s]
    <2>1. LoginGoes(c, l) /\ UNCHANGED <<inRedis, handedOut, users, usedUp, signedIn, refused>>
      BY <1>2 DEF FindState
    <2>2. /\ login' \in [Logins -> {NoLogin} \cup [step : {"found", "asking"}, state : QrStates]
                              \cup [step : {"known", "unknown", "inserted"}, who : Openids]]
          /\ login'[c] = l /\ Inserted' = Inserted \ {c}
          /\ \A d \in Logins : d # c => login'[d] = login[d]
      BY <1>0, <2>1, LoginGoesOn
    <2>3. WeChatLoginTypeOK'
      BY <1>0, <2>1, <2>2 DEF WeChatLoginTypeOK
    <2>4. s \in handedOut
      BY <1>0, <1>2 DEF FindState, WeChatLoginTypeOK
    <2>5. FoundOut'
      BY <1>0, <2>1, <2>2, <2>4, LoginGoesOn DEF FoundOut, LoginAt
    <2> QED
      BY <1>0, <2>1, <2>2, <2>3, <2>5, LoginQuiet DEF LoginsHold, Inserted
  <1>3. ASSUME NEW c \in Logins, DeleteState(c)
        PROVE  LoginInv'
    <2> DEFINE l == [login[c] EXCEPT !.step = "asking"]
    <2>1. /\ LoginGoes(c, l) /\ UNCHANGED <<handedOut, users, signedIn, refused>>
          /\ inRedis' = inRedis \ {login[c].state} /\ usedUp' = usedUp \cup {login[c].state}
      BY <1>3 DEF DeleteState
    <2>2. l = [step |-> "asking", state |-> login[c].state] /\ login[c].state \in QrStates
      <3>1. LoginAt(c, "found")
        BY <1>3 DEF DeleteState
      <3>2. login[c] = [step |-> login[c].step, state |-> login[c].state]
            /\ login[c].state \in QrStates
        BY <1>0, <3>1, LoginFields
      <3> QED
        BY <3>2
    <2>3. /\ login' \in [Logins -> {NoLogin} \cup [step : {"found", "asking"}, state : QrStates]
                              \cup [step : {"known", "unknown", "inserted"}, who : Openids]]
          /\ login'[c].step = "asking" /\ Inserted' = Inserted \ {c}
          /\ \A d \in Logins : d # c => login'[d] = login[d]
      BY <1>0, <2>1, <2>2, LoginGoesOn
    <2>4. WeChatLoginTypeOK'
      BY <1>0, <1>3, <2>1, <2>3 DEF WeChatLoginTypeOK, FoundOut, DeleteState
    <2>5. FoundOut'
      BY <1>0, <2>1, <2>3 DEF FoundOut, LoginAt
    <2>6. usedUp' \cap inRedis' = {}
      BY <1>0, <2>1 DEF LoginsHold
    <2> QED
      BY <1>0, <2>1, <2>3, <2>4, <2>5, <2>6, LoginQuiet DEF LoginsHold, Inserted
  <1>4. ASSUME NEW c \in Logins, WeChatAnswers(c)
        PROVE  LoginInv'
    <2>1. PICK o \in Openids : LoginGoes(c, [step |-> "known", who |-> o])
      BY <1>4 DEF WeChatAnswers
    <2>2. UNCHANGED <<inRedis, handedOut, users, usedUp, signedIn, refused>>
      BY <1>4 DEF WeChatAnswers
    <2>a. signedIn' \subseteq users
      BY <1>0, <2>2 DEF LoginsHold
    <2>3. GoesTo(c, [step |-> "known", who |-> o])
      BY <1>0, <2>1, LoginGoesOn DEF GoesTo
    <2> QED
      BY <2>a, <2>2, <2>3, LoginStays
  <1>5. ASSUME NEW c \in Logins, FindUser(c)
        PROVE  LoginInv'
    <2>1. login[c] = [step |-> "known", who |-> login[c].who] /\ login[c].who \in Openids
      BY <1>0, <1>5, LoginFields DEF FindUser, LoginAt
    <2>2. CASE login[c].who \in users
      <3>1. GoesTo(c, NoLogin)
        BY <1>0, <1>5, <2>2, LoginGoesOn DEF FindUser, GoesTo, NoLogin
      <3>2. signedIn' \subseteq users /\ UNCHANGED <<inRedis, handedOut, users, usedUp, refused>>
        BY <1>0, <1>5, <2>2 DEF FindUser, LoginsHold
      <3> QED
        BY <3>1, <3>2, LoginStays DEF NoLogin
    <2>3. CASE login[c].who \notin users
      <3>1. [login[c] EXCEPT !.step = "unknown"] = [step |-> "unknown", who |-> login[c].who]
        BY <2>1
      <3>2. GoesTo(c, [step |-> "unknown", who |-> login[c].who])
        BY <1>0, <1>5, <2>1, <2>3, <3>1, LoginGoesOn DEF FindUser, GoesTo
      <3>3. signedIn' \subseteq users /\ UNCHANGED <<inRedis, handedOut, users, usedUp, refused>>
        BY <1>0, <1>5, <2>3 DEF FindUser, LoginsHold
      <3> QED
        BY <3>2, <3>3, LoginStays
    <2> QED
      BY <2>2, <2>3
  <1>6. ASSUME NEW c \in Logins, InsertUser(c)
        PROVE  LoginInv'
    <2>1. login[c] = [step |-> "unknown", who |-> login[c].who] /\ login[c].who \in Openids
      BY <1>0, <1>6, LoginFields DEF InsertUser, LoginAt
    <2>2. CASE \E p \in users : Clash(p, login[c].who)
      <3>1. GoesTo(c, NoLogin)
        BY <1>0, <1>6, <2>2, LoginGoesOn DEF InsertUser, GoesTo, NoLogin
      <3>2. /\ refused' = refused \cup {login[c].who}
            /\ UNCHANGED <<inRedis, handedOut, users, usedUp, signedIn>>
        BY <1>6, <2>2 DEF InsertUser
      <3>3. WeChatLoginTypeOK' /\ NoClash' /\ FoundOut'
        <4>1. WeChatLoginTypeOK'
          BY <1>0, <2>1, <3>1, <3>2 DEF GoesTo, WeChatLoginTypeOK
        <4>2. Inserted' \subseteq Inserted /\ \A d \in Inserted' : login'[d] = login[d]
          BY <3>1 DEF GoesTo, Inserted, NoLogin
        <4>3. NoClash'
          BY <1>0, <3>2, <4>2 DEF NoClash, Clash
        <4>4. FoundOut'
          BY <1>0, <3>1, <3>2 DEF GoesTo, FoundOut, LoginAt, NoLogin
        <4> QED
          BY <4>1, <4>3, <4>4
      <3>4. LoginsHold'
        BY <1>0, <2>2, <3>2 DEF LoginsHold, Clash
      <3> QED
        BY <3>3, <3>4 DEF LoginInv
    <2>3. CASE ~\E p \in users : Clash(p, login[c].who)
      <3> DEFINE l == [step |-> "inserted", who |-> login[c].who]
      <3>1. [login[c] EXCEPT !.step = "inserted"] = l
        BY <2>1
      <3>2. LoginGoes(c, l) /\ UNCHANGED <<inRedis, handedOut, users, usedUp, signedIn, refused>>
        BY <1>6, <2>3, <3>1 DEF InsertUser
      <3>3. GoesTo(c, l) /\ Inserted' = Inserted \cup {c}
        BY <1>0, <2>1, <3>2, LoginGoesOn DEF GoesTo
      <3>4. WeChatLoginTypeOK'
        BY <1>0, <3>2, <3>3 DEF GoesTo, WeChatLoginTypeOK
      <3>5. FoundOut'
        BY <1>0, <3>2, <3>3 DEF GoesTo, FoundOut, LoginAt
      <3>6. LoginsHold'
        BY <1>0, <3>2 DEF LoginsHold, Clash
      <3>7. /\ \A d \in Inserted : ~Clash(login[d].who, login[c].who)
            /\ \A d \in Inserted : ~Clash(login[c].who, login[d].who)
        BY <1>6 DEF InsertUser, Inserted, LoginAt, Clash
      <3>8. /\ login'[c].who = login[c].who
            /\ \A d \in Inserted : d # c /\ login'[d] = login[d]
        BY <2>1, <3>3 DEF GoesTo, Inserted
      <3>9. NoClash'
        BY <1>0, <2>3, <3>2, <3>3, <3>7, <3>8 DEF NoClash, Clash
      <3> QED
        BY <3>4, <3>5, <3>6, <3>9 DEF LoginInv
    <2> QED
      BY <2>2, <2>3
  <1>7. ASSUME NEW c \in Logins, CommitUser(c)
        PROVE  LoginInv'
    <2> DEFINE who == login[c].who
    <2>1. c \in Inserted /\ who \in Openids
      BY <1>0, <1>7, LoginFields DEF CommitUser, LoginAt, Inserted
    <2>2. GoesTo(c, NoLogin) /\ Inserted' = Inserted \ {c}
      BY <1>0, <1>7, LoginGoesOn DEF CommitUser, GoesTo, NoLogin
    <2>3. /\ users' = users \cup {who} /\ signedIn' = signedIn \cup {who}
          /\ UNCHANGED <<inRedis, handedOut, usedUp, refused>>
      BY <1>7 DEF CommitUser
    <2>4. WeChatLoginTypeOK'
      BY <1>0, <2>1, <2>2, <2>3 DEF GoesTo, WeChatLoginTypeOK
    <2>5. FoundOut'
      BY <1>0, <2>2, <2>3 DEF GoesTo, FoundOut, LoginAt, NoLogin
    <2>6. /\ \A p \in users : ~Clash(p, who) /\ ~Clash(who, p)
          /\ \A d \in Inserted \ {c} : ~Clash(who, login[d].who)
      BY <1>0, <2>1 DEF NoClash, Clash
    <2>7. LoginsHold'
      BY <1>0, <2>3, <2>6 DEF LoginsHold, Clash
    <2>8. \A d \in Inserted' : d \in Inserted \ {c} /\ login'[d] = login[d]
      BY <2>2 DEF GoesTo, Inserted
    <2>9. NoClash'
      BY <1>0, <2>3, <2>6, <2>8 DEF NoClash, Clash
    <2> QED
      BY <2>4, <2>5, <2>7, <2>9 DEF LoginInv
  <1>8. ASSUME NEW c \in Logins, LoginFails(c)
        PROVE  LoginInv'
    <2>1. GoesTo(c, NoLogin)
      BY <1>0, <1>8, LoginGoesOn DEF LoginFails, GoesTo, NoLogin
    <2>2. UNCHANGED <<inRedis, handedOut, users, usedUp, signedIn, refused>>
      BY <1>8 DEF LoginFails
    <2>3. signedIn' \subseteq users
      BY <1>0, <2>2 DEF LoginsHold
    <2> QED
      BY <2>1, <2>2, <2>3, LoginStays DEF NoLogin
  <1>9. CASE UNCHANGED loginVars
    BY <1>0, <1>9 DEF loginVars, LoginInv, WeChatLoginTypeOK, LoginsHold, NoClash, Inserted, Clash,
                      FoundOut, LoginAt
  <1> QED
    BY <1>1, <1>2, <1>3, <1>4, <1>5, <1>6, <1>7, <1>8, <1>9 DEF WeChatLoginNext
-----------------------------------------------------------------------------

LEMMA ServicesStart ==
  ServicesInit => /\ Init /\ RateLimiterInit /\ FewShotPoolInit /\ WeChatLoginInit
                  /\ WorkflowExecutorInit
  BY DEF ServicesInit

LEMMA ServicesSteps ==
  [ServicesNext]_servicesVars =>
      /\ [Next]_vars /\ [RateLimiterNext]_rateVars
      /\ [FewShotPoolNext]_poolVars /\ [WeChatLoginNext]_loginVars
      /\ [WorkflowExecutorNext]_executorVars
  <1>1. CASE ServicesNext
    BY <1>1 DEF ServicesNext, OthersRest
  <1>2. CASE UNCHANGED servicesVars
    BY <1>2 DEF servicesVars
  <1>3. QED
    BY <1>1, <1>2

(* Requests that do not overlap are let through within the rate, and the    *)
(* bucket expires only when it is full anyway.                              *)
THEOREM WithinRate == ServicesSpec => []AdmittedWithinRate
  <1>1. ServicesInit => RateInv
    BY ServicesStart, RateInit
  <1>2. RateInv /\ [ServicesNext]_servicesVars => RateInv'
    BY ServicesSteps, RateNext
  <1>3. QED
    BY <1>1, <1>2, RateHolds, PTL DEF ServicesSpec

(* The examples of an agent settle at Cap, and overlapping stores take no   *)
(* more good ones away than each of the others counted too many.            *)
THEOREM PoolSettles == ServicesSpec => []PoolSettlesAtCap
  <1>1. ServicesInit => PoolInv
    BY ServicesStart, PoolInit
  <1>2. PoolInv /\ [ServicesNext]_servicesVars => PoolInv'
    BY ServicesSteps, PoolNext
  <1>3. QED
    BY <1>1, <1>2, PoolHolds, PTL DEF ServicesSpec

(* A state serves nobody who begins after it was used, whoever holds a      *)
(* token has a user, and two users never share a mail address.              *)
THEOREM LoginsAreSound == ServicesSpec => []LoginsHold
  <1>1. ServicesInit => LoginInv
    BY ServicesStart, LoginInit
  <1>2. LoginInv /\ [ServicesNext]_servicesVars => LoginInv'
    BY ServicesSteps, LoginNext
  <1>3. LoginInv => LoginsHold
    BY DEF LoginInv
  <1>4. QED
    BY <1>1, <1>2, <1>3, PTL DEF ServicesSpec

(* A workflow that completes has executed what is reached over the edges    *)
(* followed and nothing else, each node once, whatever the graph.           *)
THEOREM RunsReached == ServicesSpec => []RunsWhatIsReached
  <1>1. ServicesInit => ExecutorInv
    BY ServicesStart, ExecutorInit
  <1>2. ExecutorInv /\ [ServicesNext]_servicesVars => ExecutorInv'
    BY ServicesSteps, ExecutorNext
  <1>3. QED
    BY <1>1, <1>2, ExecutorHolds, PTL DEF ServicesSpec

(* The state of every service keeps its type.                               *)
THEOREM ServicesTypeCorrect == ServicesSpec => []ServicesTypeOK
  <1> DEFINE Inv == /\ part \in Parts /\ GatewayInv /\ RateInv /\ PoolInv /\ LoginInv
                    /\ ExecutorInv
  <1>1. ServicesInit => Inv
    <2>1. ServicesInit => part \in Parts
      BY DEF ServicesInit
    <2> QED
      BY <2>1, ServicesStart, InitGatewayInv, RateInit, PoolInit, LoginInit, ExecutorInit
  <1>2. Inv /\ [ServicesNext]_servicesVars => Inv'
    <2>1. [ServicesNext]_servicesVars => part' = part
      BY DEF ServicesNext, OthersRest, servicesVars
    <2> QED
      BY <2>1, ServicesSteps, NextGatewayInv, RateNext, PoolNext, LoginNext, ExecutorNext
  <1>3. Inv => ServicesTypeOK
    BY ExecutorTypeHolds DEF GatewayInv, RateInv, PoolInv, LoginInv, ServicesTypeOK
  <1>4. QED
    BY <1>1, <1>2, <1>3, PTL DEF ServicesSpec

-----------------------------------------------------------------------------
(* What ServicesEnd rests on, for every graph.  That the traversal goes on  *)
(* at all needs the fairness; that it cannot go on for ever needs only the  *)
(* steps, and the cycles are why it is not obvious.                         *)

\* Edges that can still lead somewhere: those of ids not come to.
Ahead == {e \in edges : e[1] \notin visited}

\* The ids in the queue, and those the edges ahead can still put there.
WorkLeft == Len(queue) + Cardinality(Ahead)

\* A workflow's work is finite, and every step leaves less of it or ends the run.
WorkRunsOut ==
    /\ [](WorkLeft \in Nat)
    /\ [][WorkLeft' < WorkLeft \/ status' # "running"]_executorVars

LEMMA AheadFinite ==
  ASSUME ExecutorType
  PROVE  /\ IsFiniteSet(edges) /\ IsFiniteSet(Ahead) /\ Cardinality(Ahead) \in Nat
         /\ Len(queue) \in Nat /\ WorkLeft \in Nat
  <1>1. IsFiniteSet(Ids)
    BY ExecutorSets
  <1>2. IsFiniteSet(edges)
    <2>1. IsFiniteSet(Ids \X Ids)
      BY <1>1, FS_Product
    <2> QED
      BY <2>1, FS_Subset DEF ExecutorType
  <1>3. Ahead \subseteq edges
    BY DEF Ahead
  <1>4. IsFiniteSet(Ahead) /\ Cardinality(Ahead) \in Nat
    BY <1>2, <1>3, FS_Subset, FS_CardinalityType
  <1>5. Len(queue) \in Nat
    BY LenProperties DEF ExecutorType
  <1> QED
    BY <1>2, <1>4, <1>5 DEF WorkLeft

\* An order of a finite set is as long as the set is large.
LEMMA OrdersLength ==
  ASSUME NEW S, IsFiniteSet(S), NEW f \in SetToSeqs(S)
  PROVE  f \in Seq(S) /\ Len(f) = Cardinality(S)
  <1>1. Cardinality(S) \in Nat /\ f \in [1..Cardinality(S) -> S]
    BY FS_CardinalityType DEF SetToSeqs
  <1> QED
    BY <1>1, OrdersOfSet, LenProperties

\* A node that is executed queues no more ids than it has edges, and these
\* are not ahead any more.
LEMMA EdgesUsedUp ==
  ASSUME ExecutorType, NEW n \in Ids \ visited, NEW to \in SUBSET TargetsOf(n),
         visited' = visited \cup {n}, edges' = edges
  PROVE  /\ IsFiniteSet(to) /\ Cardinality(to) \in Nat
         /\ IsFiniteSet(Ahead') /\ Cardinality(Ahead') \in Nat
         /\ Cardinality(Ahead') + Cardinality(to) <= Cardinality(Ahead)
  <1> DEFINE out == {e \in edges : e[1] = n /\ e[2] \in to}
             end == [e \in out |-> e[2]]
  <1>1. to \subseteq Ids /\ \A t \in to : <<n, t>> \in edges
    BY DEF TargetsOf
  <1>2. IsFiniteSet(to) /\ Cardinality(to) \in Nat
    BY <1>1, ExecutorSets
  <1>3. /\ out \subseteq Ahead /\ IsFiniteSet(out)
        /\ IsFiniteSet(Ahead) /\ Cardinality(Ahead) \in Nat
    <2>1. out \subseteq Ahead
      BY DEF Ahead
    <2> QED
      BY <2>1, AheadFinite, FS_Subset
  <1>4. Cardinality(to) <= Cardinality(out)
    <2>1. \A t \in to : <<n, t>> \in out /\ end[<<n, t>>] = t
      BY <1>1
    <2>2. end \in Surjection(out, to)
      BY <2>1 DEF Surjection
    <2> QED
      BY <1>3, <2>2, FS_Surjection
  <1>5. Ahead' \subseteq Ahead \ out
    BY DEF Ahead
  <1>6. /\ IsFiniteSet(Ahead \ out)
        /\ Cardinality(Ahead \ out) = Cardinality(Ahead) - Cardinality(out)
    <2>1. Ahead \cap out = out
      BY <1>3
    <2> QED
      BY <1>3, <2>1, FS_Difference
  <1>7. IsFiniteSet(Ahead') /\ Cardinality(Ahead') <= Cardinality(Ahead \ out)
    BY <1>5, <1>6, FS_Subset
  <1>8. Cardinality(out) \in Nat /\ Cardinality(Ahead') \in Nat
    BY <1>3, <1>7, FS_CardinalityType
  <1> QED
    BY <1>2, <1>3, <1>4, <1>6, <1>7, <1>8

LEMMA WorkShrinks ==
  ASSUME ExecutorInv, WorkflowExecutorNext
  PROVE  WorkLeft' < WorkLeft \/ status' # "running"
  <1>0. ExecutorType
    BY DEF ExecutorInv
  <1>1. CASE Finish \/ \E n \in Nodes : ExecuteFails(n)
    BY <1>1 DEF Finish, ExecuteFails
  <1>2. CASE Skip
    <2>1. queue # <<>> /\ queue' = Tail(queue) /\ edges' = edges /\ visited \subseteq visited'
      BY <1>2 DEF Skip, Visit
    <2>2. Len(queue') = Len(queue) - 1
      BY <1>0, <2>1, HeadTailProperties DEF ExecutorType
    <2>3. Ahead' \subseteq Ahead
      BY <2>1 DEF Ahead
    <2>4. Cardinality(Ahead') <= Cardinality(Ahead) /\ Cardinality(Ahead') \in Nat
      BY <1>0, <2>3, AheadFinite, FS_Subset, FS_CardinalityType
    <2> QED
      BY <1>0, <2>2, <2>4, AheadFinite DEF WorkLeft
  <1>3. ASSUME NEW n \in Nodes, NEW kind \in Kinds, ExecuteSucceeds(n, kind)
        PROVE  WorkLeft' < WorkLeft
    <2>1. /\ n \in Ids \ visited /\ queue # <<>>
          /\ visited' = visited \cup {n} /\ edges' = edges
      BY <1>0, <1>3, ExecutorSets DEF ExecuteSucceeds, Execute, Visit
    <2>2. PICK to \in SUBSET TargetsOf(n) :
            \E next \in SetToSeqs(to \ visited') : queue' = Tail(queue) \o next
      BY <1>3 DEF ExecuteSucceeds
    <2>3. PICK next \in SetToSeqs(to \ visited') : queue' = Tail(queue) \o next
      BY <2>2
    <2>4. to \ visited' \subseteq TargetsOf(n) /\ to \ visited' \subseteq Ids
      BY DEF TargetsOf
    <2>5. /\ IsFiniteSet(to \ visited')
          /\ Cardinality(Ahead') \in Nat
          /\ Cardinality(to \ visited') \in Nat
          /\ Cardinality(Ahead') + Cardinality(to \ visited') <= Cardinality(Ahead)
      BY <1>0, <2>1, <2>4, EdgesUsedUp
    <2>6. next \in Seq(Ids) /\ Len(next) = Cardinality(to \ visited')
      BY <2>4, <2>5, OrdersLength, SeqMonotonic
    <2>7. Tail(queue) \in Seq(Ids) /\ Len(Tail(queue)) = Len(queue) - 1
      BY <1>0, <2>1, HeadTailProperties DEF ExecutorType
    <2>8. Len(queue') = Len(queue) - 1 + Cardinality(to \ visited')
      BY <2>3, <2>6, <2>7, ConcatProperties
    <2> QED
      BY <1>0, <2>5, <2>8, AheadFinite DEF WorkLeft
  <1> QED
    BY <1>1, <1>2, <1>3 DEF WorkflowExecutorNext

(* No workflow runs for ever, whatever cycles its edges make: an id is put  *)
(* into the queue at most once for every edge.                              *)
THEOREM WorkflowsRunOut == ServicesSpec => WorkRunsOut
  <1>1. ServicesInit => ExecutorInv
    BY ServicesStart, ExecutorInit
  <1>2. ExecutorInv /\ [ServicesNext]_servicesVars => ExecutorInv'
    BY ServicesSteps, ExecutorNext
  <1>3. ExecutorInv => WorkLeft \in Nat
    BY AheadFinite DEF ExecutorInv
  <1>4. ExecutorInv /\ [ServicesNext]_servicesVars =>
          [WorkLeft' < WorkLeft \/ status' # "running"]_executorVars
    BY ServicesSteps, WorkShrinks
  <1>5. QED
    BY <1>1, <1>2, <1>3, <1>4, PTL DEF ServicesSpec, WorkRunsOut

===============================================================================
