------------------------------- MODULE McpGateway ------------------------------
(***************************************************************************)
(* One MCP connector: its row, written through the endpoints of            *)
(* api/v1/mcp.py, and the live instance of it that mcp/gateway.py keeps in *)
(* memory for all requests of the process.  Between two awaits a request   *)
(* runs alone.                                                             *)
(*                                                                         *)
(* The instance is made of the row by the first request that finds none,   *)
(* and thrown away by whoever updates or deletes the row, before that is   *)
(* committed.  register_connector also replaces an instance it finds; its  *)
(* one caller makes sure there is none, in the same step.                  *)
(*                                                                         *)
(* A configuration is known by its number: the row's first one is 0, and   *)
(* every update makes a new one.  is_active is left out: only the list of  *)
(* connectors reads it.  Also left out: the tenant check, the validation   *)
(* of arguments, and the records of a call (see ChatPipeline).  Overlaps   *)
(* are a history; MaxUpdates bounds the updates of a run, and the set of   *)
(* Instances those that are left open without being registered.            *)
(***************************************************************************)
EXTENDS Naturals

CONSTANTS
    Requests,   \* HTTP requests and chats worked on at a time
    Instances,  \* connector objects
    None,       \* no instance
    MaxUpdates  \* bound: updates of the configuration

ASSUME GatewayAssumption ==
    /\ None \notin Instances
    /\ MaxUpdates \in Nat

VARIABLES
    config,    \* the committed configuration
    made,      \* configurations made so far
    instance,  \* the connector objects
    entry,     \* _connectors: the registered instance, or None
    task,      \* what each request is doing
    overlaps   \* history: what was seen to overlap

vars == <<config, made, instance, entry, task, overlaps>>

\* "loaded": the row was read, to use the connector; "connecting": its instance
\* is being made; "checking": the tenant's permission is; "calling": the instance
\* is used.  "closing": the instance is disconnected, to update or delete the row;
\* "writing": the row is about to be; "written": it is, and locked.
Idle == [step |-> "idle"]
Uses == [step : {"loaded"}, config : 0..MaxUpdates]
          \cup [step : {"connecting", "calling"}, on : Instances]
          \cup [step : {"checking"}]
Writes == [step : {"closing"}, on : Instances, config : 0..MaxUpdates, delete : BOOLEAN]
            \cup [step : {"writing", "written"}, config : 0..MaxUpdates, delete : BOOLEAN]

States == {"closed", "connecting", "open", "closing"}

TypeOK ==
    /\ config \in 0..MaxUpdates
    /\ made \in 0..MaxUpdates
    /\ instance \in [Instances -> [state : States, config : 0..MaxUpdates]]
    /\ entry \in Instances \cup {None}
    /\ task \in [Requests -> {Idle} \cup Uses \cup Writes]
    /\ overlaps \subseteq {"registrations", "update"}

Init ==
    /\ config = 0
    /\ made = 0
    /\ instance = [i \in Instances |-> [state |-> "closed", config |-> 0]]
    /\ entry = None
    /\ task = [r \in Requests |-> Idle]
    /\ overlaps = {}

-----------------------------------------------------------------------------
At(r, steps) == task[r].step \in steps
Registering(r) == At(r, {"loaded", "connecting"})
Writing(r) == At(r, {"closing", "writing", "written"})

\* An object nobody holds: closed, and not in the hands of a call.
Fresh(i) ==
    /\ instance[i].state = "closed"
    /\ \A r \in Requests : At(r, {"calling"}) => task[r].on # i

\* What overlaps in a state: two requests that make an instance each, and one
\* that is on its way to make it with one that writes the row.
Overlaps(t) ==
    {o \in {"registrations", "update"} :
       \E r, s \in Requests :
         \/ /\ o = "registrations"
            /\ r # s
            /\ t[r].step = "connecting" /\ t[s].step = "connecting"
         \/ /\ o = "update"
            /\ t[r].step \in {"loaded", "connecting"}
            /\ t[s].step \in {"closing", "writing", "written"}}

\* The request goes on as t.
Becomes(r, t) ==
    /\ task' = [task EXCEPT ![r] = t]
    /\ overlaps' = overlaps \cup Overlaps(task')

Ends(r) ==
    /\ task' = [task EXCEPT ![r] = Idle]
    /\ UNCHANGED overlaps

\* The next step of a request that has an instance, or checks the permission.
Calling(i) == [step |-> "calling", on |-> i]
Checking == [step |-> "checking"]

-----------------------------------------------------------------------------
\* _get_connector_or_404, for the endpoints that use the connector.  A deleted
\* connector is found, too.
Load(r) ==
    /\ task[r] = Idle
    /\ Becomes(r, [step |-> "loaded", config |-> config])
    /\ UNCHANGED <<config, made, instance, entry>>

\* _resolve_mcp_tools and _execute_tool_calls use a connector by its id, and
\* make no instance of it.
UseInChat(r) ==
    /\ task[r] = Idle
    /\ Becomes(r, Checking)
    /\ UNCHANGED <<config, made, instance, entry>>

\* _ensure_registered finds an instance.  The endpoints that test it or list its
\* tools use it at once, the one that executes a tool checks the tenant first.
FindRegistered(r) ==
    /\ At(r, {"loaded"})
    /\ entry # None
    /\ \E t \in {Calling(entry), Checking} : Becomes(r, t)
    /\ UNCHANGED <<config, made, instance, entry>>

\* It finds none, and has register_connector make one of the row that was read,
\* which raises at once for an unknown type or a configuration with gaps.
Register(r) ==
    /\ At(r, {"loaded"})
    /\ entry = None
    /\ \/ /\ Ends(r)
          /\ UNCHANGED instance
       \/ \E i \in Instances :
            /\ Fresh(i)
            /\ instance' = [instance EXCEPT ![i] = [state |-> "connecting",
                                                    config |-> task[r].config]]
            /\ Becomes(r, [step |-> "connecting", on |-> i])
    /\ UNCHANGED <<config, made, entry>>

\* Mutant of Connected: the object is stored before it is connected.
StoreThenConnect(r) ==
    /\ At(r, {"connecting"})
    /\ entry' = task[r].on
    /\ Becomes(r, Checking)
    /\ UNCHANGED <<config, made, instance>>

\* connect returns, and the instance is stored, over the one another request may
\* have stored meanwhile.
Connected(r) ==
    /\ At(r, {"connecting"})
    /\ LET i == task[r].on
       IN  /\ instance' = [instance EXCEPT ![i].state = "open"]
           /\ entry' = i
           /\ \E t \in {Calling(i), Checking} : Becomes(r, t)
    /\ UNCHANGED <<config, made>>

\* Mutant of ConnectFails: the request tries again.
ConnectFailsRetries(r) ==
    /\ At(r, {"connecting"})
    /\ instance' = [instance EXCEPT ![task[r].on].state = "closed"]
    /\ Becomes(r, [step |-> "loaded", config |-> instance[task[r].on].config])
    /\ UNCHANGED <<config, made, entry>>

ConnectFails(r) ==
    /\ At(r, {"connecting"})
    /\ instance' = [instance EXCEPT ![task[r].on].state = "closed"]
    /\ Ends(r)
    /\ UNCHANGED <<config, made, entry>>

\* Mutant of Call: the instance is not looked up again.
CallUnchecked(r) ==
    /\ At(r, {"checking"})
    /\ Becomes(r, Calling(entry))
    /\ UNCHANGED <<config, made, instance, entry>>

\* The permission is checked, and the instance looked up again: there may be none.
Call(r) ==
    /\ At(r, {"checking"})
    /\ \/ entry = None /\ Ends(r)
       \/ entry # None /\ Becomes(r, Calling(entry))
    /\ UNCHANGED <<config, made, instance, entry>>

\* The tool answers, fails or times out.
EndCall(r) ==
    /\ At(r, {"calling"})
    /\ Ends(r)
    /\ UNCHANGED <<config, made, instance, entry>>

-----------------------------------------------------------------------------
\* Mutants of Unregister: the instance stays registered until it is disconnected;
\* it is removed and not disconnected; nothing is unregistered.
UnregisterKeepsEntry(r, delete) ==
    /\ task[r] = Idle
    /\ entry # None
    /\ instance' = [instance EXCEPT ![entry].state = "closing"]
    /\ Becomes(r, [step |-> "closing", on |-> entry, config |-> config, delete |-> delete])
    /\ UNCHANGED <<config, made, entry>>

UnregisterDrops(r, delete) ==
    /\ task[r] = Idle
    /\ entry' = None
    /\ Becomes(r, [step |-> "writing", config |-> config, delete |-> delete])
    /\ UNCHANGED <<config, made, instance>>

UnregisterNot(r, delete) ==
    /\ task[r] = Idle
    /\ delete \/ made < MaxUpdates
    /\ made' = IF delete THEN made ELSE made + 1
    /\ Becomes(r, [step |-> "writing", config |-> made', delete |-> delete])
    /\ UNCHANGED <<config, instance, entry>>

\* update_connector and delete_connector, from the row they read to the first
\* await of unregister_connector.
Unregister(r, delete) ==
    /\ task[r] = Idle
    /\ delete \/ made < MaxUpdates
    /\ made' = IF delete THEN made ELSE made + 1
    /\ entry' = None
    /\ \/ /\ entry # None
          /\ instance' = [instance EXCEPT ![entry].state = "closing"]
          /\ Becomes(r, [step |-> "closing", on |-> entry, config |-> made', delete |-> delete])
       \/ /\ entry = None
          /\ UNCHANGED instance
          /\ Becomes(r, [step |-> "writing", config |-> made', delete |-> delete])
    /\ UNCHANGED config

\* disconnect returns, or raises, which is logged.  Calls in flight on the
\* instance end with an error.
Disconnected(r) ==
    /\ At(r, {"closing"})
    /\ instance' = [instance EXCEPT ![task[r].on].state = "closed"]
    /\ Becomes(r, [step |-> "writing", config |-> task[r].config, delete |-> task[r].delete])
    /\ UNCHANGED <<config, made, entry>>

\* The row is flushed, when no other request has it locked.
Write(r) ==
    /\ At(r, {"writing"})
    /\ \A s \in Requests : ~At(s, {"written"})
    /\ Becomes(r, [task[r] EXCEPT !.step = "written"])
    /\ UNCHANGED <<config, made, instance, entry>>

\* get_db commits.  A deletion writes is_active only.
Commit(r) ==
    /\ At(r, {"written"})
    /\ config' = IF task[r].delete THEN config ELSE task[r].config
    /\ Ends(r)
    /\ UNCHANGED <<made, instance, entry>>

\* The database fails: the row stays as it was.
Abort(r) ==
    /\ At(r, {"writing", "written"})
    /\ Ends(r)
    /\ UNCHANGED <<config, made, instance, entry>>

Work(r) ==
    \/ FindRegistered(r) \/ Register(r) \/ Connected(r) \/ ConnectFails(r)
    \/ Call(r) \/ EndCall(r)
    \/ Disconnected(r) \/ Write(r) \/ Commit(r) \/ Abort(r)

Next ==
    \E r \in Requests :
      \/ Load(r) \/ UseInChat(r)
      \/ \E delete \in BOOLEAN : Unregister(r, delete)
      \/ Work(r)

\* Connectors have timeouts, and so has the database.
Fairness == \A r \in Requests : WF_vars(Work(r))

Spec == Init /\ [][Next]_vars /\ Fairness

-----------------------------------------------------------------------------
(* Properties *)

\* The registry never hands out an instance that is not connected, or that is
\* being disconnected: whoever closes one has taken it out before.
RegisteredIsOpen == entry # None => instance[entry].state = "open"

\* An instance is connected or disconnected by one request at a time, however
\* many find it missing, or update and delete its row, together.
OneOwner ==
    \A r, s \in Requests :
        r # s /\ At(r, {"connecting", "closing"}) /\ At(s, {"connecting", "closing"})
          => task[r].on # task[s].on

\* update_connector unregisters the connector to "force re-registration on next
\* use".  So it does, unless a request read the row before the update was
\* committed and registered it while or after it was unregistered: without such
\* a race the registered instance has the committed configuration.
StaleOnlyAfterRace ==
    entry # None /\ instance[entry].config # config => "update" \in overlaps

\* An instance that is open without being registered will never be closed: this
\* takes two requests that found none and made one each.
StrandedOnlyAfterRace ==
    \A i \in Instances :
        instance[i].state = "open" /\ i # entry => "registrations" \in overlaps

\* What a request gets from the registry it can use, and nobody else closes it; it
\* may be outdated, or leave others stranded, after one of those races only.
RegistryIsSound == RegisteredIsOpen /\ OneOwner
RacesAlone == StaleOnlyAfterRace /\ StrandedOnlyAfterRace

\* Every request ends: neither a lock nor a disconnect waits for ever.
TaskEnds == \A r \in Requests : task[r] # Idle ~> task[r] = Idle

=============================================================================
