------------------------------ MODULE AgentsPage ------------------------------
(***************************************************************************)
(* The agents page of the web client: the agents listed as cards, the      *)
(* drawer that edits one or makes a new one, and the dialog that asks      *)
(* before one is deleted.  The drawer slides in, and loads its form when   *)
(* it has: until then the form holds what was in it before.  A handler     *)
(* runs up to its await in one step and after it in another; a request may *)
(* fail before or after it is served.                                      *)
(*                                                                         *)
(* An agent is an id and whose values it holds: those it was loaded with,  *)
(* or NoAgent for what was typed into a blank form.  What the user changes *)
(* in a form is left out, as are the templates, the lists the drawer       *)
(* offers, and the button that opens a chat.  MaxAgentClicks bounds what   *)
(* the user does.                                                          *)
(***************************************************************************)
EXTENDS Naturals

CONSTANTS Agents, ExistingAgents, NoAgent, MaxAgentClicks

ASSUME AgentsPageAssumption ==
    /\ ExistingAgents \subseteq Agents
    /\ NoAgent \notin Agents
    /\ MaxAgentClicks \in Nat

VARIABLES
    agentsListed,  \* agents, and whether they are hidden (loading)
    editor,        \* the drawer: open, slid in, and editingAgent
    editorForm,    \* whose values the form holds
    agentConfirm,  \* the agent that is to be deleted if the user says so
    agentsAsked,   \* the requests in flight
    agentsStored,  \* the server: its agents
    agentsUsed,    \* and the ids it has given out
    agentClicks,   \* what the user has done so far
    agentsMissed,  \* history: an answer was lost, or came out of order
    agentsHasty    \* history: the user saved before the drawer had slid in

agentsPage == <<agentsListed, editor, editorForm, agentConfirm>>
agentsServer == <<agentsStored, agentsUsed>>
agentsHistory == <<agentsMissed, agentsHasty>>
agentsVars == <<agentsPage, agentsAsked, agentsServer, agentClicks, agentsHistory>>

Agent(a, of) == [id |-> a, of |-> of]
Blank == Agent(NoAgent, NoAgent)
-----------------------------------------------------------------------------
(* What the page offers: the drawer and the dialog cover the cards.        *)

AgentCards ==
    IF agentsListed.loading \/ editor.open \/ agentConfirm # NoAgent
    THEN {} ELSE agentsListed.rows

\* The drawer and its buttons, which are there from the moment it slides in.
DrawerShown == editor.open

AgentClick == agentClicks < MaxAgentClicks /\ agentClicks' = agentClicks + 1

AgentRequest(kind, a, of) ==
    [n |-> agentClicks, kind |-> kind, phase |-> "sent", id |-> a, of |-> of,
     answer |-> {}, old |-> FALSE]

AgentAsk(kind, a, of) == agentsAsked' = agentsAsked \cup {AgentRequest(kind, a, of)}

\* handleCreate and handleEdit open the drawer.
OpenEditor(x) ==
    /\ AgentClick
    /\ ~editor.open /\ agentConfirm = NoAgent
    /\ x \in AgentCards \cup {Blank}
    /\ editor' = [open |-> TRUE, slid |-> FALSE, agent |-> x]
    /\ UNCHANGED <<agentsListed, editorForm, agentConfirm, agentsAsked, agentsServer,
                   agentsHistory>>

\* afterOpenChange: the agent as it was listed when the drawer was opened, or blank.
HandleOpen ==
    /\ editor.open /\ ~editor.slid
    /\ editor' = [editor EXCEPT !.slid = TRUE]
    /\ editorForm' = editor.agent.of
    /\ UNCHANGED <<agentsListed, agentConfirm, agentsAsked, agentsServer, agentClicks,
                   agentsHistory>>

CloseEditor ==
    /\ AgentClick
    /\ DrawerShown
    /\ editor' = [editor EXCEPT !.open = FALSE]
    /\ UNCHANGED <<agentsListed, editorForm, agentConfirm, agentsAsked, agentsServer,
                   agentsHistory>>

\* handleSave.  The button stays enabled while a request is in flight.
HandleSaveAgent ==
    /\ AgentClick
    /\ DrawerShown
    /\ IF editor.agent # Blank
       THEN AgentAsk("update", editor.agent.id, editorForm) /\ UNCHANGED agentsUsed
       ELSE \E a \in Agents \ agentsUsed :
              AgentAsk("create", a, editorForm) /\ agentsUsed' = agentsUsed \cup {a}
    /\ agentsHasty' = (agentsHasty \/ ~editor.slid)
    /\ UNCHANGED <<agentsPage, agentsStored, agentsMissed>>

HandleDeleteAgent(x) ==
    /\ AgentClick
    /\ x \in AgentCards
    /\ agentConfirm' = x.id
    /\ UNCHANGED <<agentsListed, editor, editorForm, agentsAsked, agentsServer,
                   agentsHistory>>

\* The dialog waits for the answer unless the user closes it, and asks once.
ConfirmDeleteAgent ==
    /\ AgentClick
    /\ agentConfirm # NoAgent
    /\ ~\E r \in agentsAsked : r.kind = "delete" /\ r.id = agentConfirm
    /\ AgentAsk("delete", agentConfirm, NoAgent)
    /\ UNCHANGED <<agentsPage, agentsServer, agentsHistory>>

CloseAgentConfirm ==
    /\ AgentClick
    /\ agentConfirm # NoAgent
    /\ agentConfirm' = NoAgent
    /\ UNCHANGED <<agentsListed, editor, editorForm, agentsAsked, agentsServer,
                   agentsHistory>>
-----------------------------------------------------------------------------
(* The server.  A deleted agent keeps its row, which is found and changed  *)
(* like any other, and not listed.  A change is made for good some time    *)
(* after it is answered; the list is read once, so that nothing is read    *)
(* between.                                                                *)

\* A change makes those made to the same agent before it old.
AgentsChanged(r) ==
    {IF q.id = r.id /\ q.phase = "served" THEN [q EXCEPT !.old = TRUE] ELSE q :
        q \in agentsAsked \ {r}}
      \cup {[r EXCEPT !.phase = "served"]}

AgentsServe(r) ==
    /\ r.phase = "sent"
    /\ \/ /\ r.kind = "list"
          /\ agentsAsked' = (agentsAsked \ {r}) \cup
                 {[r EXCEPT !.phase = "served", !.answer = agentsStored]}
          /\ UNCHANGED agentsStored
       \/ /\ r.kind = "create"
          /\ agentsAsked' = AgentsChanged(r)
          /\ agentsStored' = agentsStored \cup {Agent(r.id, r.of)}
       \/ /\ r.kind = "update"
          /\ agentsAsked' = AgentsChanged(r)
          /\ agentsStored' = {IF x.id = r.id THEN Agent(r.id, r.of) ELSE x :
                                 x \in agentsStored}
       \/ /\ r.kind = "delete"
          /\ agentsAsked' = AgentsChanged(r)
          /\ agentsStored' = {x \in agentsStored : x.id # r.id}
    /\ UNCHANGED <<agentsPage, agentsUsed, agentClicks, agentsHistory>>
-----------------------------------------------------------------------------
(* The handlers after their await.                                         *)

AgentAnswered(r, kind) ==
    /\ r.kind = kind /\ r.phase = "served"
    /\ agentsAsked' = agentsAsked \ {r}
    /\ UNCHANGED <<editorForm, agentsServer, agentClicks, agentsHasty>>

\* A change is answered before the list is, or while the answer to another
\* change of the same agent, which was not the last, is still on its way.
AgentsOvertakes(r) ==
    \E q \in agentsAsked \ {r} :
        q.kind = "list" \/ (q.old /\ q.id = r.id)

FinishLoadAgents(r) ==
    /\ AgentAnswered(r, "list")
    /\ agentsListed' = [rows |-> r.answer, loading |-> FALSE]
    /\ UNCHANGED <<editor, agentConfirm, agentsMissed>>

\* Saving closes the drawer, also one opened since.
FinishSaveAgent(r) ==
    /\ \/ /\ AgentAnswered(r, "update")
          /\ agentsListed' = [agentsListed EXCEPT !.rows =
                  {IF x.id = r.id THEN Agent(r.id, r.of) ELSE x : x \in @}]
       \/ /\ AgentAnswered(r, "create")
          /\ agentsListed' = [agentsListed EXCEPT !.rows = @ \cup {Agent(r.id, r.of)}]
    /\ editor' = [editor EXCEPT !.open = FALSE]
    /\ agentsMissed' = (agentsMissed \/ AgentsOvertakes(r))
    /\ UNCHANGED agentConfirm

FinishDeleteAgent(r) ==
    /\ AgentAnswered(r, "delete")
    /\ agentsListed' = [agentsListed EXCEPT !.rows = {x \in @ : x.id # r.id}]
    /\ agentConfirm' = IF agentConfirm = r.id THEN NoAgent ELSE agentConfirm
    /\ agentsMissed' = (agentsMissed \/ AgentsOvertakes(r))
    /\ UNCHANGED editor

FailAgentRequest(r) ==
    /\ agentsAsked' = agentsAsked \ {r}
    /\ agentsListed' = [agentsListed EXCEPT !.loading = @ /\ r.kind # "list"]
    /\ agentConfirm' = IF r.kind = "delete" /\ agentConfirm = r.id THEN NoAgent
                       ELSE agentConfirm
    /\ agentsMissed' = (agentsMissed \/ r.kind = "list" \/ r.phase = "served")
    /\ UNCHANGED <<editor, editorForm, agentsServer, agentClicks, agentsHasty>>
-----------------------------------------------------------------------------
AgentsPageInit ==
    /\ agentsListed = [rows |-> {}, loading |-> TRUE]
    /\ editor = [open |-> FALSE, slid |-> FALSE, agent |-> Blank]
    /\ editorForm = NoAgent
    /\ agentConfirm = NoAgent
    /\ agentsUsed = ExistingAgents
    /\ agentsStored = {Agent(a, a) : a \in ExistingAgents}
    /\ agentClicks = 0
    /\ agentsAsked = {AgentRequest("list", NoAgent, NoAgent)}
    /\ agentsMissed = FALSE
    /\ agentsHasty = FALSE

AgentsPageNext ==
    \/ \E x \in agentsListed.rows \cup {Blank} : OpenEditor(x)
    \/ HandleOpen \/ CloseEditor \/ HandleSaveAgent
    \/ \E x \in agentsListed.rows : HandleDeleteAgent(x)
    \/ ConfirmDeleteAgent \/ CloseAgentConfirm
    \/ \E r \in agentsAsked :
          \/ AgentsServe(r)
          \/ FinishLoadAgents(r) \/ FinishSaveAgent(r) \/ FinishDeleteAgent(r)
          \/ FailAgentRequest(r)

AgentsPageSpec == AgentsPageInit /\ [][AgentsPageNext]_agentsVars
-----------------------------------------------------------------------------
(* No agent is stored with the values of another, unless the user saved    *)
(* before the drawer had slid in and the form been loaded.                 *)
SavedAgentsAreOwn ==
    ~agentsHasty => \A x \in agentsStored : x.of \in {x.id, NoAgent}

(* When nothing is in flight the cards are those of the agents the server  *)
(* has, unless an answer was lost, or the answer to a change arrived       *)
(* before the list or, where changes of the same agent overlapped, before  *)
(* that to one that was not the last.                                      *)
AgentsListIsStored ==
    agentsAsked = {} /\ ~agentsMissed => agentsListed.rows = agentsStored
=============================================================================
