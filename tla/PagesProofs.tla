----------------------------- MODULE PagesProofs -----------------------------
(***************************************************************************)
(* Proofs about pages of the web client, for any ids and any number of     *)
(* clicks: what is saved belongs to what it is saved as, and what is shown *)
(* belongs to what was chosen, however handlers overlap.  It holds of the  *)
(* client as a whole because a step of the client is one of the page that  *)
(* is visited, and leaves every other alone.                               *)
(***************************************************************************)
EXTENDS WebApp, FunctionTheorems, FiniteSetTheorems, TLAPS

-----------------------------------------------------------------------------
(* SearchBox.  A box that was emptied awaits nothing but its emptying.     *)

PendingTypes == debounced \in {<<>>} \cup {<<v>> : v \in Texts \cup {NoText}}

PendingEmptied == debounced = <<NoText>> => searchValue = NoText

SearchInv == PendingTypes /\ PendingEmptied /\ ResultsBelongToText

LEMMA SearchInit == SearchBoxInit => SearchInv
  BY DEF SearchBoxInit, SearchInv, PendingTypes, PendingEmptied, ResultsBelongToText

LEMMA SearchNext == SearchInv /\ [SearchBoxNext]_searchVars => SearchInv'
  <1>1. SUFFICES ASSUME SearchInv, [SearchBoxNext]_searchVars PROVE SearchInv'
    OBVIOUS
  <1> USE DEF SearchInv, PendingTypes, PendingEmptied, ResultsBelongToText
  <1>2. ASSUME NEW v \in Texts \cup {NoText}, HandleSearchChange(v)
        PROVE  SearchInv'
    <2>1. debounced' = <<v>> /\ searchValue' = v
      BY <1>2 DEF HandleSearchChange
    <2>2. <<v>> # <<>> /\ (<<v>> = <<NoText>> => v = NoText)
      OBVIOUS
    <2>3. PendingTypes'
      BY <2>1 DEF PendingTypes
    <2>4. PendingEmptied' /\ ResultsBelongToText'
      BY <2>1, <2>2 DEF PendingEmptied, ResultsBelongToText
    <2>5. QED
      BY <2>3, <2>4
  <1>3. CASE HandleSearchResultClick
    BY <1>1, <1>3 DEF HandleSearchResultClick
  <1>4. CASE HandleClickOutside \/ FocusSearch \/ UNCHANGED searchVars
    BY <1>1, <1>4 DEF HandleClickOutside, FocusSearch, searchVars, searchShown
  <1>5. CASE DebouncedSearch
    <2>1. PICK v \in Texts \cup {NoText} : debounced = <<v>>
      BY <1>1, <1>5 DEF DebouncedSearch
    <2>2. debounced[1] = v /\ debounced' = <<>> /\ searchValue' = searchValue
      BY <1>5, <2>1 DEF DebouncedSearch
    <2>3. CASE v = NoText
      BY <1>1, <1>5, <2>1, <2>2, <2>3 DEF DebouncedSearch, ClearResults
    <2>4. CASE v # NoText
      <3>1. searchAsked' = searchAsked \cup {[n |-> searchSteps, q |-> v]}
        BY <1>5, <2>1, <2>2, <2>4 DEF DebouncedSearch
      <3>2. searchAsked' # {} /\ debounced' = <<>> /\ <<>> # <<NoText>>
        BY <2>2, <3>1
      <3>3. QED
        BY <3>2
    <2>5. QED
      BY <2>3, <2>4
  <1>6. ASSUME NEW r \in searchAsked, FinishSearchBox(r) \/ FailSearchBox(r)
        PROVE  SearchInv'
    BY <1>1, <1>6 DEF FinishSearchBox, FailSearchBox, SearchAnswered
  <1>7. QED
    BY <1>1, <1>2, <1>3, <1>4, <1>5, <1>6 DEF SearchBoxNext

(* Once nothing is awaited the results are those of the text in the box,   *)
(* unless an answer was lost or came too late for it.                      *)
THEOREM ResultsBelong == SearchBoxSpec => []ResultsBelongToText
  BY SearchInit, SearchNext, PTL DEF SearchBoxSpec, SearchInv

-----------------------------------------------------------------------------
(* AgentsPage.  Before a hasty save, every copy of an agent is its own.    *)

AgentRecords == [id : Agents, of : Agents \cup {NoAgent}]

AgentRequests ==
    [n : Nat, kind : {"list", "create", "update", "delete"}, phase : {"sent", "served"},
     id : Agents \cup {NoAgent}, of : Agents \cup {NoAgent}, answer : SUBSET AgentRecords,
     old : BOOLEAN]

AgentTypes ==
    /\ agentsListed \in [rows : SUBSET AgentRecords, loading : BOOLEAN]
    /\ editor \in [open : BOOLEAN, slid : BOOLEAN, agent : AgentRecords \cup {Blank}]
    /\ editorForm \in Agents \cup {NoAgent}
    /\ agentConfirm \in Agents \cup {NoAgent}
    /\ agentsAsked \subseteq AgentRequests
    /\ \A r \in agentsAsked : r.kind \in {"create", "update"} => r.id \in Agents
    /\ agentsStored \subseteq AgentRecords
    /\ agentClicks \in Nat

OwnValues(x) == x.of \in {x.id, NoAgent}

\* The form is loaded when the drawer has slid in, and kept.
FormLoaded == editor.slid => editorForm = editor.agent.of

AllOwn ==
    ~agentsHasty =>
        /\ \A x \in agentsListed.rows : OwnValues(x)
        /\ OwnValues(editor.agent)
        /\ \A r \in agentsAsked :
              /\ r.kind \in {"create", "update"} => OwnValues(r)
              /\ \A x \in r.answer : OwnValues(x)
        /\ \A x \in agentsStored : OwnValues(x)

AgentsInv == AgentTypes /\ FormLoaded /\ AllOwn

LEMMA AgentsInit == AgentsPageInit => AgentsInv
  <1>1. SUFFICES ASSUME AgentsPageInit PROVE AgentsInv
    OBVIOUS
  <1>2. AgentTypes
    BY <1>1, AgentsPageAssumption
       DEF AgentsPageInit, AgentTypes, AgentRecords, AgentRequests, AgentRequest, Agent,
           Blank
  <1>3. FormLoaded /\ AllOwn
    BY <1>1 DEF AgentsPageInit, FormLoaded, AllOwn, OwnValues, AgentRequest, Agent, Blank
  <1>4. QED
    BY <1>2, <1>3 DEF AgentsInv

\* A request that is made for an agent, or for a new one, with values of its own.
LEMMA AgentsAsking ==
  ASSUME AgentsInv, NEW kind \in {"create", "update", "delete"}, NEW a \in Agents,
         NEW of \in Agents \cup {NoAgent},
         AgentAsk(kind, a, of), UNCHANGED <<agentsPage, agentsStored>>,
         agentClicks' \in Nat, agentsHasty => agentsHasty',
         kind # "delete" /\ ~agentsHasty' => of \in {a, NoAgent}
  PROVE  AgentsInv'
  <1> DEFINE r == AgentRequest(kind, a, of)
  <1>1. r \in AgentRequests
    BY DEF AgentsInv, AgentTypes, AgentRequests, AgentRequest
  <1>2. /\ r.kind = kind /\ r.id = a /\ r.of = of /\ r.answer = {}
        /\ agentsAsked' = agentsAsked \cup {r}
    BY DEF AgentRequest, AgentAsk
  <1>3. UNCHANGED <<agentsListed, editor, editorForm, agentConfirm, agentsStored>>
    BY DEF agentsPage
  <1> HIDE DEF r
  <1>4. AgentTypes'
    BY <1>1, <1>2, <1>3 DEF AgentsInv, AgentTypes
  <1>5. FormLoaded'
    BY <1>3 DEF AgentsInv, FormLoaded
  <1>6. AllOwn'
    BY <1>2, <1>3 DEF AgentsInv, AllOwn, OwnValues
  <1>7. QED
    BY <1>4, <1>5, <1>6 DEF AgentsInv

\* An answered or failed request, whose answer or agent may now be listed.
LEMMA AgentsAnswered ==
  ASSUME AgentsInv, NEW r \in agentsAsked, agentsAsked' = agentsAsked \ {r},
         UNCHANGED <<editorForm, agentsStored, agentClicks, agentsHasty>>,
         agentsListed' \in [rows : SUBSET AgentRecords, loading : BOOLEAN],
         \A x \in agentsListed'.rows :
             \/ x \in agentsListed.rows \cup r.answer
             \/ r.kind \in {"create", "update"} /\ x = Agent(r.id, r.of),
         agentConfirm' \in {agentConfirm, NoAgent},
         editor' \in {editor, [editor EXCEPT !.open = FALSE]}
  PROVE  AgentsInv'
  <1>1. /\ editor'.slid = editor.slid /\ editor'.agent = editor.agent
        /\ editor' \in [open : BOOLEAN, slid : BOOLEAN, agent : AgentRecords \cup {Blank}]
    <2>1. editor \in [open : BOOLEAN, slid : BOOLEAN, agent : AgentRecords \cup {Blank}]
      BY DEF AgentsInv, AgentTypes
    <2>2. editor' = editor
            \/ editor' = [open |-> FALSE, slid |-> editor.slid, agent |-> editor.agent]
      BY <2>1
    <2>3. QED
      BY <2>1, <2>2
  <1>2. AgentTypes'
    BY <1>1 DEF AgentsInv, AgentTypes
  <1>3. FormLoaded'
    BY <1>1 DEF AgentsInv, FormLoaded
  <1>4. AllOwn'
    <2>1. SUFFICES ASSUME ~agentsHasty PROVE AllOwn'
      BY DEF AllOwn
    <2>2. ASSUME NEW x \in agentsListed'.rows PROVE OwnValues(x)
      BY <2>1 DEF AgentsInv, AllOwn, OwnValues, Agent
    <2>3. QED
      BY <1>1, <2>1, <2>2 DEF AgentsInv, AllOwn, OwnValues
  <1>5. QED
    BY <1>2, <1>3, <1>4 DEF AgentsInv

LEMMA AgentsNext == AgentsInv /\ [AgentsPageNext]_agentsVars => AgentsInv'
  <1>1. SUFFICES ASSUME AgentsInv, [AgentsPageNext]_agentsVars PROVE AgentsInv'
    OBVIOUS
  <1> USE DEF AgentsInv
  <1>2. ASSUME NEW x \in agentsListed.rows \cup {Blank}, OpenEditor(x)
        PROVE  AgentsInv'
    <2>1. x \in AgentRecords \cup {Blank} /\ (~agentsHasty => OwnValues(x))
      BY <1>1 DEF AgentTypes, AllOwn, OwnValues, Blank, Agent
    <2>2. editor' = [open |-> TRUE, slid |-> FALSE, agent |-> x]
      BY <1>2 DEF OpenEditor
    <2>3. AgentTypes'
      BY <1>1, <1>2, <2>1, <2>2 DEF OpenEditor, AgentTypes, AgentClick, agentsServer
    <2>4. FormLoaded' /\ AllOwn'
      BY <1>1, <1>2, <2>1, <2>2 DEF OpenEditor, FormLoaded, AllOwn, OwnValues, agentsServer,
         agentsHistory
    <2>5. QED
      BY <2>3, <2>4
  <1>3. CASE HandleOpen
    <2>1. editor.agent.of \in Agents \cup {NoAgent}
      BY <1>1 DEF AgentTypes, AgentRecords, Blank, Agent
    <2>2. editor' = [open |-> editor.open, slid |-> TRUE, agent |-> editor.agent]
      BY <1>1, <1>3 DEF HandleOpen, AgentTypes
    <2>3. editor' \in [open : BOOLEAN, slid : BOOLEAN, agent : AgentRecords \cup {Blank}]
      BY <1>1, <2>2 DEF AgentTypes
    <2>4. AgentTypes'
      BY <1>1, <1>3, <2>1, <2>3 DEF HandleOpen, AgentTypes, agentsServer
    <2>5. FormLoaded' /\ AllOwn'
      BY <1>1, <1>3, <2>2 DEF HandleOpen, FormLoaded, AllOwn, OwnValues, agentsServer,
         agentsHistory
    <2>6. QED
      BY <2>4, <2>5
  <1>4. CASE CloseEditor
    <2>1. editor' = [open |-> FALSE, slid |-> editor.slid, agent |-> editor.agent]
      BY <1>1, <1>4 DEF CloseEditor, AgentTypes
    <2>2. editor' \in [open : BOOLEAN, slid : BOOLEAN, agent : AgentRecords \cup {Blank}]
      BY <1>1, <2>1 DEF AgentTypes
    <2>3. AgentTypes'
      BY <1>1, <1>4, <2>2 DEF CloseEditor, AgentTypes, AgentClick, agentsServer
    <2>4. FormLoaded' /\ AllOwn'
      BY <1>1, <1>4, <2>1 DEF CloseEditor, FormLoaded, AllOwn, OwnValues, agentsServer,
         agentsHistory
    <2>5. QED
      BY <2>3, <2>4
  <1>5. CASE HandleSaveAgent
    <2>1. /\ UNCHANGED <<agentsPage, agentsStored>> /\ agentClicks' \in Nat
          /\ agentsHasty' = (agentsHasty \/ ~editor.slid)
          /\ editorForm \in Agents \cup {NoAgent}
      BY <1>1, <1>5 DEF HandleSaveAgent, AgentClick, AgentTypes
    <2>2. ~agentsHasty' => editorForm = editor.agent.of /\ OwnValues(editor.agent)
      BY <1>1, <2>1 DEF FormLoaded, AllOwn
    <2>3. CASE editor.agent # Blank
      <3>1. editor.agent.id \in Agents
        BY <1>1, <2>3 DEF AgentTypes, AgentRecords
      <3>2. AgentAsk("update", editor.agent.id, editorForm)
        BY <1>5, <2>3 DEF HandleSaveAgent
      <3>3. ~agentsHasty' => editorForm \in {editor.agent.id, NoAgent}
        BY <2>2 DEF OwnValues
      <3>4. QED
        BY <1>1, <2>1, <3>1, <3>2, <3>3, AgentsAsking
    <2>4. CASE editor.agent = Blank
      <3>1. PICK a \in Agents : AgentAsk("create", a, editorForm)
        BY <1>5, <2>4 DEF HandleSaveAgent
      <3>2. ~agentsHasty' => editorForm \in {a, NoAgent}
        BY <2>2, <2>4 DEF Blank, Agent
      <3>3. QED
        BY <1>1, <2>1, <3>1, <3>2, AgentsAsking
    <2>5. QED
      BY <2>3, <2>4
  <1>6. ASSUME NEW x \in agentsListed.rows, HandleDeleteAgent(x)
        PROVE  AgentsInv'
    <2>1. x.id \in Agents
      BY <1>1 DEF AgentTypes, AgentRecords
    <2>2. AgentTypes'
      BY <1>1, <1>6, <2>1 DEF HandleDeleteAgent, AgentTypes, AgentClick, agentsServer
    <2>3. FormLoaded' /\ AllOwn'
      BY <1>1, <1>6 DEF HandleDeleteAgent, FormLoaded, AllOwn, OwnValues, agentsServer,
         agentsHistory
    <2>4. QED
      BY <2>2, <2>3
  <1>7. CASE ConfirmDeleteAgent
    <2>1. /\ agentConfirm \in Agents /\ AgentAsk("delete", agentConfirm, NoAgent)
          /\ UNCHANGED <<agentsPage, agentsStored, agentsHasty>> /\ agentClicks' \in Nat
      BY <1>1, <1>7 DEF ConfirmDeleteAgent, AgentClick, AgentTypes, agentsServer,
                        agentsHistory
    <2>2. QED
      BY <1>1, <2>1, AgentsAsking
  <1>8. CASE CloseAgentConfirm
    <2>1. AgentTypes'
      BY <1>1, <1>8 DEF CloseAgentConfirm, AgentTypes, AgentClick, agentsServer
    <2>2. FormLoaded' /\ AllOwn'
      BY <1>1, <1>8 DEF CloseAgentConfirm, FormLoaded, AllOwn, OwnValues, agentsServer,
         agentsHistory
    <2>3. QED
      BY <2>1, <2>2
  <1>9. ASSUME NEW r \in agentsAsked, AgentsServe(r)
        PROVE  AgentsInv'
    <2> DEFINE t == [r EXCEPT !.phase = "served"]
               Old(x) == [x EXCEPT !.old = TRUE]
               As(q, x) == /\ q \in AgentRequests /\ q.kind = x.kind /\ q.id = x.id
                           /\ q.of = x.of
                           /\ q.answer = x.answer \/ q.answer = agentsStored
    <2>1. r \in AgentRequests
      BY <1>1 DEF AgentTypes
    <2>2. \A q \in agentsAsked' : \E x \in agentsAsked : As(q, x)
      <3>1. CASE r.kind = "list"
        <4> DEFINE s == [r EXCEPT !.phase = "served", !.answer = agentsStored]
        <4>1. As(s, r)
          BY <1>1, <2>1 DEF AgentRequests, AgentTypes
        <4>2. agentsAsked' = (agentsAsked \ {r}) \cup {s}
          BY <1>9, <3>1 DEF AgentsServe
        <4>3. \A x \in agentsAsked : As(x, x)
          BY <1>1 DEF AgentTypes
        <4> HIDE DEF s, As
        <4>4. QED
          BY <4>1, <4>2, <4>3
      <3>2. CASE r.kind # "list"
        <4>1. agentsAsked' =
                {IF x.id = r.id /\ x.phase = "served" THEN Old(x) ELSE x :
                    x \in agentsAsked \ {r}} \cup {t}
          BY <1>9, <3>2 DEF AgentsServe, AgentsChanged
        <4>2. \A x \in agentsAsked : As(x, x) /\ As(Old(x), x)
          BY <1>1 DEF AgentTypes, AgentRequests
        <4>3. As(t, r)
          BY <2>1 DEF AgentRequests
        <4> HIDE DEF t, As, Old
        <4>4. QED
          BY <4>1, <4>2, <4>3
      <3>3. QED
        BY <3>1, <3>2
    <2>4. UNCHANGED <<agentsListed, editor, editorForm, agentConfirm, agentClicks,
                      agentsHasty>>
      BY <1>9 DEF AgentsServe, agentsPage, agentsHistory
    <2>5. agentsStored' \subseteq agentsStored \cup {Agent(r.id, r.of)}
      BY <1>9 DEF AgentsServe
    <2>6. agentsStored' # agentsStored =>
            r.kind \in {"create", "update"} \/ agentsStored' \subseteq agentsStored
      BY <1>9 DEF AgentsServe
    <2>7. agentsStored' \subseteq AgentRecords
      BY <1>1, <2>1, <2>5, <2>6 DEF AgentTypes, AgentRecords, AgentRequests, Agent
    <2>8. AgentTypes'
      BY <1>1, <2>2, <2>4, <2>7 DEF AgentTypes
    <2>9. AllOwn'
      <3>1. SUFFICES ASSUME ~agentsHasty PROVE AllOwn'
        BY <2>4 DEF AllOwn
      <3>2. \A q \in agentsAsked' :
              /\ q.kind \in {"create", "update"} => OwnValues(q)
              /\ \A x \in q.answer : OwnValues(x)
        BY <1>1, <2>2, <3>1 DEF AllOwn, OwnValues
      <3>3. \A x \in agentsStored' : OwnValues(x)
        BY <1>1, <2>5, <2>6, <3>1 DEF AllOwn, OwnValues, Agent
      <3>4. QED
        BY <1>1, <2>4, <3>1, <3>2, <3>3 DEF AllOwn, OwnValues
    <2>10. QED
      BY <1>1, <2>4, <2>8, <2>9 DEF FormLoaded
  <1>10. ASSUME NEW r \in agentsAsked, FinishLoadAgents(r)
         PROVE  AgentsInv'
    <2>1. r \in AgentRequests
      BY <1>1 DEF AgentTypes
    <2>2. r.answer \subseteq AgentRecords
      BY <2>1 DEF AgentRequests
    <2>3. agentsListed' = [rows |-> r.answer, loading |-> FALSE]
      BY <1>10 DEF FinishLoadAgents
    <2>4. agentConfirm' = agentConfirm /\ editor' = editor
      BY <1>10 DEF FinishLoadAgents
    <2>5. QED
      BY <1>1, <1>10, <2>2, <2>3, <2>4, AgentsAnswered
         DEF FinishLoadAgents, AgentAnswered, agentsServer
  <1>11. ASSUME NEW r \in agentsAsked, FinishSaveAgent(r)
         PROVE  AgentsInv'
    <2>1. /\ r.kind \in {"create", "update"} /\ agentsAsked' = agentsAsked \ {r}
          /\ UNCHANGED <<editorForm, agentsStored, agentClicks, agentsHasty>>
          /\ agentConfirm' = agentConfirm
          /\ editor' = [editor EXCEPT !.open = FALSE]
      BY <1>11 DEF FinishSaveAgent, AgentAnswered, agentsServer
    <2>2. Agent(r.id, r.of) \in AgentRecords
      BY <1>1, <2>1 DEF AgentTypes, AgentRequests, AgentRecords, Agent
    <2>3. PICK rows \in SUBSET (agentsListed.rows \cup {Agent(r.id, r.of)}) :
              agentsListed' = [agentsListed EXCEPT !.rows = rows]
      BY <1>11 DEF FinishSaveAgent
    <2>4. agentsListed' = [rows |-> rows, loading |-> agentsListed.loading]
      BY <1>1, <2>3 DEF AgentTypes
    <2>5. rows \subseteq AgentRecords /\ agentsListed.loading \in BOOLEAN
      BY <1>1, <2>2 DEF AgentTypes
    <2>6. /\ agentsListed' \in [rows : SUBSET AgentRecords, loading : BOOLEAN]
          /\ agentsListed'.rows = rows
      BY <2>4, <2>5
    <2>7. \A x \in agentsListed'.rows : x \in agentsListed.rows \/ x = Agent(r.id, r.of)
      BY <2>6
    <2>8. QED
      BY <1>1, <2>1, <2>6, <2>7, AgentsAnswered
  <1>12. ASSUME NEW r \in agentsAsked, FinishDeleteAgent(r)
         PROVE  AgentsInv'
    <2>1. agentsListed' = [rows |-> {x \in agentsListed.rows : x.id # r.id},
                           loading |-> agentsListed.loading]
      BY <1>1, <1>12 DEF FinishDeleteAgent, AgentTypes
    <2>2. /\ agentsListed' \in [rows : SUBSET AgentRecords, loading : BOOLEAN]
          /\ \A x \in agentsListed'.rows : x \in agentsListed.rows
      BY <1>1, <2>1 DEF AgentTypes
    <2>3. agentConfirm' \in {agentConfirm, NoAgent} /\ editor' = editor
      BY <1>12 DEF FinishDeleteAgent
    <2>4. QED
      BY <1>1, <1>12, <2>2, <2>3, AgentsAnswered
         DEF FinishDeleteAgent, AgentAnswered, agentsServer
  <1>13. ASSUME NEW r \in agentsAsked, FailAgentRequest(r)
         PROVE  AgentsInv'
    <2>1. agentsListed' = [rows |-> agentsListed.rows,
                           loading |-> agentsListed.loading /\ r.kind # "list"]
      BY <1>1, <1>13 DEF FailAgentRequest, AgentTypes
    <2>2. /\ agentsListed' \in [rows : SUBSET AgentRecords, loading : BOOLEAN]
          /\ \A x \in agentsListed'.rows : x \in agentsListed.rows
      BY <1>1, <2>1 DEF AgentTypes
    <2>3. agentConfirm' \in {agentConfirm, NoAgent} /\ editor' = editor
      BY <1>13 DEF FailAgentRequest
    <2>4. QED
      BY <1>1, <1>13, <2>2, <2>3, AgentsAnswered DEF FailAgentRequest, agentsServer
  <1>14. CASE UNCHANGED agentsVars
    BY <1>1, <1>14 DEF agentsVars, agentsPage, agentsServer, agentsHistory, AgentTypes,
                       FormLoaded, AllOwn, OwnValues
  <1>15. QED
    BY <1>1, <1>2, <1>3, <1>4, <1>5, <1>6, <1>7, <1>8, <1>9, <1>10, <1>11, <1>12, <1>13,
       <1>14
       DEF AgentsPageNext

(* No agent is stored with another's values, unless the user was hasty.    *)
THEOREM AgentsAreOwn == AgentsPageSpec => []SavedAgentsAreOwn
  <1>1. AgentsInv => SavedAgentsAreOwn
    BY DEF AgentsInv, AllOwn, OwnValues, SavedAgentsAreOwn
  <1>2. QED
    BY <1>1, AgentsInit, AgentsNext, PTL DEF AgentsPageSpec

-----------------------------------------------------------------------------
(* WorkflowEditor.  Every graph that is listed, selected, on its way or    *)
(* stored is that of its workflow, and a node never changes its home.      *)

WfTypes ==
    /\ wfListed \subseteq Entries
    /\ selectedId \in Workflows \cup {None}
    /\ canvas \in Graphs
    /\ wfLoad \in Loads
    /\ wfSave \in Saves
    /\ wfCreates \subseteq Creates
    /\ wfStored \subseteq Workflows
    /\ wfGraph \in [Workflows -> Graphs]
    /\ home \in [Nodes -> Workflows \cup {None}]

EntriesOwn == \A x \in wfListed \cup wfLoad.answer : OwnGraph(x.id, x.graph)

CanvasOwn ==
    IF selectedId = None THEN canvas = EmptyGraph ELSE OwnGraph(selectedId, canvas)

SaveOwn == wfSave # NoSave => wfSave.id \in Workflows /\ OwnGraph(wfSave.id, wfSave.graph)

StoredOwn == \A w \in Workflows : OwnGraph(w, wfGraph[w])

WfInv == WfTypes /\ EntriesOwn /\ CanvasOwn /\ SaveOwn /\ StoredOwn

LEMMA EmptyGraphs ==
  EmptyGraph \in Graphs /\ \A w : OwnGraph(w, EmptyGraph)
  BY DEF EmptyGraph, Graphs, OwnGraph

LEMMA WfStart == WorkflowInit => WfInv
  <1>1. SUFFICES ASSUME WorkflowInit PROVE WfInv
    OBVIOUS
  <1>2. WfTypes
    BY <1>1, WorkflowAssumption, EmptyGraphs
       DEF WorkflowInit, WfTypes, Loads, Saves, NoSave, Entries
  <1>3. EntriesOwn /\ CanvasOwn /\ SaveOwn /\ StoredOwn
    BY <1>1, EmptyGraphs
       DEF WorkflowInit, EntriesOwn, CanvasOwn, SaveOwn, StoredOwn
  <1>4. QED
    BY <1>2, <1>3 DEF WfInv

\* A step that makes no graph: it may list the answer, and drop what it holds.
LEMMA WfQuiet ==
  ASSUME WfInv, UNCHANGED <<home, wfGraph>>,
         wfListed' \subseteq wfListed \cup wfLoad.answer,
         wfLoad' \in Loads, wfLoad'.answer = wfLoad.answer,
         wfSave' \in {wfSave, NoSave},
         wfCreates' \subseteq Creates, wfStored' \subseteq Workflows,
         \/ UNCHANGED <<selectedId, canvas>>
         \/ selectedId' = None /\ canvas' = EmptyGraph
  PROVE  WfInv'
  <1>1. wfLoad.answer \subseteq Entries /\ NoSave \in Saves
    BY EmptyGraphs DEF WfInv, WfTypes, Loads, NoSave, Saves
  <1>2. WfTypes'
    BY <1>1, EmptyGraphs DEF WfInv, WfTypes
  <1>3. EntriesOwn' /\ CanvasOwn' /\ SaveOwn' /\ StoredOwn'
    BY DEF WfInv, EntriesOwn, CanvasOwn, SaveOwn, StoredOwn, OwnGraph, NoSave
  <1>4. QED
    BY <1>2, <1>3 DEF WfInv

\* A step of the canvas or of the selection: new nodes get their home.
LEMMA WfDraws ==
  ASSUME WfInv, wfListed' \subseteq Entries,
         \A x \in wfListed' : x \in wfListed \/ x.graph = EmptyGraph,
         UNCHANGED <<wfLoad, wfSave, wfStored, wfGraph>>,
         wfCreates' \subseteq Creates,
         selectedId' \in Workflows, canvas' \in Graphs, OwnGraph(selectedId, canvas)',
         home' \in [Nodes -> Workflows \cup {None}],
         \A n \in Nodes : home[n] # None => home'[n] = home[n]
  PROVE  WfInv'
  <1>1. ASSUME NEW w \in Workflows, NEW g \in Graphs, OwnGraph(w, g)
        PROVE  OwnGraph(w, g)'
    <2>1. g.nodes \subseteq Nodes /\ w # None
      BY WorkflowAssumption DEF Graphs
    <2>2. QED
      BY <1>1, <2>1 DEF OwnGraph
  <1>2. WfTypes'
    BY DEF WfInv, WfTypes
  <1>3. EntriesOwn'
    <2>1. wfLoad.answer \subseteq Entries
      BY DEF WfInv, WfTypes, Loads
    <2>2. ASSUME NEW x \in wfListed' \cup wfLoad'.answer
          PROVE  OwnGraph(x.id, x.graph)'
      <3>1. x.id \in Workflows /\ x.graph \in Graphs
        BY <2>1, <2>2 DEF Entries
      <3>2. OwnGraph(x.id, x.graph)
        BY <2>2, EmptyGraphs DEF WfInv, EntriesOwn
      <3>3. QED
        BY <1>1, <3>1, <3>2
    <2>3. QED
      BY <2>2 DEF EntriesOwn
  <1>4. CanvasOwn'
    BY WorkflowAssumption DEF CanvasOwn
  <1>5. SaveOwn'
    <2>1. CASE wfSave = NoSave
      BY <2>1 DEF SaveOwn, NoSave, EmptyGraph
    <2>2. CASE wfSave # NoSave
      <3>1. wfSave.id \in Workflows /\ wfSave.graph \in Graphs
        BY <2>2 DEF WfInv, WfTypes, Saves, SaveOwn
      <3>2. OwnGraph(wfSave.id, wfSave.graph)
        BY <2>2 DEF WfInv, SaveOwn
      <3>3. OwnGraph(wfSave.id, wfSave.graph)'
        <4>1. wfSave.graph.nodes \subseteq Nodes /\ wfSave.id # None
          BY <3>1, WorkflowAssumption DEF Graphs
        <4>2. QED
          BY <3>2, <4>1 DEF OwnGraph
      <3>4. QED
        BY <3>1, <3>3 DEF SaveOwn
    <2>3. QED
      BY <2>1, <2>2
  <1>6. StoredOwn'
    <2>1. ASSUME NEW w \in Workflows PROVE OwnGraph(w, wfGraph[w])'
      <3>1. wfGraph[w] \in Graphs /\ OwnGraph(w, wfGraph[w])
        BY <2>1 DEF WfInv, WfTypes, StoredOwn
      <3>2. wfGraph[w].nodes \subseteq Nodes /\ w # None
        BY <3>1, WorkflowAssumption DEF Graphs
      <3>3. QED
        BY <3>1, <3>2 DEF OwnGraph
    <2>2. QED
      BY <2>1 DEF StoredOwn
  <1>7. QED
    BY <1>2, <1>3, <1>4, <1>5, <1>6 DEF WfInv

\* Selecting draws a graph of the workflow, or a start node made for it.
LEMMA WfSelect ==
  ASSUME WfInv, NEW w \in Workflows, NEW g \in Graphs, OwnGraph(w, g), Select(w, g)
  PROVE  /\ selectedId' \in Workflows /\ canvas' \in Graphs
         /\ OwnGraph(selectedId, canvas)'
         /\ home' \in [Nodes -> Workflows \cup {None}]
         /\ \A n \in Nodes : home[n] # None => home'[n] = home[n]
  <1>1. selectedId' = w
    BY DEF Select
  <1>2. CASE g.nodes # {}
    BY <1>1, <1>2 DEF Select, OwnGraph, WfInv, WfTypes
  <1>3. CASE g.nodes = {}
    <2>1. PICK n \in NewNodes : /\ canvas' = [nodes |-> {n}, edges |-> {}]
                                /\ home' = [home EXCEPT ![n] = w]
      BY <1>3 DEF Select
    <2>2. n \in Nodes /\ home[n] = None
      BY DEF NewNodes
    <2>3. home' \in [Nodes -> Workflows \cup {None}]
            /\ home'[n] = w /\ \A m \in Nodes \ {n} : home'[m] = home[m]
      BY <2>1, <2>2 DEF WfInv, WfTypes
    <2>4. canvas' \in Graphs /\ OwnGraph(selectedId, canvas)'
      BY <1>1, <2>1, <2>2, <2>3 DEF Graphs, OwnGraph
    <2>5. QED
      BY <1>1, <2>2, <2>3, <2>4
  <1>4. QED
    BY <1>2, <1>3

LEMMA WfNext == WfInv /\ [WorkflowNext]_wfVars => WfInv'
  <1>1. SUFFICES ASSUME WfInv, [WorkflowNext]_wfVars PROVE WfInv'
    OBVIOUS
  <1>2. /\ wfLoad \in Loads /\ wfLoad.answer \subseteq Entries
        /\ wfCreates \subseteq Creates /\ wfStored \subseteq Workflows
    BY <1>1 DEF WfInv, WfTypes, Loads
  <1>3. /\ wfListed \subseteq Entries /\ wfSave \in Saves /\ canvas \in Graphs
        /\ home \in [Nodes -> Workflows \cup {None}] /\ selectedId \in Workflows \cup {None}
    BY <1>1 DEF WfInv, WfTypes
  <1> USE DEF wfPage, wfModals, wfServer
  <1>4. CASE ServeLoad
    <2>1. StoredEntries \subseteq Entries
            /\ \A x \in StoredEntries : OwnGraph(x.id, x.graph)
      BY <1>1, <1>2 DEF WfInv, WfTypes, StoredOwn, StoredEntries, Entry, Entries
    <2>2. wfLoad' = [phase |-> "served", answer |-> StoredEntries]
            /\ UNCHANGED <<wfListed, selectedId, canvas, wfSave, wfCreates, wfStored, wfGraph,
                           home>>
      BY <1>4 DEF ServeLoad
    <2>3. wfLoad' \in Loads /\ wfLoad'.answer = StoredEntries
      BY <2>1, <2>2 DEF Loads
    <2>4. WfTypes'
      BY <1>1, <2>2, <2>3 DEF WfInv, WfTypes
    <2>5. EntriesOwn' /\ CanvasOwn' /\ SaveOwn' /\ StoredOwn'
      BY <1>1, <2>1, <2>2, <2>3
         DEF WfInv, EntriesOwn, CanvasOwn, SaveOwn, StoredOwn, OwnGraph
    <2>6. QED
      BY <2>4, <2>5 DEF WfInv
  <1>5. CASE FinishLoad \/ FailLoad
    <2>1. wfLoad' = [wfLoad EXCEPT !.phase = "over"]
            /\ wfListed' \subseteq wfListed \cup wfLoad.answer
      BY <1>5 DEF FinishLoad, FailLoad
    <2>2. wfLoad' \in Loads /\ wfLoad'.answer = wfLoad.answer
      BY <1>2, <2>1 DEF Loads
    <2>3. QED
      BY <1>1, <1>2, <1>5, <2>1, <2>2, WfQuiet DEF FinishLoad, FailLoad
  <1>6. CASE OpenCreate \/ EditName \/ CancelCreate \/ \E w \in Workflows : HandleCreate(w)
    <2>1. wfCreates' \subseteq Creates
      BY <1>2, <1>6 DEF OpenCreate, EditName, CancelCreate, HandleCreate, Creates
    <2>2. UNCHANGED <<wfPage, wfLoad, wfSave, wfStored, wfGraph, home>>
      BY <1>6 DEF OpenCreate, EditName, CancelCreate, HandleCreate
    <2>3. QED
      BY <1>1, <1>2, <2>1, <2>2, WfQuiet
  <1>7. ASSUME NEW x \in wfListed, HandleSelect(x) PROVE WfInv'
    <2>1. x.id \in Workflows /\ x.graph \in Graphs /\ OwnGraph(x.id, x.graph)
      BY <1>1, <1>3 DEF WfInv, EntriesOwn, Entries
    <2>2. Select(x.id, x.graph)
            /\ UNCHANGED <<wfListed, wfLoad, wfSave, wfCreates, wfStored, wfGraph>>
      BY <1>7 DEF HandleSelect
    <2>3. QED
      BY <1>1, <1>2, <1>3, <2>1, <2>2, WfSelect, WfDraws
  <1>8. CASE \/ \E x \in wfListed : HandleDelete(x)
             \/ \E r \in wfDeletes : ServeDelete(r) \/ FinishDelete(r) \/ FailDelete(r)
    <2>1. /\ wfListed' \subseteq wfListed /\ wfStored' \subseteq wfStored
          /\ UNCHANGED <<wfLoad, wfSave, wfCreates, wfGraph, home>>
          /\ \/ UNCHANGED <<selectedId, canvas>>
             \/ selectedId' = None /\ canvas' = EmptyGraph
      BY <1>8 DEF HandleDelete, ServeDelete, FinishDelete, FailDelete
    <2>2. QED
      BY <1>1, <1>2, <2>1, WfQuiet
  <1>9. ASSUME NEW r \in wfCreates, ServeCreate(r) PROVE WfInv'
    <2>1. r.id \in Workflows /\ [r EXCEPT !.phase = "served"] \in Creates
      BY <1>2 DEF Creates
    <2>2. /\ wfCreates' = (wfCreates \ {r}) \cup {[r EXCEPT !.phase = "served"]}
          /\ wfStored' = wfStored \cup {r.id}
          /\ wfGraph' = [wfGraph EXCEPT ![r.id] = EmptyGraph]
          /\ UNCHANGED <<wfListed, selectedId, canvas, wfLoad, wfSave, home>>
      BY <1>9 DEF ServeCreate
    <2>3. WfTypes'
      BY <1>1, <1>2, <2>1, <2>2, EmptyGraphs DEF WfInv, WfTypes
    <2>4. StoredOwn'
      BY <1>1, <2>1, <2>2, EmptyGraphs DEF WfInv, WfTypes, StoredOwn, OwnGraph
    <2>5. EntriesOwn' /\ CanvasOwn' /\ SaveOwn'
      BY <1>1, <2>2 DEF WfInv, EntriesOwn, CanvasOwn, SaveOwn, OwnGraph
    <2>6. QED
      BY <2>3, <2>4, <2>5 DEF WfInv
  <1>10. ASSUME NEW r \in wfCreates, FinishCreate(r) PROVE WfInv'
    <2>1. r.id \in Workflows
      BY <1>2 DEF Creates
    <2>2. Entry(r.id, EmptyGraph) \in Entries /\ Entry(r.id, EmptyGraph).graph = EmptyGraph
      BY <2>1, EmptyGraphs DEF Entry, Entries
    <2>3. /\ wfListed' = wfListed \cup {Entry(r.id, EmptyGraph)}
          /\ wfCreates' = wfCreates \ {r} /\ Select(r.id, EmptyGraph)
          /\ UNCHANGED <<wfLoad, wfSave, wfStored, wfGraph>>
      BY <1>10 DEF FinishCreate
    <2>4. QED
      BY <1>1, <1>2, <1>3, <2>1, <2>2, <2>3, EmptyGraphs, WfSelect, WfDraws
  <1>11. ASSUME NEW r \in wfCreates, FailCreate(r) PROVE WfInv'
    BY <1>1, <1>2, <1>11, WfQuiet DEF FailCreate
  <1>12. CASE HandleSave
    <2>1. selectedId \in Workflows /\ OwnGraph(selectedId, canvas)
      <3>1. PICK x \in wfListed : x.id = selectedId
        BY <1>12 DEF HandleSave, EditorShown
      <3>2. QED
        BY <1>1, <1>3, <3>1, WorkflowAssumption DEF WfInv, CanvasOwn, Entries
    <2>2. /\ wfSave' = [phase |-> "sent", id |-> selectedId, graph |-> canvas]
          /\ UNCHANGED <<wfListed, selectedId, canvas, wfLoad, wfCreates, wfStored, wfGraph,
                         home>>
      BY <1>12 DEF HandleSave
    <2>3. wfSave' \in Saves
      BY <1>3, <2>2 DEF Saves
    <2>4. WfTypes'
      BY <1>1, <2>2, <2>3 DEF WfInv, WfTypes
    <2>5. EntriesOwn' /\ CanvasOwn' /\ SaveOwn' /\ StoredOwn'
      BY <1>1, <2>1, <2>2 DEF WfInv, EntriesOwn, CanvasOwn, SaveOwn, StoredOwn, OwnGraph
    <2>6. QED
      BY <2>4, <2>5 DEF WfInv
  <1>13. CASE ServeSave
    <2>1. wfSave # NoSave
      BY <1>13 DEF ServeSave, NoSave
    <2>2. /\ wfSave.id \in Workflows /\ wfSave.graph \in Graphs
          /\ OwnGraph(wfSave.id, wfSave.graph)
      BY <1>1, <1>3, <2>1 DEF WfInv, SaveOwn, Saves
    <2>3. /\ wfSave' = [phase |-> "served", id |-> wfSave.id, graph |-> wfSave.graph]
          /\ wfGraph' = [wfGraph EXCEPT ![wfSave.id] = wfSave.graph]
          /\ UNCHANGED <<wfListed, selectedId, canvas, wfLoad, wfCreates, wfStored, home>>
      BY <1>3, <1>13 DEF ServeSave, Saves
    <2>4. WfTypes'
      <3>1. wfSave' \in Saves
        BY <2>2, <2>3 DEF Saves
      <3>2. wfGraph' \in [Workflows -> Graphs]
        BY <1>1, <2>2, <2>3 DEF WfInv, WfTypes
      <3>3. QED
        BY <1>1, <2>3, <3>1, <3>2 DEF WfInv, WfTypes
    <2>5. StoredOwn'
      BY <1>1, <2>2, <2>3 DEF WfInv, WfTypes, StoredOwn, OwnGraph
    <2>6. SaveOwn'
      BY <2>2, <2>3 DEF SaveOwn, OwnGraph
    <2>7. EntriesOwn' /\ CanvasOwn'
      BY <1>1, <2>3 DEF WfInv, EntriesOwn, CanvasOwn, OwnGraph
    <2>8. QED
      BY <2>4, <2>5, <2>6, <2>7 DEF WfInv
  <1>14. CASE FinishSave
    <2>1. wfSave # NoSave
      BY <1>14 DEF FinishSave, NoSave
    <2>2. /\ wfSave.id \in Workflows /\ wfSave.graph \in Graphs
          /\ OwnGraph(wfSave.id, wfSave.graph)
      BY <1>1, <1>3, <2>1 DEF WfInv, SaveOwn, Saves
    <2>3. /\ \A x \in wfListed' : x \in wfListed \/ x = Entry(wfSave.id, wfSave.graph)
          /\ wfSave' = NoSave
          /\ UNCHANGED <<selectedId, canvas, wfLoad, wfCreates, wfStored, wfGraph, home>>
      BY <1>14 DEF FinishSave, ListedWith
    <2>4. /\ Entry(wfSave.id, wfSave.graph) \in Entries
          /\ Entry(wfSave.id, wfSave.graph).id = wfSave.id
          /\ Entry(wfSave.id, wfSave.graph).graph = wfSave.graph
      BY <2>2 DEF Entry, Entries
    <2>5. NoSave \in Saves
      BY EmptyGraphs DEF NoSave, Saves
    <2>6. WfTypes'
      BY <1>1, <2>3, <2>4, <2>5 DEF WfInv, WfTypes
    <2>7. EntriesOwn'
      BY <1>1, <2>2, <2>3, <2>4 DEF WfInv, EntriesOwn, OwnGraph
    <2>8. CanvasOwn' /\ SaveOwn' /\ StoredOwn'
      BY <1>1, <2>3 DEF WfInv, CanvasOwn, SaveOwn, StoredOwn, OwnGraph, NoSave
    <2>9. QED
      BY <2>6, <2>7, <2>8 DEF WfInv
  <1>15. CASE FailSave
    BY <1>1, <1>2, <1>15, WfQuiet DEF FailSave
  <1>16. ASSUME EditorShown, EditCanvas, canvas' \in Graphs,
                home' \in [Nodes -> Workflows \cup {None}],
                \A n \in Nodes : home[n] # None => home'[n] = home[n],
                \A n \in canvas'.nodes : n \in canvas.nodes \/ home'[n] = selectedId,
                canvas'.edges \subseteq canvas'.nodes \X canvas'.nodes
         PROVE  WfInv'
    <2>1. selectedId \in Workflows
      BY <1>3, <1>16 DEF EditorShown, Entries
    <2>2. OwnGraph(selectedId, canvas) /\ selectedId # None /\ canvas.nodes \subseteq Nodes
      BY <1>1, <1>3, <2>1, WorkflowAssumption DEF WfInv, CanvasOwn, Graphs
    <2>3. UNCHANGED <<wfListed, selectedId, wfLoad, wfSave, wfCreates, wfStored, wfGraph>>
      BY <1>16 DEF EditCanvas
    <2>4. OwnGraph(selectedId, canvas)'
      BY <1>16, <2>2, <2>3 DEF OwnGraph
    <2>5. QED
      BY <1>1, <1>2, <1>3, <1>16, <2>1, <2>3, <2>4, WfDraws
  <1>17. ASSUME EditorShown
         PROVE  canvas.edges \subseteq canvas.nodes \X canvas.nodes
    BY <1>1, <1>3, <1>17, WorkflowAssumption
       DEF WfInv, CanvasOwn, EditorShown, Entries, OwnGraph
  <1>18. ASSUME NEW m \in Nodes, NEW n \in Nodes, OnConnect(m, n) PROVE WfInv'
    <2>1. canvas' = [nodes |-> canvas.nodes, edges |-> canvas.edges \cup {<<m, n>>}]
            /\ {m, n} \subseteq canvas.nodes
      BY <1>3, <1>18 DEF OnConnect, Graphs
    <2>2. canvas' \in Graphs
      BY <1>3, <2>1 DEF Graphs
    <2>3. QED
      BY <1>3, <1>16, <1>17, <1>18, <2>1, <2>2 DEF OnConnect
  <1>19. ASSUME NEW n \in Nodes, OnDrop(n) PROVE WfInv'
    <2>1. canvas' = [nodes |-> canvas.nodes \cup {n}, edges |-> canvas.edges]
      BY <1>3, <1>19 DEF OnDrop, Graphs
    <2>2. home[n] = None /\ home' = [home EXCEPT ![n] = selectedId]
      BY <1>19 DEF OnDrop, NewNodes
    <2>3. canvas' \in Graphs /\ home' \in [Nodes -> Workflows \cup {None}]
      BY <1>3, <2>1, <2>2 DEF Graphs
    <2>4. home'[n] = selectedId /\ \A m \in Nodes : home[m] # None => home'[m] = home[m]
      BY <1>3, <2>2
    <2>5. canvas'.edges \subseteq canvas'.nodes \X canvas'.nodes
      BY <1>17, <1>19, <2>1 DEF OnDrop, PaletteShown
    <2>6. QED
      BY <1>16, <1>19, <2>1, <2>3, <2>4, <2>5 DEF OnDrop, PaletteShown
  <1>20. CASE OnPaneClick \/ \E n \in Nodes : OnNodeClick(n)
    BY <1>3, <1>16, <1>17, <1>20 DEF OnPaneClick, OnNodeClick
  <1>21. CASE HandleNodeDelete
    <2>1. canvas' = WithoutNode(canvas, selectedNode) /\ home' = home
            /\ EditorShown /\ EditCanvas
      BY <1>21 DEF HandleNodeDelete, PanelShown
    <2>2. canvas' \in Graphs
      BY <1>3, <2>1 DEF WithoutNode, Graphs
    <2>3. canvas'.nodes \subseteq canvas.nodes
            /\ canvas'.edges \subseteq canvas'.nodes \X canvas'.nodes
      BY <1>17, <2>1 DEF WithoutNode
    <2>4. QED
      BY <1>3, <1>16, <2>1, <2>2, <2>3
  <1>22. CASE OpenRun \/ HandleExecute \/ FinishExecute \/ CloseRun \/ UNCHANGED wfVars
    <2>1. UNCHANGED <<wfPage, wfLoad, wfSave, wfCreates, wfStored, wfGraph, home>>
      BY <1>22 DEF OpenRun, HandleExecute, FinishExecute, CloseRun, wfVars
    <2>2. QED
      BY <1>1, <1>2, <2>1, WfQuiet
  <1>23. QED
    BY <1>1, <1>4, <1>5, <1>6, <1>7, <1>8, <1>9, <1>10, <1>11, <1>12, <1>13, <1>14, <1>15,
       <1>18, <1>19, <1>20, <1>21, <1>22 DEF WorkflowNext

(* A graph on its way to the server or stored there was drawn for that     *)
(* workflow and joins nodes it contains, whatever handlers overlap.        *)
THEOREM GraphsAreOwn == WorkflowSpec => []SavedGraphsAreOwn
  <1>1. WfInv => SavedGraphsAreOwn
    BY DEF WfInv, SaveOwn, StoredOwn, SavedGraphsAreOwn
  <1>2. QED
    BY <1>1, WfStart, WfNext, PTL DEF WorkflowSpec

-----------------------------------------------------------------------------
(* KnowledgePage.  Until the selection changes under them, the requests,   *)
(* the documents and the results all are of the selected base.             *)

KbKinds == {"bases", "documents", "create", "update", "delete", "remove", "upload", "search"}
SomeBase == Bases \cup {NoBase}

KbRequests ==
    [n : Nat, kind : KbKinds, phase : {"sent", "served"}, kb : SomeBase,
     doc : Docs \cup {NoBase}, selected : SomeBase, answer : SUBSET (Bases \cup Docs)]

KbTypes ==
    /\ kbSelected \in SomeBase
    /\ kbDocs \in [ids : SUBSET Docs, loading : BOOLEAN]
    /\ kbModal \in [open : BOOLEAN, editing : SomeBase]
    /\ kbConfirm \in SomeBase
    /\ kbSearch \in [open : BOOLEAN, results : SomeBase]
    /\ kbAsked \subseteq KbRequests
    /\ kbStored \subseteq Bases
    /\ kbHome \in [Docs -> SomeBase]
    /\ kbDocsStored \subseteq Docs
    /\ kbClicks \in Nat
    /\ kbCrossed \in BOOLEAN

RequestOwn(r) ==
    /\ r.kind \in {"documents", "create", "delete", "upload"} => r.kb \in Bases
    /\ r.kind = "upload" => r.doc \in Docs /\ kbHome[r.doc] = r.kb
    /\ r.kind = "documents" => \A d \in r.answer : d \in Docs /\ kbHome[d] = r.kb

RequestFollows(r) ==
    /\ r.kind \in {"documents", "search", "upload"} => r.kb = kbSelected
    /\ r.kind # "documents" => r.selected = kbSelected

DocsFollow ==
    ~kbDocs.loading => \A d \in kbDocs.ids : kbSelected \in Bases /\ kbHome[d] = kbSelected

SearchFollows == kbSearch.open => kbSearch.results \in {NoBase, kbSelected}

KbFollows ==
    ~kbCrossed => DocsFollow /\ SearchFollows /\ \A r \in kbAsked : RequestFollows(r)

KbInv == KbTypes /\ (\A r \in kbAsked : RequestOwn(r)) /\ KbFollows

LEMMA KbStart == KnowledgePageInit => KbInv
  <1>1. SUFFICES ASSUME KnowledgePageInit PROVE KbInv
    OBVIOUS
  <1>2. KbTypes
    <2>1. Asking("bases", NoBase, NoBase) \in KbRequests
      BY <1>1 DEF KnowledgePageInit, KbRequests, KbKinds, SomeBase, Asking
    <2>2. /\ [ids |-> {}, loading |-> FALSE] \in [ids : SUBSET Docs, loading : BOOLEAN]
          /\ NoModal \in [open : BOOLEAN, editing : SomeBase]
          /\ [open |-> FALSE, results |-> NoBase] \in [open : BOOLEAN, results : SomeBase]
          /\ [d \in Docs |-> NoBase] \in [Docs -> SomeBase]
      BY DEF SomeBase, NoModal
    <2>3. QED
      BY <1>1, <2>1, <2>2, KnowledgePageAssumption DEF KnowledgePageInit, KbTypes, SomeBase
  <1>3. (\A r \in kbAsked : RequestOwn(r)) /\ KbFollows
    BY <1>1 DEF KnowledgePageInit, RequestOwn, KbFollows, DocsFollow, SearchFollows,
                RequestFollows, Asking
  <1>4. QED
    BY <1>2, <1>3 DEF KbInv

\* A step of the dialogs only.
LEMMA KbDialogStep ==
  ASSUME KbInv,
         UNCHANGED <<kbSelected, kbDocs, kbAsked, kbStored, kbHome, kbDocsStored, kbCrossed>>,
         kbClicks' \in Nat,
         kbModal' \in [open : BOOLEAN, editing : SomeBase], kbConfirm' \in SomeBase,
         \/ kbSearch' = kbSearch
         \/ kbSearch' = [open |-> TRUE, results |-> NoBase]
         \/ kbSearch' = [open |-> FALSE, results |-> kbSearch.results]
  PROVE  KbInv'
  <1>1. kbSearch' \in [open : BOOLEAN, results : SomeBase]
    <2>1. kbSearch \in [open : BOOLEAN, results : SomeBase] /\ NoBase \in SomeBase
      BY DEF KbInv, KbTypes, SomeBase
    <2>2. kbSearch.results \in SomeBase
      BY <2>1
    <2>3. /\ [open |-> TRUE, results |-> NoBase] \in [open : BOOLEAN, results : SomeBase]
          /\ [open |-> FALSE, results |-> kbSearch.results]
                \in [open : BOOLEAN, results : SomeBase]
      BY <2>1, <2>2
    <2>4. QED
      BY <2>1, <2>3
  <1>2. KbTypes'
    BY <1>1 DEF KbInv, KbTypes
  <1>3. (\A r \in kbAsked : RequestOwn(r))'
    BY DEF KbInv, RequestOwn
  <1>4. KbFollows'
    BY DEF KbInv, KbFollows, DocsFollow, SearchFollows, RequestFollows
  <1>5. QED
    BY <1>2, <1>3, <1>4 DEF KbInv

\* A request of the selected base, or of one in the list.
LEMMA KbAsking ==
  ASSUME KbInv, NEW kind \in KbKinds \ {"documents"}, NEW kb \in SomeBase,
         NEW doc \in Docs \cup {NoBase}, KbAsk(kind, kb, doc),
         UNCHANGED <<kbPage, kbStored, kbDocsStored, kbCrossed>>, kbClicks' \in Nat,
         kbHome' \in [Docs -> SomeBase],
         \A d \in Docs : kbHome[d] # NoBase => kbHome'[d] = kbHome[d],
         kind \in {"create", "delete", "upload"} => kb \in Bases,
         kind = "upload" => doc \in Docs /\ kbHome'[doc] = kb,
         kind \in {"search", "upload"} => kb = kbSelected
  PROVE  KbInv'
  <1> DEFINE s == Asking(kind, kb, doc)
  <1>1. s \in KbRequests
    BY DEF KbInv, KbTypes, KbRequests, Asking
  <1>2. /\ s.kind = kind /\ s.kb = kb /\ s.doc = doc /\ s.selected = kbSelected
        /\ kbAsked' = kbAsked \cup {s}
    BY DEF Asking, KbAsk
  <1>3. UNCHANGED <<kbSelected, kbDocs, kbModal, kbConfirm, kbSearch>>
    BY DEF kbPage, kbDialogs
  <1> HIDE DEF s
  <1>4. KbTypes'
    BY <1>1, <1>2, <1>3 DEF KbInv, KbTypes
  <1>5. ASSUME NEW r \in kbAsked' PROVE RequestOwn(r)'
    <2>1. CASE r = s
      BY <1>2, <2>1 DEF RequestOwn
    <2>2. CASE r \in kbAsked
      BY <2>2, KnowledgePageAssumption DEF KbInv, RequestOwn
    <2>3. QED
      BY <1>2, <1>5, <2>1, <2>2
  <1>6. KbFollows'
    <2>1. SUFFICES ASSUME ~kbCrossed PROVE KbFollows'
      BY DEF KbFollows
    <2>2. DocsFollow' /\ SearchFollows'
      BY <1>3, <2>1, KnowledgePageAssumption
         DEF KbInv, KbTypes, KbFollows, DocsFollow, SearchFollows
    <2>3. \A r \in kbAsked' : RequestFollows(r)'
      BY <1>2, <1>3, <2>1 DEF KbInv, KbFollows, RequestFollows
    <2>4. QED
      BY <2>2, <2>3 DEF KbFollows
  <1>7. QED
    BY <1>4, <1>5, <1>6 DEF KbInv

\* A request that is over, and what its handler shows.
LEMMA KbEnding ==
  ASSUME KbInv, NEW r \in kbAsked, kbAsked' = kbAsked \ {r},
         UNCHANGED <<kbSelected, kbStored, kbHome, kbDocsStored, kbClicks, kbCrossed>>,
         kbDocs' \in [ids : SUBSET Docs, loading : BOOLEAN],
         kbModal' \in [open : BOOLEAN, editing : SomeBase], kbConfirm' \in SomeBase,
         kbSearch' \in [open : BOOLEAN, results : SomeBase],
         ~kbCrossed => (DocsFollow /\ SearchFollows)'
  PROVE  KbInv'
  <1>1. KbTypes'
    BY DEF KbInv, KbTypes
  <1>2. (\A q \in kbAsked : RequestOwn(q))'
    BY DEF KbInv, RequestOwn
  <1>3. KbFollows'
    BY DEF KbInv, KbFollows, RequestFollows
  <1>4. QED
    BY <1>1, <1>2, <1>3 DEF KbInv

LEMMA KbServing ==
  ASSUME KbInv, NEW r \in kbAsked, KbServe(r)
  PROVE  KbInv'
  <1>1. /\ r \in KbRequests /\ RequestOwn(r) /\ StoredDocs(r.kb) \subseteq Docs
        /\ \A d \in StoredDocs(r.kb) : kbHome[d] = r.kb
    BY DEF KbInv, KbTypes, StoredDocs
  <1>2. UNCHANGED <<kbSelected, kbDocs, kbModal, kbConfirm, kbSearch, kbHome, kbClicks,
                    kbCrossed>>
    BY DEF KbServe, kbPage, kbDialogs
  <1>3. kbStored' \subseteq Bases /\ kbDocsStored' \subseteq Docs
    BY <1>1 DEF KbInv, KbTypes, KbServe, RequestOwn
  <1>4. PICK answer \in SUBSET (Bases \cup Docs) :
            /\ ServedAs(r, answer)
            /\ r.kind = "documents" => answer = StoredDocs(r.kb)
    <2>1. kbStored \in SUBSET (Bases \cup Docs) /\ {} \in SUBSET (Bases \cup Docs)
            /\ StoredDocs(r.kb) \in SUBSET (Bases \cup Docs)
      BY <1>1 DEF KbInv, KbTypes
    <2>2. \E answer \in {kbStored, StoredDocs(r.kb), {}} :
            /\ ServedAs(r, answer)
            /\ r.kind = "documents" => answer = StoredDocs(r.kb)
      BY DEF KbServe
    <2>3. QED
      BY <2>1, <2>2
  <1> DEFINE s == [r EXCEPT !.phase = "served", !.answer = answer]
  <1>5. /\ s \in KbRequests /\ s.kind = r.kind /\ s.kb = r.kb /\ s.doc = r.doc
        /\ s.selected = r.selected /\ s.answer = answer
    BY <1>1 DEF KbRequests
  <1>6. kbAsked' = (kbAsked \ {r}) \cup {s}
    BY <1>4 DEF ServedAs
  <1> HIDE DEF s
  <1>7. KbTypes'
    BY <1>2, <1>3, <1>5, <1>6 DEF KbInv, KbTypes
  <1>8. (\A q \in kbAsked : RequestOwn(q))'
    BY <1>1, <1>2, <1>4, <1>5, <1>6 DEF KbInv, RequestOwn
  <1>9. KbFollows'
    BY <1>2, <1>5, <1>6 DEF KbInv, KbFollows, DocsFollow, SearchFollows, RequestFollows
  <1>10. QED
    BY <1>7, <1>8, <1>9 DEF KbInv

LEMMA KbNext == KbInv /\ [KnowledgePageNext]_kbVars => KbInv'
  <1>1. SUFFICES ASSUME KbInv, [KnowledgePageNext]_kbVars PROVE KbInv'
    OBVIOUS
  <1>2. /\ kbSelected \in SomeBase /\ kbConfirm \in SomeBase
        /\ kbDocs \in [ids : SUBSET Docs, loading : BOOLEAN]
        /\ kbModal \in [open : BOOLEAN, editing : SomeBase]
        /\ kbSearch \in [open : BOOLEAN, results : SomeBase]
        /\ kbAsked \subseteq KbRequests /\ kbHome \in [Docs -> SomeBase]
        /\ NoModal \in [open : BOOLEAN, editing : SomeBase]
        /\ NoBase \in SomeBase /\ NoBase \notin Bases /\ Bases \subseteq SomeBase
    BY <1>1, KnowledgePageAssumption DEF KbInv, KbTypes, SomeBase, NoModal
  <1>3. KbClick => kbClicks' \in Nat
    BY <1>1 DEF KbInv, KbTypes, KbClick
  <1> USE DEF kbPage, kbDialogs, kbServer
  <1>4. ASSUME NEW kb \in Bases, HandleSelectKb(kb) PROVE KbInv'
    <2> DEFINE s == Asking("documents", kb, NoBase)
    <2>1. s \in KbRequests
      BY <1>1, <1>2 DEF KbInv, KbTypes, KbRequests, KbKinds, Asking
    <2>2. /\ s.kind = "documents" /\ s.kb = kb /\ s.answer = {}
          /\ kbAsked' = kbAsked \cup {s}
      BY <1>4 DEF HandleSelectKb, Asking, KbAsk
    <2> HIDE DEF s
    <2>3. kbSelected' = kb /\ kbDocs' = [ids |-> kbDocs.ids, loading |-> TRUE]
      BY <1>2, <1>4 DEF HandleSelectKb, SelectBase
    <2>4. UNCHANGED <<kbModal, kbConfirm, kbSearch, kbStored, kbHome, kbDocsStored>>
      BY <1>4 DEF HandleSelectKb
    <2>5. /\ kbCrossed' \in BOOLEAN
          /\ ~kbCrossed' => /\ ~kbCrossed
                            /\ kb = kbSelected \/ (kbAsked = {} /\ ~kbSearch.open)
      BY <1>1, <1>4 DEF HandleSelectKb, SelectBase, KbInv, KbTypes
    <2>6. kbDocs' \in [ids : SUBSET Docs, loading : BOOLEAN] /\ kbDocs'.loading
      BY <1>2, <2>3
    <2>7. KbTypes'
      BY <1>1, <1>2, <1>3, <1>4, <2>1, <2>2, <2>3, <2>4, <2>5, <2>6
         DEF KbInv, KbTypes, HandleSelectKb
    <2>8. (\A r \in kbAsked : RequestOwn(r))'
      BY <1>1, <2>2, <2>4 DEF KbInv, RequestOwn
    <2>9. KbFollows'
      BY <1>1, <2>2, <2>3, <2>4, <2>5, <2>6
         DEF KbInv, KbFollows, DocsFollow, SearchFollows, RequestFollows
    <2>10. QED
      BY <2>7, <2>8, <2>9 DEF KbInv
  <1>5. ASSUME NEW kb \in Bases, HandleEditKb(kb) \/ HandleDeleteKb(kb) PROVE KbInv'
    <2>1. /\ kbModal' = kbModal \/ kbModal' = [open |-> TRUE, editing |-> kb]
          /\ kbConfirm' \in {kbConfirm, kb}
      BY <1>5 DEF HandleEditKb, HandleDeleteKb
    <2>2. [open |-> TRUE, editing |-> kb] \in [open : BOOLEAN, editing : SomeBase]
      BY <1>2
    <2>3. kbModal' \in [open : BOOLEAN, editing : SomeBase] /\ kbConfirm' \in SomeBase
      BY <1>2, <2>1, <2>2
    <2>4. QED
      BY <1>1, <1>3, <1>5, <2>3, KbDialogStep DEF HandleEditKb, HandleDeleteKb
  <1>6. CASE HandleOpenCreateModal \/ CancelModal \/ CloseConfirm
    <2>1. /\ kbModal' \in {kbModal, NoModal, [open |-> TRUE, editing |-> NoBase]}
          /\ kbConfirm' \in {kbConfirm, NoBase}
      BY <1>6 DEF HandleOpenCreateModal, CancelModal, CloseConfirm
    <2>2. [open |-> TRUE, editing |-> NoBase] \in [open : BOOLEAN, editing : SomeBase]
      BY <1>2
    <2>3. kbModal' \in [open : BOOLEAN, editing : SomeBase] /\ kbConfirm' \in SomeBase
      BY <1>2, <2>1, <2>2
    <2>4. QED
      BY <1>1, <1>3, <1>6, <2>3, KbDialogStep
         DEF HandleOpenCreateModal, CancelModal, CloseConfirm
  <1>7. CASE OpenSearch \/ CloseSearch
    <2>1. \/ kbSearch' = [open |-> TRUE, results |-> NoBase]
          \/ kbSearch' = [open |-> FALSE, results |-> kbSearch.results]
      BY <1>2, <1>7 DEF OpenSearch, CloseSearch
    <2>2. QED
      BY <1>1, <1>2, <1>3, <1>7, <2>1, KbDialogStep DEF OpenSearch, CloseSearch
  <1>8. CASE HandleSubmitKb
    <2>1. PICK kind \in {"create", "update"}, kb \in SomeBase :
              /\ KbAsk(kind, kb, NoBase)
              /\ kind = "create" => kb \in Bases
      BY <1>2, <1>8 DEF HandleSubmitKb
    <2>2. UNCHANGED <<kbPage, kbStored, kbHome, kbDocsStored, kbCrossed>> /\ KbClick
      BY <1>8 DEF HandleSubmitKb
    <2>3. kind \in KbKinds \ {"documents"} /\ NoBase \in Docs \cup {NoBase}
      BY DEF KbKinds
    <2>4. QED
      BY <1>1, <1>2, <1>3, <2>1, <2>2, <2>3, KbAsking
  <1>9. CASE ConfirmDeleteKb
    <2>1. /\ kbConfirm \in Bases /\ KbAsk("delete", kbConfirm, NoBase)
          /\ UNCHANGED <<kbPage, kbStored, kbHome, kbDocsStored, kbCrossed>> /\ KbClick
      BY <1>2, <1>9 DEF ConfirmDeleteKb, SomeBase
    <2>2. "delete" \in KbKinds \ {"documents"} /\ NoBase \in Docs \cup {NoBase}
      BY DEF KbKinds
    <2>3. QED
      BY <1>1, <1>2, <1>3, <2>1, <2>2, KbAsking
  <1>10. CASE HandleSearch
    <2>1. /\ KbAsk("search", kbSelected, NoBase)
          /\ UNCHANGED <<kbPage, kbStored, kbHome, kbDocsStored, kbCrossed>> /\ KbClick
      BY <1>10 DEF HandleSearch
    <2>2. "search" \in KbKinds \ {"documents"} /\ NoBase \in Docs \cup {NoBase}
      BY DEF KbKinds
    <2>3. QED
      BY <1>1, <1>2, <1>3, <2>1, <2>2, KbAsking
  <1>11. ASSUME NEW d \in Docs, HandleDeleteDoc(d) PROVE KbInv'
    <2>1. /\ KbAsk("remove", kbSelected, d)
          /\ UNCHANGED <<kbPage, kbStored, kbHome, kbDocsStored, kbCrossed>> /\ KbClick
      BY <1>11 DEF HandleDeleteDoc
    <2>2. "remove" \in KbKinds \ {"documents"} /\ d \in Docs \cup {NoBase}
      BY DEF KbKinds
    <2>3. QED
      BY <1>1, <1>2, <1>3, <2>1, <2>2, KbAsking
  <1>12. ASSUME NEW d \in Docs, UploadDoc(d) PROVE KbInv'
    <2>1. /\ KbAsk("upload", kbSelected, d) /\ KbClick
          /\ UNCHANGED <<kbPage, kbStored, kbDocsStored, kbCrossed>>
          /\ kbHome[d] = NoBase /\ kbHome' = [kbHome EXCEPT ![d] = kbSelected]
      BY <1>12 DEF UploadDoc
    <2>2. kbSelected \in Bases
      BY <1>2, <1>12 DEF UploadDoc, PanelBase, SomeBase
    <2>3. /\ kbHome' \in [Docs -> SomeBase] /\ kbHome'[d] = kbSelected
          /\ \A e \in Docs : kbHome[e] # NoBase => kbHome'[e] = kbHome[e]
      BY <1>2, <2>1
    <2>4. "upload" \in KbKinds \ {"documents"} /\ d \in Docs \cup {NoBase}
      BY DEF KbKinds
    <2>5. QED
      BY <1>1, <1>2, <1>3, <2>1, <2>2, <2>3, <2>4, KbAsking
  <1>13. ASSUME NEW r \in kbAsked PROVE KbServe(r) => KbInv'
    BY <1>1, <1>13, KbServing
  <1>14. ASSUME NEW r \in kbAsked,
                \/ FinishBases(r) \/ FailBases(r) \/ FinishCreateKb(r) \/ FailDeleteKb(r)
                \/ FailKb(r)
         PROVE  KbInv'
    <2>1. /\ kbAsked' = kbAsked \ {r}
          /\ UNCHANGED <<kbSelected, kbDocs, kbSearch, kbStored, kbHome, kbDocsStored,
                         kbClicks, kbCrossed>>
          /\ kbModal' \in {kbModal, NoModal} /\ kbConfirm' \in {kbConfirm, NoBase}
      BY <1>14 DEF FinishBases, FailBases, FinishCreateKb, FailDeleteKb, FailKb, KbAnswered,
                   KbOver
    <2>2. ~kbCrossed => (DocsFollow /\ SearchFollows)'
      BY <1>1, <2>1 DEF KbInv, KbFollows, DocsFollow, SearchFollows
    <2>3. QED
      BY <1>1, <1>2, <1>14, <2>1, <2>2, KbEnding
  <1>15. ASSUME NEW r \in kbAsked, FinishDocuments(r) \/ FailDocuments(r)
         PROVE  KbInv'
    <2>1. /\ r.kind = "documents" /\ kbAsked' = kbAsked \ {r}
          /\ UNCHANGED <<kbSelected, kbDialogs, kbStored, kbHome, kbDocsStored, kbClicks,
                         kbCrossed>>
      BY <1>15 DEF FinishDocuments, FailDocuments, KbAnswered, KbOver
    <2>2. PICK ids \in {r.answer, {}} : kbDocs' = [ids |-> ids, loading |-> FALSE]
      BY <1>15 DEF FinishDocuments, FailDocuments
    <2>3. r.kb \in Bases /\ \A d \in ids : d \in Docs /\ kbHome[d] = r.kb
      BY <1>1, <2>1, <2>2 DEF KbInv, RequestOwn
    <2>4. kbDocs' \in [ids : SUBSET Docs, loading : BOOLEAN] /\ kbDocs'.ids = ids
      BY <2>2, <2>3
    <2>5. ~kbCrossed => r.kb = kbSelected
      BY <1>1, <2>1 DEF KbInv, KbFollows, RequestFollows
    <2>6. ~kbCrossed => DocsFollow'
      BY <2>1, <2>3, <2>4, <2>5 DEF DocsFollow
    <2>7. ~kbCrossed => SearchFollows'
      BY <1>1, <2>1 DEF KbInv, KbFollows, SearchFollows
    <2>8. QED
      BY <1>1, <1>2, <1>15, <2>1, <2>4, <2>6, <2>7, KbEnding
  <1>16. ASSUME NEW r \in kbAsked, FinishDeleteDoc(r) \/ FinishUpload(r)
         PROVE  KbInv'
    <2>1. /\ r.kind \in {"remove", "upload"} /\ kbAsked' = kbAsked \ {r}
          /\ UNCHANGED <<kbSelected, kbDialogs, kbStored, kbHome, kbDocsStored, kbClicks,
                         kbCrossed>>
      BY <1>16 DEF FinishDeleteDoc, FinishUpload, KbAnswered, KbOver
    <2>2. PICK ids \in SUBSET (kbDocs.ids \cup {r.doc}) :
              /\ kbDocs' = [ids |-> ids, loading |-> kbDocs.loading]
              /\ r.kind = "remove" => ids \subseteq kbDocs.ids
      BY <1>2, <1>16 DEF FinishDeleteDoc, FinishUpload, KbAnswered, KbOver
    <2>3. r.kind = "upload" => r.doc \in Docs /\ kbHome[r.doc] = r.kb /\ r.kb \in Bases
      BY <1>1 DEF KbInv, RequestOwn
    <2>4. kbDocs' \in [ids : SUBSET Docs, loading : BOOLEAN]
            /\ kbDocs'.ids = ids /\ kbDocs'.loading = kbDocs.loading
      BY <1>2, <2>1, <2>2, <2>3
    <2>5. ~kbCrossed => (r.kind = "upload" => r.kb = kbSelected)
      BY <1>1 DEF KbInv, KbFollows, RequestFollows
    <2>6. ~kbCrossed => DocsFollow'
      BY <1>1, <2>1, <2>2, <2>3, <2>4, <2>5 DEF KbInv, KbFollows, DocsFollow
    <2>7. ~kbCrossed => SearchFollows'
      BY <1>1, <2>1 DEF KbInv, KbFollows, SearchFollows
    <2>8. QED
      BY <1>1, <1>2, <1>16, <2>1, <2>4, <2>6, <2>7, KbEnding
  <1>17. ASSUME NEW r \in kbAsked, FinishSearch(r) \/ FailSearch(r)
         PROVE  KbInv'
    <2>1. /\ r.kind = "search" /\ kbAsked' = kbAsked \ {r} /\ r.kb \in SomeBase
          /\ UNCHANGED <<kbSelected, kbDocs, kbModal, kbConfirm, kbStored, kbHome,
                         kbDocsStored, kbClicks, kbCrossed>>
      BY <1>2, <1>17 DEF FinishSearch, FailSearch, KbAnswered, KbOver, KbRequests
    <2>2. PICK results \in {r.kb, NoBase} :
              kbSearch' = [open |-> kbSearch.open, results |-> results]
      BY <1>2, <1>17 DEF FinishSearch, FailSearch
    <2>3. kbSearch' \in [open : BOOLEAN, results : SomeBase] /\ kbSearch'.results = results
      BY <1>2, <2>1, <2>2
    <2>4. ~kbCrossed => r.kb = kbSelected
      BY <1>1, <2>1 DEF KbInv, KbFollows, RequestFollows
    <2>5. ~kbCrossed => (DocsFollow /\ SearchFollows)'
      BY <1>1, <2>1, <2>2, <2>3, <2>4 DEF KbInv, KbFollows, DocsFollow, SearchFollows
    <2>6. QED
      BY <1>1, <1>2, <1>17, <2>1, <2>3, <2>5, KbEnding
  <1>18. ASSUME NEW r \in kbAsked, FinishUpdate(r) \/ FinishDeleteKb(r)
         PROVE  KbInv'
    <2>1. /\ r.kind \in {"update", "delete"} /\ kbAsked' = kbAsked \ {r}
          /\ r.kind = "delete" => r.kb \in Bases
          /\ r.kb \in SomeBase
          /\ UNCHANGED <<kbSearch, kbStored, kbHome, kbDocsStored, kbClicks>>
          /\ kbModal' \in {kbModal, NoModal} /\ kbConfirm' \in {kbConfirm, NoBase}
      BY <1>1, <1>2, <1>18
         DEF FinishUpdate, FinishDeleteKb, KbAnswered, KbOver, KbInv, RequestOwn, KbRequests
    <2>2. ~kbCrossed => r.selected = kbSelected
      BY <1>1, <2>1 DEF KbInv, KbFollows, RequestFollows
    <2>3. \/ UNCHANGED <<kbSelected, kbDocs, kbCrossed>>
          \/ /\ r.selected = r.kb /\ r.kind = "update"
             /\ SelectBase(r.kb, kbAsked \ {r}) /\ kbDocs' = kbDocs
          \/ /\ r.selected = r.kb /\ r.kind = "delete"
             /\ SelectBase(NoBase, kbAsked \ {r})
             /\ kbDocs' = [ids |-> {}, loading |-> kbDocs.loading]
      BY <1>2, <1>18 DEF FinishUpdate, FinishDeleteKb, KbAnswered, KbOver
    <2>4. kbSelected' \in SomeBase /\ kbCrossed' \in BOOLEAN
      BY <1>1, <1>2, <2>1, <2>3 DEF SelectBase, KbInv, KbTypes
    <2>5. kbDocs' \in [ids : SUBSET Docs, loading : BOOLEAN]
      <3>1. kbDocs' = kbDocs \/ kbDocs' = [ids |-> {}, loading |-> kbDocs.loading]
        BY <2>3
      <3>2. [ids |-> {}, loading |-> kbDocs.loading]
              \in [ids : SUBSET Docs, loading : BOOLEAN]
        BY <1>2
      <3>3. QED
        BY <1>2, <3>1, <3>2
    <2>6. KbTypes'
      BY <1>1, <1>2, <2>1, <2>4, <2>5 DEF KbInv, KbTypes
    <2>7. (\A q \in kbAsked : RequestOwn(q))'
      BY <1>1, <2>1 DEF KbInv, RequestOwn
    <2>8. KbFollows'
      <3>1. CASE kbSelected' = kbSelected /\ kbDocs' = kbDocs
        <4>1. kbCrossed => kbCrossed'
          BY <2>3 DEF SelectBase
        <4>2. QED
          BY <1>1, <2>1, <3>1, <4>1
             DEF KbInv, KbFollows, DocsFollow, SearchFollows, RequestFollows
      <3>2. CASE ~(kbSelected' = kbSelected /\ kbDocs' = kbDocs)
        <4>1. SUFFICES ASSUME ~kbCrossed' PROVE KbFollows'
          BY DEF KbFollows
        <4>2. r.selected = r.kb /\ ~kbCrossed
          BY <2>3, <3>2, <4>1 DEF SelectBase
        <4>3. r.kind = "delete" /\ kbSelected \in Bases
          BY <2>1, <2>2, <2>3, <3>2, <4>2 DEF SelectBase
        <4>4. /\ kbAsked' = {} /\ ~kbSearch.open
              /\ kbDocs' = [ids |-> {}, loading |-> kbDocs.loading]
          BY <1>2, <2>1, <2>3, <3>2, <4>1, <4>3 DEF SelectBase
        <4>5. QED
          BY <2>1, <4>4 DEF KbFollows, DocsFollow, SearchFollows
      <3>3. QED
        BY <3>1, <3>2
    <2>9. QED
      BY <2>6, <2>7, <2>8 DEF KbInv
  <1>19. CASE UNCHANGED kbVars
    BY <1>1, <1>19 DEF kbVars, KbInv, KbTypes, RequestOwn, KbFollows, DocsFollow,
                       SearchFollows, RequestFollows
  <1>20. QED
    BY <1>1, <1>4, <1>5, <1>6, <1>7, <1>8, <1>9, <1>10, <1>11, <1>12, <1>13, <1>14, <1>15,
       <1>16, <1>17, <1>18, <1>19 DEF KnowledgePageNext

(* The documents offered for deletion, and the results of a search, are    *)
(* those of the selected base, unless the selection changed under them.    *)
THEOREM ShownBelong == KnowledgePageSpec => []ShownBelongToSelected
  <1>1. KbInv => ShownBelongToSelected
    BY DEF KbInv, KbFollows, DocsFollow, SearchFollows, ShownBelongToSelected, RowsShown
  <1>2. QED
    BY <1>1, KbStart, KbNext, PTL DEF KnowledgePageSpec

-----------------------------------------------------------------------------
(* AuditPage.  Until the choice changes under a load, every load in flight *)
(* is for the choice, and so is what is shown when there is none.          *)

Queries == [filter : Filters, page : Nat]

AuditTypes ==
    /\ auditQuery \in Queries
    /\ auditShown \in [query : Queries, loading : BOOLEAN]
    /\ auditAsked \subseteq [n : Nat, query : Queries]
    /\ auditSteps \in Nat

AuditFollows ==
    ~auditCrossed =>
        /\ auditQuery.page > 1 => auditQuery.page <= PagesOf[auditQuery.filter]
        /\ \A r \in auditAsked : r.query = auditQuery
        /\ auditAsked = {} => auditShown.query = auditQuery

AuditInv == AuditTypes /\ AuditFollows

LEMMA AuditStart == AuditPageInit => AuditInv
  <1>1. SUFFICES ASSUME AuditPageInit PROVE AuditInv
    OBVIOUS
  <1>2. /\ Query(NoFilter, 1) \in Queries /\ Query(NoFilter, 1).page = 1
        /\ NothingShown \in Queries
    BY AuditPageAssumption DEF Query, Queries, NothingShown
  <1>3. [n |-> 0, query |-> auditQuery] \in [n : Nat, query : Queries]
    BY <1>1, <1>2 DEF AuditPageInit
  <1>4. [query |-> NothingShown, loading |-> TRUE] \in [query : Queries, loading : BOOLEAN]
    BY <1>2
  <1>5. AuditTypes
    BY <1>1, <1>2, <1>3, <1>4 DEF AuditPageInit, AuditTypes
  <1>6. AuditFollows
    <2>1. auditAsked # {} /\ \A r \in auditAsked : r.query = auditQuery
      BY <1>1 DEF AuditPageInit
    <2>2. auditQuery.page = 1
      BY <1>1, <1>2 DEF AuditPageInit
    <2>3. QED
      BY <2>1, <2>2 DEF AuditFollows
  <1>7. QED
    BY <1>5, <1>6 DEF AuditInv

\* A load that is started, for a page that exists if the choice did not change before.
LEMMA AuditLoading ==
  ASSUME AuditInv, NEW q \in Queries, AuditStep, LoadAudit(q),
         \/ q = auditQuery
         \/ q.page = 1
         \/ ~auditCrossed /\ auditAsked = {} => q.page <= PagesOf[q.filter]
  PROVE  AuditInv'
  <1>1. AuditTypes'
    <2>1. auditShown' \in [query : Queries, loading : BOOLEAN]
      BY DEF AuditInv, AuditTypes, LoadAudit
    <2>2. [n |-> auditSteps, query |-> q] \in [n : Nat, query : Queries]
      BY DEF AuditInv, AuditTypes
    <2>3. QED
      BY <2>1, <2>2 DEF AuditInv, AuditTypes, AuditStep, LoadAudit
  <1>2. ASSUME ~auditCrossed' PROVE AuditFollows'
    <2>1. ~auditCrossed /\ (q = auditQuery \/ auditAsked = {})
      BY <1>2 DEF LoadAudit
    <2>2. /\ auditQuery' = q
          /\ auditAsked' = auditAsked \cup {[n |-> auditSteps, query |-> q]}
      BY DEF LoadAudit
    <2>3. \A r \in auditAsked' : r.query = q
      BY <2>1, <2>2 DEF AuditInv, AuditFollows
    <2>4. q.page > 1 => q.page <= PagesOf[q.filter]
      BY <2>1 DEF AuditInv, AuditFollows, Queries
    <2>5. auditAsked' # {}
      BY <2>2
    <2>6. QED
      BY <2>2, <2>3, <2>4, <2>5 DEF AuditFollows
  <1>3. QED
    BY <1>1, <1>2 DEF AuditInv, AuditFollows

LEMMA AuditNext == AuditInv /\ [AuditPageNext]_auditVars => AuditInv'
  <1>1. SUFFICES ASSUME AuditInv, [AuditPageNext]_auditVars PROVE AuditInv'
    OBVIOUS
  <1>2. ASSUME NEW f \in Filters, ChangeFilter(f) PROVE AuditInv'
    <2>1. Query(f, 1) \in Queries /\ Query(f, 1).page = 1
      BY DEF Query, Queries
    <2>2. QED
      BY <1>1, <1>2, <2>1, AuditLoading DEF ChangeFilter
  <1>3. ASSUME NEW f \in Filters, NEW p \in 1..PagesOf[f], ChangePage(p) PROVE AuditInv'
    <2> DEFINE q == Query(auditQuery.filter, p)
    <2>1. p \in Nat /\ auditQuery.filter \in Filters
      BY <1>1, AuditPageAssumption DEF AuditInv, AuditTypes, Queries
    <2>2. q \in Queries /\ q.page = p /\ q.filter = auditQuery.filter
      BY <2>1 DEF Query, Queries
    <2>3. p <= PagesOf[auditShown.query.filter]
      BY <1>3, <2>1 DEF ChangePage
    <2>4. ~auditCrossed /\ auditAsked = {} => q.page <= PagesOf[q.filter]
      BY <1>1, <2>2, <2>3 DEF AuditInv, AuditFollows
    <2>5. QED
      BY <1>1, <1>3, <2>2, <2>4, AuditLoading DEF ChangePage
  <1>4. CASE RefreshAudit
    BY <1>1, <1>4, AuditLoading DEF RefreshAudit, AuditInv, AuditTypes
  <1>5. ASSUME NEW r \in auditAsked, FinishAudit(r) PROVE AuditInv'
    BY <1>1, <1>5 DEF FinishAudit, AuditInv, AuditTypes, AuditFollows
  <1>6. ASSUME NEW r \in auditAsked, FailAudit(r) PROVE AuditInv'
    BY <1>1, <1>6 DEF FailAudit, AuditInv, AuditTypes, AuditFollows
  <1>7. CASE UNCHANGED auditVars
    BY <1>1, <1>7 DEF auditVars, AuditInv, AuditTypes, AuditFollows
  <1>8. QED
    BY <1>1, <1>2, <1>3, <1>4, <1>5, <1>6, <1>7 DEF AuditPageNext

-----------------------------------------------------------------------------
(* PluginsPage.  Until a dialog is closed under its request, one plugin is *)
(* executed at a time, that of the dialog.                                 *)

AnyPlugin == Plugins \cup {NoPlugin}

PluginRequests ==
    [n : Nat, kind : {"load", "install", "uninstall", "execute"}, phase : {"sent", "served"},
     plugin : AnyPlugin, answer : SUBSET AnyPlugin, old : BOOLEAN]

Dialogs == [plugin : AnyPlugin, running : BOOLEAN, result : AnyPlugin]

PluginTypes ==
    /\ pluginTest \in Dialogs
    /\ pluginsAsked \subseteq PluginRequests
    /\ pluginsStored \subseteq AnyPlugin
    /\ pluginClicks \in Nat

Executed == {r \in pluginsAsked : r.kind = "execute"}

DialogFollows ==
    ~testCrossed =>
        /\ pluginTest.result \in {NoPlugin, pluginTest.plugin}
        /\ \A r \in Executed : pluginTest.running /\ r.plugin = pluginTest.plugin
        /\ \A r, s \in Executed : r = s
        /\ \A r \in Executed : r.plugin # NoPlugin

PluginInv == PluginTypes /\ DialogFollows

LEMMA PluginsStart == PluginsPageInit => PluginInv
  <1>1. SUFFICES ASSUME PluginsPageInit PROVE PluginInv
    OBVIOUS
  <1>2. PluginRequest("load", NoPlugin) \in PluginRequests
    BY <1>1 DEF PluginsPageInit, PluginRequest, PluginRequests, AnyPlugin
  <1>3. PluginTypes
    BY <1>1, <1>2, PluginsPageAssumption DEF PluginsPageInit, PluginTypes, Dialogs, AnyPlugin
  <1>4. Executed = {}
    BY <1>1 DEF PluginsPageInit, PluginRequest, Executed
  <1>5. QED
    BY <1>1, <1>3, <1>4 DEF PluginInv, DialogFollows, PluginsPageInit

\* What is asked beside the dialog leaves what is executed.
LEMMA PluginsAsking ==
  ASSUME PluginInv, NEW kind \in {"install", "uninstall"}, NEW p \in Plugins,
         PluginClick, PluginsAsk(kind, p), UNCHANGED <<pluginTest, pluginsStored, testCrossed>>
  PROVE  PluginInv'
  <1>1. PluginRequest(kind, p) \in PluginRequests /\ PluginRequest(kind, p).kind = kind
    BY DEF PluginRequest, PluginRequests, PluginInv, PluginTypes, AnyPlugin
  <1>2. PluginTypes'
    BY <1>1 DEF PluginInv, PluginTypes, PluginsAsk, PluginClick
  <1>3. Executed' = Executed
    BY <1>1 DEF Executed, PluginsAsk
  <1>4. QED
    BY <1>2, <1>3 DEF PluginInv, DialogFollows

\* A request that ends may leave another one, of a kind that is not executed.
LEMMA PluginsEnding ==
  ASSUME PluginInv, NEW r \in pluginsAsked, r.kind # "execute",
         NEW more \in SUBSET PluginRequests, \A q \in more : q.kind # "execute",
         pluginsAsked' = (pluginsAsked \ {r}) \cup more,
         UNCHANGED <<pluginTest, pluginClicks, testCrossed>>, pluginsStored' \subseteq AnyPlugin
  PROVE  PluginInv'
  <1>1. PluginTypes'
    BY DEF PluginInv, PluginTypes
  <1>2. Executed' = Executed
    BY DEF Executed
  <1>3. QED
    BY <1>1, <1>2 DEF PluginInv, DialogFollows

LEMMA PluginsNext == PluginInv /\ [PluginsPageNext]_pluginsVars => PluginInv'
  <1>1. SUFFICES ASSUME PluginInv, [PluginsPageNext]_pluginsVars PROVE PluginInv'
    OBVIOUS
  <1>2. ASSUME NEW p \in Plugins, InstallPlugin(p) \/ UninstallPlugin(p) PROVE PluginInv'
    BY <1>1, <1>2, PluginsAsking
       DEF InstallPlugin, UninstallPlugin, pluginsPage, pluginsHistory
  <1>3. ASSUME NEW p \in Plugins, OpenTestModal(p) PROVE PluginInv'
    <2>1. /\ pluginTest.plugin = NoPlugin
          /\ pluginTest' = [pluginTest EXCEPT !.plugin = p, !.result = NoPlugin]
          /\ pluginClicks' = pluginClicks + 1
          /\ UNCHANGED <<pluginsAsked, pluginsStored, testCrossed>>
      BY <1>3 DEF OpenTestModal, TabsShown, PluginClick, pluginsHistory
    <2>2. pluginTest' \in Dialogs /\ pluginTest'.result = NoPlugin
      BY <1>1, <2>1 DEF PluginInv, PluginTypes, Dialogs, AnyPlugin
    <2>3. PluginTypes' /\ Executed' = Executed
      BY <1>1, <2>1, <2>2 DEF PluginInv, PluginTypes, Executed
    <2>4. ~testCrossed => Executed = {}
      BY <1>1, <2>1 DEF PluginInv, DialogFollows
    <2>5. QED
      BY <2>1, <2>2, <2>3, <2>4 DEF PluginInv, DialogFollows
  <1>4. CASE CloseTestModal
    <2>1. /\ pluginTest' = [pluginTest EXCEPT !.plugin = NoPlugin, !.result = NoPlugin]
          /\ pluginClicks' = pluginClicks + 1
          /\ testCrossed' = (testCrossed \/ pluginTest.running)
          /\ UNCHANGED <<pluginsAsked, pluginsStored>>
      BY <1>4 DEF CloseTestModal, PluginClick
    <2>2. pluginTest' \in Dialogs /\ pluginTest'.result = NoPlugin
      BY <1>1, <2>1 DEF PluginInv, PluginTypes, Dialogs, AnyPlugin
    <2>3. PluginTypes' /\ Executed' = Executed
      BY <1>1, <2>1, <2>2 DEF PluginInv, PluginTypes, Executed
    <2>4. ~testCrossed' => Executed = {}
      BY <1>1, <2>1 DEF PluginInv, DialogFollows
    <2>5. QED
      BY <2>2, <2>3, <2>4 DEF PluginInv, DialogFollows
  <1>5. CASE ExecutePlugin
    <2> DEFINE q == PluginRequest("execute", pluginTest.plugin)
    <2>1. /\ pluginTest.plugin # NoPlugin /\ ~pluginTest.running
          /\ pluginTest' = [pluginTest EXCEPT !.running = TRUE, !.result = NoPlugin]
          /\ pluginsAsked' = pluginsAsked \cup {q}
          /\ pluginClicks' = pluginClicks + 1
          /\ UNCHANGED <<pluginsStored, testCrossed>>
      BY <1>5 DEF ExecutePlugin, PluginsAsk, PluginClick, pluginsHistory
    <2>2. q \in PluginRequests /\ q.kind = "execute" /\ q.plugin = pluginTest.plugin
      BY <1>1 DEF PluginRequest, PluginRequests, PluginInv, PluginTypes, Dialogs
    <2>3. /\ pluginTest' \in Dialogs /\ pluginTest'.running
          /\ pluginTest'.result = NoPlugin /\ pluginTest'.plugin = pluginTest.plugin
      BY <1>1, <2>1 DEF PluginInv, PluginTypes, Dialogs, AnyPlugin
    <2>4. Executed' = Executed \cup {q}
      BY <2>1, <2>2 DEF Executed
    <2>5. ~testCrossed => Executed = {}
      BY <1>1, <2>1 DEF PluginInv, DialogFollows
    <2>6. PluginTypes'
      BY <1>1, <2>1, <2>2, <2>3 DEF PluginInv, PluginTypes
    <2>7. QED
      BY <2>1, <2>2, <2>3, <2>4, <2>5, <2>6 DEF PluginInv, DialogFollows
  <1>6. ASSUME NEW r \in pluginsAsked, PluginsServe(r) PROVE PluginInv'
    <2> DEFINE q == [r EXCEPT !.phase = "served"]
               Old(x) == [x EXCEPT !.old = TRUE]
    <2>1. /\ UNCHANGED <<pluginTest, pluginClicks, testCrossed>>
          /\ r.kind = "load" => pluginsAsked' = ReadPlugins(r)
          /\ r.kind # "load" => pluginsAsked' = (pluginsAsked \ {r}) \cup {q}
      BY <1>6 DEF PluginsServe, pluginsPage, pluginsHistory
    <2>2. q \in PluginRequests /\ q.kind = r.kind /\ q.plugin = r.plugin
      BY <1>1 DEF PluginInv, PluginTypes, PluginRequests
    <2>3. pluginsStored' \subseteq AnyPlugin
      <3>1. r.plugin \in AnyPlugin
        BY <1>1 DEF PluginInv, PluginTypes, PluginRequests
      <3>2. QED
        BY <1>1, <1>6, <3>1 DEF PluginInv, PluginTypes, PluginsServe
    <2>4. CASE r.kind = "load"
      <3> DEFINE s == [r EXCEPT !.phase = "served", !.answer = pluginsStored]
      <3>1. s \in PluginRequests /\ s.kind = "load"
        BY <1>1, <2>4 DEF PluginInv, PluginTypes, PluginRequests
      <3>2. \A x \in pluginsAsked : Old(x) \in PluginRequests /\ Old(x).kind = x.kind
        BY <1>1 DEF PluginInv, PluginTypes, PluginRequests
      <3>3. pluginsAsked' =
              {IF x.kind = "load" /\ x.phase = "served" THEN Old(x) ELSE x :
                  x \in pluginsAsked \ {r}} \cup {s}
        BY <2>1, <2>4 DEF ReadPlugins
      <3> HIDE DEF s, Old
      <3>4. PluginTypes'
        BY <1>1, <2>1, <2>3, <3>1, <3>2, <3>3 DEF PluginInv, PluginTypes
      <3>5. Executed' = Executed
        BY <2>4, <3>1, <3>2, <3>3 DEF Executed
      <3>6. QED
        BY <1>1, <2>1, <3>4, <3>5 DEF PluginInv, DialogFollows
    <2> HIDE DEF q
    <2>5. CASE r.kind \notin {"load", "execute"}
      BY <1>1, <2>1, <2>2, <2>3, <2>5, PluginsEnding
    <2>6. CASE r.kind = "execute"
      <3>1. PluginTypes'
        BY <1>1, <2>1, <2>2, <2>3, <2>6 DEF PluginInv, PluginTypes
      <3>2. Executed' = (Executed \ {r}) \cup {q} /\ r \in Executed
        BY <2>1, <2>2, <2>6 DEF Executed
      <3>3. QED
        BY <1>1, <2>1, <2>2, <3>1, <3>2 DEF PluginInv, DialogFollows
    <2>7. QED
      BY <2>4, <2>5, <2>6
  <1>7. ASSUME NEW r \in pluginsAsked,
               FinishLoadPlugins(r) \/ FailLoadPlugins(r) \/ FailChange(r)
        PROVE  PluginInv'
    <2>1. /\ r.kind # "execute" /\ pluginsAsked' = (pluginsAsked \ {r}) \cup {}
          /\ UNCHANGED <<pluginTest, pluginsStored, pluginClicks, testCrossed>>
      BY <1>7 DEF FinishLoadPlugins, FailLoadPlugins, FailChange, PluginAnswered, PluginOver
    <2>2. pluginsStored' \subseteq AnyPlugin /\ {} \in SUBSET PluginRequests
      BY <1>1, <2>1 DEF PluginInv, PluginTypes
    <2>3. QED
      BY <1>1, <2>1, <2>2, PluginsEnding
  <1>8. ASSUME NEW r \in pluginsAsked, FinishChange(r) PROVE PluginInv'
    <2> DEFINE q == [r EXCEPT !.kind = "load", !.phase = "sent",
                              !.plugin = IF r.kind = "install" THEN @ ELSE NoPlugin]
    <2>1. /\ r.kind # "execute" /\ pluginsAsked' = (pluginsAsked \ {r}) \cup {q}
          /\ UNCHANGED <<pluginTest, pluginsStored, pluginClicks, testCrossed>>
      BY <1>8 DEF FinishChange, PluginAnswered, PluginOver, pluginsHistory
    <2>2. q \in PluginRequests /\ q.kind = "load"
      BY <1>1 DEF PluginInv, PluginTypes, PluginRequests, AnyPlugin
    <2>3. pluginsStored' \subseteq AnyPlugin
      BY <1>1, <2>1 DEF PluginInv, PluginTypes
    <2> HIDE DEF q
    <2>4. {q} \in SUBSET PluginRequests /\ \A x \in {q} : x.kind # "execute"
      BY <2>2
    <2>5. QED
      BY <1>1, <2>1, <2>3, <2>4, PluginsEnding
  <1>9. ASSUME NEW r \in pluginsAsked, EndTestExecute(r) PROVE PluginInv'
    <2>1. /\ r.kind = "execute" /\ pluginsAsked' = pluginsAsked \ {r}
          /\ pluginTest' = [pluginTest EXCEPT !.running = FALSE, !.result = r.plugin]
          /\ UNCHANGED <<pluginsStored, pluginClicks, testCrossed>>
      BY <1>9 DEF EndTestExecute, PluginOver, pluginsHistory
    <2>2. r.plugin \in AnyPlugin
      BY <1>1 DEF PluginInv, PluginTypes, PluginRequests
    <2>3. /\ pluginTest' \in Dialogs
          /\ pluginTest'.result = r.plugin /\ pluginTest'.plugin = pluginTest.plugin
      BY <1>1, <2>1, <2>2 DEF PluginInv, PluginTypes, Dialogs
    <2>4. PluginTypes'
      BY <1>1, <2>1, <2>3 DEF PluginInv, PluginTypes
    <2>5. r \in Executed /\ Executed' = Executed \ {r}
      BY <2>1 DEF Executed
    <2>6. ~testCrossed => Executed' = {} /\ r.plugin = pluginTest.plugin
      BY <1>1, <2>5 DEF PluginInv, DialogFollows
    <2>7. QED
      BY <2>1, <2>3, <2>4, <2>6 DEF PluginInv, DialogFollows
  <1>10. CASE UNCHANGED pluginsVars
    BY <1>1, <1>10 DEF pluginsVars, pluginsPage, pluginsHistory, PluginInv, PluginTypes,
                       DialogFollows, Executed
  <1>11. QED
    BY <1>1, <1>2, <1>3, <1>4, <1>5, <1>6, <1>7, <1>8, <1>9, <1>10 DEF PluginsPageNext
-----------------------------------------------------------------------------
(* SettingsForms.  What the forms show of the settings the page has read,  *)
(* or of those a save of the page's was made from.                         *)

Stored == Values \cup {"unset"}

FormTypes ==
    /\ formShown \in [Fields -> Values]
    /\ formLoad \in [phase : {"sent", "served", "over"}, answer : [Fields -> Stored]]
    /\ settings \in [Fields -> Stored]
    /\ formTyped \subseteq Fields
    /\ formLoaded \in [Fields -> Stored \cup {"unread"}]

SaveRecords(fields) ==
    [own : BOOLEAN, n : Nat, values : [fields -> Values],
     found : [Fields -> Stored] \cup {Unread}, typed : SUBSET Fields,
     read : [Fields -> Stored \cup {"unread"}]]

\* What was read, may be restored and was not typed over is shown as it was read.
ShowsRead(shown, f, typed, read) ==
    read[f] # "unread" /\ Restores(f, read[f]) /\ f \notin typed => shown[f] = read[f]

FormShowsRead == \A f \in Fields : ShowsRead(formShown, f, formTyped, formLoaded)

\* A save is of values that may be stored; the page's own, of values that were shown.
SaveIsOfRead(s) ==
    /\ \E fields \in SUBSET Fields : s \in SaveRecords(fields)
    /\ s.own => \A f \in DOMAIN s.values : ShowsRead(s.values, f, s.typed, s.read)

FormCounts == formClicks \in Nat /\ otherSaves \in Nat

FormInv ==
    /\ FormTypes
    /\ FormCounts
    /\ FormShowsRead
    /\ \A s \in saves : SaveIsOfRead(s)

LEMMA FormInit == SettingsFormsInit => FormInv
  <1>1. SUFFICES ASSUME SettingsFormsInit PROVE FormInv
    OBVIOUS
  <1>2. FormTypes
    BY <1>1 DEF SettingsFormsInit, FormTypes, Values, Stored, Unset, Unread
  <1>3. FormShowsRead /\ FormCounts
    BY <1>1 DEF SettingsFormsInit, FormShowsRead, FormCounts, ShowsRead, Unread
  <1>4. QED
    BY <1>1, <1>2, <1>3 DEF FormInv, SettingsFormsInit

\* The save of a form, and the step that leaves the forms' saves to others.
LEMMA FormSaveFields ==
  ASSUME FormInv, NEW fields \in SUBSET Fields, SaveFields(fields)
  PROVE  FormInv'
  <1>1. UNCHANGED <<formShown, formLoad, settings, otherSaves, formTyped, formLoaded>>
    BY DEF SaveFields
  <1>2. formClicks' \in Nat
    BY DEF SaveFields, FormClick, FormInv, FormCounts
  <1>3. FormTypes' /\ FormCounts' /\ FormShowsRead'
    BY <1>1, <1>2 DEF FormInv, FormTypes, FormCounts, FormShowsRead, ShowsRead
  <1> DEFINE s == SaveOf(TRUE, formClicks', [f \in fields |-> formShown[f]],
                       formTyped, formLoaded)
  <1>4. saves' = saves \cup {s}
    BY DEF SaveFields, Restrict
  <1>5. s \in SaveRecords(fields)
    BY <1>2 DEF SaveOf, SaveRecords, FormInv, FormTypes
  <1>6. \A f \in DOMAIN s.values : ShowsRead(s.values, f, s.typed, s.read)
    BY DEF SaveOf, FormInv, FormShowsRead, ShowsRead
  <1>7. SaveIsOfRead(s)
    BY <1>5, <1>6 DEF SaveIsOfRead
  <1>8. QED
    BY <1>3, <1>4, <1>7 DEF FormInv

\* Which values a save writes.
LEMMA MergedIsStored ==
  ASSUME NEW s, SaveIsOfRead(s), s.found # Unread
  PROVE  Merged(s) \in [Fields -> Stored]
  <1>1. PICK fields \in SUBSET Fields : s \in SaveRecords(fields)
    BY DEF SaveIsOfRead
  <1>2. /\ s.values \in [fields -> Values]
        /\ s.found \in [Fields -> Stored]
    BY <1>1 DEF SaveRecords
  <1>3. \A f \in Fields : (IF f \in DOMAIN s.values THEN s.values[f] ELSE s.found[f]) \in Stored
    BY <1>2 DEF Stored
  <1>4. QED
    BY <1>3 DEF Merged

LEMMA FormStep == FormInv /\ [SettingsFormsNext]_formVars => FormInv'
  <1>1. SUFFICES ASSUME FormInv, [SettingsFormsNext]_formVars PROVE FormInv'
    OBVIOUS
  <1> USE DEF FormInv
  <1>2. ASSUME UNCHANGED <<formShown, formTyped, formLoaded, formClicks>>,
               saves' \subseteq saves, FormTypes', otherSaves' \in Nat
        PROVE  FormInv'
    BY <1>1, <1>2 DEF FormShowsRead, FormCounts, ShowsRead
  <1>3. CASE ServeSettings
    <2>1. PICK answer \in {settings, Unset} :
                formLoad' = [phase |-> "served", answer |-> answer]
      BY <1>3 DEF ServeSettings
    <2>2. Unset \in [Fields -> Stored]
      BY DEF Unset, Stored
    <2>3. FormTypes'
      BY <1>1, <1>3, <2>1, <2>2 DEF ServeSettings, FormTypes
    <2>4. QED
      BY <1>1, <1>2, <1>3, <2>3 DEF ServeSettings, FormCounts
  <1>4. CASE FinishLoadSettings
    <2>1. \A f \in Fields : Restores(f, formLoad.answer[f]) => formLoad.answer[f] \in Values
      BY <1>1 DEF FormTypes, Restores, Stored
    <2>2. FormTypes' /\ FormCounts'
      BY <1>1, <1>4, <2>1 DEF FinishLoadSettings, FormTypes, FormCounts
    <2>3. FormShowsRead'
      BY <1>1, <1>4 DEF FinishLoadSettings, FormTypes, FormShowsRead, ShowsRead
    <2>4. QED
      BY <1>1, <1>4, <2>2, <2>3 DEF FinishLoadSettings
  <1>5. CASE FailLoadSettings
    <2>1. Unset \in [Fields -> Stored]
      BY DEF Unset, Stored
    <2>2. FormTypes'
      BY <1>1, <1>5, <2>1 DEF FailLoadSettings, FormTypes
    <2>3. QED
      BY <1>1, <1>2, <1>5, <2>2 DEF FailLoadSettings, FormCounts
  <1>6. ASSUME NEW f \in Fields, NEW v \in Values, EditField(f, v)
        PROVE  FormInv'
    <2>1. FormTypes' /\ FormCounts'
      BY <1>1, <1>6 DEF EditField, FormClick, FormTypes, FormCounts
    <2>2. FormShowsRead'
      BY <1>1, <1>6 DEF EditField, FormTypes, FormShowsRead, ShowsRead
    <2>3. QED
      BY <1>1, <1>6, <2>1, <2>2 DEF EditField
  <1>7. ASSUME NEW f \in Fields, NEW v \in Values, OthersSave(f, v)
        PROVE  FormInv'
    <2> DEFINE s == SaveOf(FALSE, otherSaves', [g \in {f} |-> v], {f}, Unread)
    <2>1. FormTypes' /\ FormCounts' /\ FormShowsRead' /\ otherSaves' \in Nat
      BY <1>1, <1>7 DEF OthersSave, FormTypes, FormCounts, FormShowsRead, ShowsRead
    <2>2. saves' = saves \cup {s}
      BY <1>7 DEF OthersSave
    <2>3. s \in SaveRecords({f})
      BY <2>1 DEF SaveOf, SaveRecords, Unread
    <2>4. ~s.own
      BY DEF SaveOf
    <2>5. SaveIsOfRead(s)
      BY <2>3, <2>4 DEF SaveIsOfRead
    <2>6. QED
      BY <1>1, <2>1, <2>2, <2>5
  <1>8. CASE HandleModelConfigSave
    BY <1>1, <1>8, FormSaveFields DEF HandleModelConfigSave, Fields
  <1>9. CASE HandleGeneralSave
    BY <1>1, <1>9, FormSaveFields DEF HandleGeneralSave, Fields
  <1>10. CASE EndSaveSettings
    BY <1>1, <1>2, <1>10 DEF EndSaveSettings, FormTypes, FormCounts
  <1>11. ASSUME NEW s \in saves, ReadForSave(s)
         PROVE  FormInv'
    <2> DEFINE r == [s EXCEPT !.found = settings]
    <2>1. PICK fields \in SUBSET Fields : s \in SaveRecords(fields)
      BY <1>1 DEF SaveIsOfRead
    <2>2. r \in SaveRecords(fields)
      BY <1>1, <2>1 DEF SaveRecords, FormTypes
    <2>3. r.own = s.own /\ r.values = s.values /\ r.typed = s.typed /\ r.read = s.read
      BY <2>1 DEF SaveRecords
    <2>4. SaveIsOfRead(r)
      BY <1>1, <2>2, <2>3 DEF SaveIsOfRead
    <2>5. saves' = (saves \ {s}) \cup {r}
      BY <1>11 DEF ReadForSave
    <2>6. FormTypes' /\ FormCounts' /\ FormShowsRead'
      BY <1>1, <1>11 DEF ReadForSave, FormTypes, FormCounts, FormShowsRead, ShowsRead
    <2>7. QED
      BY <1>1, <2>4, <2>5, <2>6
  <1>12. ASSUME NEW s \in saves, WriteSave(s)
         PROVE  FormInv'
    <2>1. settings' \in [Fields -> Stored]
      BY <1>1, <1>12, MergedIsStored DEF WriteSave
    <2>2. FormTypes'
      BY <1>1, <1>12, <2>1 DEF WriteSave, FormTypes
    <2>3. QED
      BY <1>1, <1>2, <1>12, <2>2 DEF WriteSave, FormCounts
  <1>13. ASSUME NEW s \in saves, FailSettingsSave(s)
         PROVE  FormInv'
    BY <1>1, <1>2, <1>13 DEF FailSettingsSave, FormTypes, FormCounts
  <1>14. CASE UNCHANGED formVars
    BY <1>1, <1>2, <1>14 DEF formVars, FormTypes, FormCounts
  <1>15. QED
    BY <1>1, <1>3, <1>4, <1>5, <1>6, <1>7, <1>8, <1>9, <1>10, <1>11, <1>12, <1>13, <1>14
       DEF SettingsFormsNext

\* What excuses the save s for changing the setting f.
Excused(s, f) ==
    \/ ~s.own
    \/ f \in s.typed
    \/ s.read[f] # settings[f]
    \/ f \notin DOMAIN s.values /\ s.found[f] # settings[f]
    \/ settings[f] = "unset"
    \/ f \in RestoredIfTrue /\ settings[f] = "empty"

KeepsSettings ==
    \A f \in Fields : settings'[f] # settings[f] => \E s \in saves \ saves' : Excused(s, f)

\* Only the step that writes a save changes what is stored.
LEMMA FormKeeps == FormInv /\ [SettingsFormsNext]_formVars => KeepsSettings
  <1>1. SUFFICES ASSUME FormInv, [SettingsFormsNext]_formVars,
                        NEW f \in Fields, settings'[f] # settings[f]
                 PROVE  \E s \in saves \ saves' : Excused(s, f)
    BY DEF KeepsSettings
  <1>2. PICK s \in saves : WriteSave(s)
    BY <1>1 DEF SettingsFormsNext, ServeSettings, FinishLoadSettings, FailLoadSettings,
       EditField, OthersSave, HandleModelConfigSave, HandleGeneralSave, SaveFields,
       EndSaveSettings, ReadForSave, FailSettingsSave, formVars
  <1>3. s \in saves \ saves'
    BY <1>2 DEF WriteSave
  <1>4. SUFFICES ASSUME ~Excused(s, f) PROVE FALSE
    BY <1>3
  <1>5. settings'[f] = IF f \in DOMAIN s.values THEN s.values[f] ELSE s.found[f]
    BY <1>2 DEF WriteSave, Merged
  <1>6. f \in DOMAIN s.values /\ s.values[f] # settings[f]
    BY <1>1, <1>4, <1>5 DEF Excused
  <1>7. ShowsRead(s.values, f, s.typed, s.read)
    BY <1>1, <1>4, <1>6 DEF FormInv, SaveIsOfRead, Excused
  <1>8. settings[f] # "unread"
    BY <1>1 DEF FormInv, FormTypes, Stored, Values
  <1>9. QED
    BY <1>4, <1>6, <1>7, <1>8 DEF Excused, ShowsRead, Restores

(* A save of the page keeps the settings that its user left alone and the  *)
(* page had read, with the exceptions that SavesKeepSettings lists: for    *)
(* any fields, any settings stored, any number of saves of the page and of *)
(* others, and every order of their reads and writes.                      *)
THEOREM FormsKeepSettings == SettingsFormsSpec => SavesKeepSettings
  <1>1. FormInv /\ [SettingsFormsNext]_formVars => [KeepsSettings]_formVars
    BY FormKeeps
  <1>2. QED
    BY <1>1, FormInit, FormStep, PTL
       DEF SettingsFormsSpec, SavesKeepSettings, KeepsSettings, Excused
-----------------------------------------------------------------------------
(* BillingTab.  The dialog and the payment exist only while nothing loads, *)
(* and are for a plan above the one shown.                                 *)

Order == [n : Nat, plan : Plans, paid : BOOLEAN, amount : Nat, total : Nat]

BillTypes ==
    /\ planShown \in [plan : Plans \cup {NoPlan}, loading : BOOLEAN]
    /\ payModal \in [open : BOOLEAN, plan : Plans \cup {NoPlan}, months : Nat]
    /\ payment \in [phase : PayPhases, plan : Plans \cup {NoPlan}, months : Nat,
                    order : Nat]
    /\ billAsked \subseteq [n : Nat, kind : {"data", "orders"},
                            phase : {"sent", "served"}, plan : Plans \cup {NoPlan},
                            orders : SUBSET Order]
    /\ tenantPlan \in Plans
    /\ billOrders \subseteq Order
    /\ IsFiniteSet(billOrders)
    /\ payClicks \in Nat

\* At most one loadData is in flight, and the spinner shows while it is.
OneLoad ==
    \A r \in billAsked : r.kind = "data" =>
        planShown.loading /\ \A s \in billAsked : s.kind = "data" => s = r

Raises(p) ==
    ~planShown.loading /\ planShown.plan \in Plans /\ p \in Plans /\ p > planShown.plan

OffersRaise ==
    /\ payModal.open => Raises(payModal.plan)
    /\ payment.phase # "none" => Raises(payment.plan)

BillInv == BillTypes /\ OneLoad /\ OffersRaise

LEMMA BillInit == BillingTabInit => BillInv
  <1>1. SUFFICES ASSUME BillingTabInit PROVE BillInv
    OBVIOUS
  <1>2. IsFiniteSet(billOrders)
    BY <1>1, FS_EmptySet DEF BillingTabInit
  <1>3. BillTypes
    BY <1>1, <1>2 DEF BillingTabInit, BillTypes, NoPayment, PayPhases, BillRequest
  <1>4. OneLoad /\ OffersRaise
    BY <1>1 DEF BillingTabInit, OneLoad, OffersRaise, NoPayment, BillRequest
  <1>5. QED
    BY <1>3, <1>4 DEF BillInv

\* What an order is made of has a price.
LEMMA OrderTypes ==
  ASSUME NEW p \in Plans, NEW m \in Nat
  PROVE  OrderAmount(p, m) \in Nat /\ CalcTotal(p, m) \in Nat
  <1>1. ShownPrice[p] \in Nat /\ ServerPrice[p] \in Nat
    BY BillingTabAssumption
  <1>2. \A a, b \in Nat : a * b \in Nat
    OBVIOUS
  <1>3. Tenths(m) \in Nat
    BY DEF Tenths
  <1>4. ShownPrice[p] * m * Tenths(m) \in Nat
    BY <1>1, <1>2, <1>3
  <1>5. \A a \in Nat : (a + 5) \div 10 \in Nat
    OBVIOUS
  <1>6. QED
    BY <1>1, <1>2, <1>4, <1>5 DEF OrderAmount, CalcTotal

\* An answer to loadData ends the only one in flight.
LEMMA BillData ==
  ASSUME BillInv, NEW r \in billAsked, BillOver(r, "data"),
         NEW plan \in Plans \cup {NoPlan}, UNCHANGED ordersShown,
         planShown' = [plan |-> plan, loading |-> FALSE]
  PROVE  BillInv'
  <1> USE DEF BillInv, BillOver
  <1>1. BillTypes'
    BY DEF BillTypes, billServer
  <1>2. planShown.loading /\ ~payModal.open /\ payment.phase = "none"
    BY DEF OneLoad, OffersRaise, Raises
  <1>3. OneLoad'
    BY DEF OneLoad
  <1>4. OffersRaise'
    BY <1>2 DEF OffersRaise
  <1>5. QED
    BY <1>1, <1>3, <1>4

LEMMA BillStep == BillInv /\ [BillingTabNext]_billVars => BillInv'
  <1>1. SUFFICES ASSUME BillInv, [BillingTabNext]_billVars PROVE BillInv'
    OBVIOUS
  <1> USE DEF BillInv
  <1> USE BillingTabAssumption
  <1>2. ASSUME UNCHANGED <<planShown, billAsked>>, BillTypes', OffersRaise'
        PROVE  BillInv'
    BY <1>1, <1>2 DEF OneLoad
  <1>3. ASSUME NEW p \in Plans, OpenUpgradeModal(p)
        PROVE  BillInv'
    <2>1. p > planShown.plan /\ ~planShown.loading /\ planShown.plan \in Plans
      BY <1>1, <1>3 DEF OpenUpgradeModal, PlansOffered, TabShown, BillTypes
    <2>2. BillTypes'
      BY <1>1, <1>3 DEF OpenUpgradeModal, BillTypes, PayClick, billServer
    <2>3. OffersRaise'
      BY <1>1, <1>3, <2>1 DEF OpenUpgradeModal, OffersRaise, Raises
    <2>4. QED
      BY <1>2, <1>3, <2>2, <2>3 DEF OpenUpgradeModal
  <1>4. ASSUME NEW p \in Plans, OthersUpgrade(p)
        PROVE  BillInv'
    <2>1. BillTypes' /\ OffersRaise'
      BY <1>1, <1>4 DEF OthersUpgrade, BillTypes, OffersRaise, Raises, billPage
    <2>2. QED
      BY <1>2, <1>4, <2>1 DEF OthersUpgrade, billPage
  <1>5. ASSUME NEW m \in Durations, SetPayMonths(m)
        PROVE  BillInv'
    <2>1. BillTypes' /\ OffersRaise'
      BY <1>1, <1>5 DEF SetPayMonths, BillTypes, OffersRaise, Raises, PayClick, billServer
    <2>2. QED
      BY <1>2, <1>5, <2>1 DEF SetPayMonths
  <1>6. CASE ClosePayModal
    <2>1. payModal' = [open |-> FALSE, plan |-> payModal.plan, months |-> payModal.months]
      BY <1>1, <1>6 DEF ClosePayModal, BillTypes
    <2>2. BillTypes'
      <3>1. payModal' \in [open : BOOLEAN, plan : Plans \cup {NoPlan}, months : Nat]
        BY <1>1, <2>1 DEF BillTypes
      <3>2. UNCHANGED <<planShown, payment, billAsked, tenantPlan, billOrders>>
        BY <1>6 DEF ClosePayModal, billServer
      <3>3. payClicks' \in Nat
        BY <1>1, <1>6 DEF ClosePayModal, PayClick, BillTypes
      <3>4. QED
        BY <1>1, <3>1, <3>2, <3>3 DEF BillTypes
    <2>3. OffersRaise'
      BY <1>1, <1>6, <2>1 DEF ClosePayModal, OffersRaise, Raises
    <2>4. QED
      BY <1>2, <1>6, <2>2, <2>3 DEF ClosePayModal
  <1>7. CASE HandlePay
    <2>0. payment' \in [phase : PayPhases, plan : Plans \cup {NoPlan}, months : Nat,
                        order : Nat]
      BY <1>1, <1>7 DEF HandlePay, BillTypes, NoPayment, PayPhases
    <2>1. BillTypes'
      BY <1>1, <1>7, <2>0 DEF HandlePay, BillTypes, PayClick, billPage, billServer
    <2>2. payment'.plan = payModal.plan /\ payModal.open
      BY <1>7 DEF HandlePay, NoPayment, DialogShown
    <2>3. OffersRaise'
      BY <1>1, <1>7, <2>2 DEF HandlePay, OffersRaise, Raises, billPage
    <2>4. QED
      BY <1>2, <1>7, <2>1, <2>3 DEF HandlePay, billPage
  <1>8. CASE ServeOrder
    <2> DEFINE n == Cardinality(billOrders) + 1
               o == [n |-> n, plan |-> payment.plan, paid |-> FALSE,
                     amount |-> OrderAmount(payment.plan, payment.months),
                     total |-> CalcTotal(payment.plan, payment.months)]
    <2>1. n \in Nat
      BY <1>1, FS_CardinalityType DEF BillTypes
    <2>2. payment.plan \in Plans /\ payment.months \in Nat
      BY <1>1, <1>8 DEF ServeOrder, OffersRaise, Raises, BillTypes
    <2>3. o \in Order
      BY <2>1, <2>2, OrderTypes DEF Order
    <2>4. billOrders' = billOrders \cup {o}
      BY <1>8 DEF ServeOrder
    <2>5. billOrders' \subseteq Order /\ IsFiniteSet(billOrders')
      BY <1>1, <2>3, <2>4, FS_AddElement DEF BillTypes
    <2>6. payment' = [payment EXCEPT !.phase = "ordered", !.order = n]
      BY <1>8 DEF ServeOrder
    <2>7. BillTypes'
      BY <1>1, <1>8, <2>1, <2>5, <2>6 DEF ServeOrder, BillTypes, PayPhases, billPage
    <2>8. OffersRaise'
      BY <1>1, <1>8, <2>6 DEF ServeOrder, BillTypes, OffersRaise, Raises, billPage
    <2>9. QED
      BY <1>2, <1>8, <2>7, <2>8 DEF ServeOrder, billPage
  <1>9. CASE PayTheOrder
    <2>1. BillTypes' /\ OffersRaise'
      BY <1>1, <1>9 DEF PayTheOrder, BillTypes, OffersRaise, Raises, PayPhases, billPage,
                        billServer
    <2>2. QED
      BY <1>2, <1>9, <2>1 DEF PayTheOrder, billPage
  <1>10. CASE ServePayment
    <2> DEFINE Paid(o) == IF o.n = payment.order THEN [o EXCEPT !.paid = TRUE] ELSE o
    <2>1. billOrders' = {Paid(o) : o \in billOrders}
      BY <1>10 DEF ServePayment
    <2>2. billOrders' \subseteq Order
      <3>1. \A o \in Order : Paid(o) \in Order
        BY DEF Order
      <3>2. QED
        BY <1>1, <2>1, <3>1 DEF BillTypes
    <2>3. IsFiniteSet(billOrders')
      <3> DEFINE image == [o \in billOrders |-> Paid(o)]
      <3> HIDE DEF Paid
      <3>1. image \in Surjection(billOrders, billOrders')
        BY <2>1, Fun_IsSurj
      <3>2. QED
        BY <1>1, <3>1, FS_Surjection DEF BillTypes
    <2>4. tenantPlan' \in Plans
      BY <1>1, <1>10 DEF ServePayment, OffersRaise, Raises
    <2>5. BillTypes'
      BY <1>1, <1>10, <2>2, <2>3, <2>4 DEF ServePayment, BillTypes, PayPhases, billPage
    <2>6. OffersRaise'
      BY <1>1, <1>10 DEF ServePayment, BillTypes, OffersRaise, Raises, billPage
    <2>7. QED
      BY <1>2, <1>10, <2>5, <2>6 DEF ServePayment, billPage
  <1>11. CASE FinishPay
    <2> DEFINE new == {BillRequest("data"), BillRequest("orders")}
    <2>1. new \subseteq [n : Nat, kind : {"data", "orders"}, phase : {"sent", "served"},
                         plan : Plans \cup {NoPlan}, orders : SUBSET Order]
      BY <1>1 DEF BillTypes, BillRequest
    <2>2. payment' \in [phase : PayPhases, plan : Plans \cup {NoPlan}, months : Nat,
                        order : Nat]
      BY <1>11 DEF FinishPay, NoPayment, PayPhases
    <2>3. BillTypes'
      <3> HIDE DEF new
      <3>1. billAsked' = billAsked \cup new
        BY <1>11 DEF FinishPay, new
      <3>2. QED
        BY <1>1, <1>11, <2>1, <2>2, <3>1 DEF FinishPay, BillTypes, billServer
    <2>4. \A r \in billAsked : r.kind # "data"
      BY <1>1, <1>11 DEF FinishPay, OffersRaise, Raises, OneLoad
    <2>5. \A r \in billAsked' : r.kind = "data" => r = BillRequest("data")
      BY <1>11, <2>4 DEF FinishPay, BillRequest
    <2>6. OneLoad'
      BY <1>1, <1>11, <2>5 DEF FinishPay, OneLoad, BillTypes
    <2>7. OffersRaise'
      BY <1>1, <1>11 DEF FinishPay, OffersRaise, NoPayment, BillTypes
    <2>8. QED
      BY <2>3, <2>6, <2>7
  <1>12. CASE FailPay
    <2>1. BillTypes' /\ OffersRaise'
      BY <1>1, <1>12 DEF FailPay, BillTypes, OffersRaise, Raises, NoPayment, PayPhases,
                         billPage, billServer
    <2>2. QED
      BY <1>2, <1>12, <2>1 DEF FailPay, billPage
  <1>13. ASSUME NEW r \in billAsked, BillServe(r)
         PROVE  BillInv'
    <2> DEFINE served == [r EXCEPT !.phase = "served", !.plan = tenantPlan,
                                   !.orders = billOrders]
    <2>1. billAsked' = (billAsked \ {r}) \cup {served}
      BY <1>13 DEF BillServe
    <2>2. served.kind = r.kind
      BY <1>1 DEF BillTypes
    <2>3. BillTypes'
      BY <1>1, <1>13, <2>1 DEF BillServe, BillTypes, billPage, billServer
    <2>4. OneLoad'
      <3> HIDE DEF served
      <3>1. UNCHANGED planShown
        BY <1>13 DEF BillServe, billPage
      <3>2. QED
        BY <1>1, <2>1, <2>2, <3>1 DEF OneLoad
    <2>5. OffersRaise'
      BY <1>1, <1>13 DEF BillServe, OffersRaise, Raises, billPage
    <2>6. QED
      BY <2>3, <2>4, <2>5
  <1>14. ASSUME NEW r \in billAsked, FinishData(r)
         PROVE  BillInv'
    BY <1>1, <1>14, BillData DEF FinishData, BillTypes
  <1>15. ASSUME NEW r \in billAsked, FailData(r)
         PROVE  BillInv'
    <2>1. planShown' = [plan |-> planShown.plan, loading |-> FALSE]
      BY <1>1, <1>15 DEF FailData, BillTypes
    <2>2. QED
      BY <1>1, <1>15, <2>1, BillData DEF FailData, BillTypes
  <1>16. ASSUME NEW r \in billAsked, BillOver(r, "orders"), UNCHANGED planShown
         PROVE  BillInv'
    <2>1. BillTypes' /\ OneLoad' /\ OffersRaise'
      BY <1>1, <1>16 DEF BillOver, BillTypes, OneLoad, OffersRaise, Raises, billServer
    <2>2. QED
      BY <2>1
  <1>17. CASE UNCHANGED billVars
    BY <1>1, <1>17 DEF billVars, billPage, billServer, BillTypes, OneLoad, OffersRaise,
                       Raises
  <1>18. QED
    BY <1>1, <1>3, <1>4, <1>5, <1>6, <1>7, <1>8, <1>9, <1>10, <1>11, <1>12, <1>13, <1>14,
       <1>15, <1>16, <1>17 DEF BillingTabNext, FinishOrders, FailOrders

\* Only a payment that is served pays an order.
RaisesPlan ==
    PaidOrders' # PaidOrders => tenantPlan' > tenantPlan \/ planShown.plan # tenantPlan

LEMMA BillRaises == BillInv /\ [BillingTabNext]_billVars => RaisesPlan
  <1>1. SUFFICES ASSUME BillInv, [BillingTabNext]_billVars, PaidOrders' # PaidOrders,
                        planShown.plan = tenantPlan
                 PROVE  tenantPlan' > tenantPlan
    BY DEF RaisesPlan
  <1>2. CASE UNCHANGED billOrders
    BY <1>1, <1>2 DEF PaidOrders
  <1>3. CASE ServeOrder
    <2>1. PICK o : o.paid = FALSE /\ billOrders' = billOrders \cup {o}
      BY <1>3 DEF ServeOrder
    <2>2. {x \in billOrders' : x.paid} = {x \in billOrders : x.paid}
      BY <2>1
    <2>3. QED
      BY <1>1, <2>2 DEF PaidOrders
  <1>4. CASE ServePayment
    BY <1>1, <1>4 DEF ServePayment, BillInv, OffersRaise, Raises
  <1>5. QED
    BY <1>1, <1>2, <1>3, <1>4 DEF BillingTabNext, OpenUpgradeModal, OthersUpgrade,
       SetPayMonths, ClosePayModal, HandlePay, PayTheOrder, FinishPay, FailPay, BillServe,
       FinishData, FailData, FinishOrders, FailOrders, BillOver, billServer, billVars

(* A payment raises the plan that the page shows, whatever the plans and   *)
(* prices and however often requests fail or others upgrade meanwhile.     *)
THEOREM PaymentsRaise == BillingTabSpec => PaymentsRaisePlans
  <1>1. BillInv /\ [BillingTabNext]_billVars => [RaisesPlan]_billVars
    BY BillRaises
  <1>2. QED
    BY <1>1, BillInit, BillStep, PTL DEF BillingTabSpec, PaymentsRaisePlans, RaisesPlan
-----------------------------------------------------------------------------
(* WebSession: whatever overlaps, a page behind the guard has a token, and  *)
(* whoever waits at a spinner waits for a request of its own.               *)

Signing == {"login", "register", "me"}
Asks == [n : Nat, kind : Signing \cup {"qrcode", "wechat", "poll"}, token : 0..issuedTokens,
         phase : {"sent", "served"}, answer : {"none", "ok", "refused", "error"},
         grant : 0..issuedTokens]

SessionTypes ==
    /\ place \in {"landing", "login", "app", "away", "callback", "codeless"}
    /\ issuedTokens \in Nat /\ sessionSteps \in Nat
    /\ storedToken \in 0..issuedTokens
    /\ validTokens \subseteq 1..issuedTokens
    /\ authStore \in [token : 0..issuedTokens, known : BOOLEAN]
    /\ signing \in [form : Nat, wechat : Nat]
    /\ leaving \in BOOLEAN
    /\ sessionAsked \subseteq Asks

\* A token is granted with the answer to a login, and with nothing else.
GrantsFit ==
    \A r \in sessionAsked :
        r.answer = "ok" /\ r.kind \in {"login", "wechat"} => r.grant # NoToken

\* The requests of forms and of the callback page have numbers of their own.
NumbersOwn ==
    \A r \in sessionAsked : r.kind # "poll" =>
        /\ r.n \in 1..sessionSteps
        /\ \A q \in sessionAsked : q.kind # "poll" /\ q.n = r.n => q = r

WorksFor(n, kinds) == \E r \in sessionAsked : r.n = n /\ r.kind \in kinds

\* A page behind the guard is shown with a token in the store; a spinner of the
\* login page stands for a request in flight; and the callback page is about to be
\* left, or its code is being exchanged.
NobodyIsStranded ==
    /\ place = "app" => authStore.token # NoToken
    /\ signing.form # 0 => place = "login" /\ WorksFor(signing.form, Signing)
    /\ signing.wechat # 0 => place = "login" /\ WorksFor(signing.wechat, {"qrcode"})
    /\ place = "callback" => leaving \/ \E r \in sessionAsked : r.kind = "wechat"

SessionStands == SessionTypes /\ GrantsFit /\ NumbersOwn /\ NobodyIsStranded

LEMMA SessionStarts == WebSessionInit => SessionStands
  <1>1. SUFFICES ASSUME WebSessionInit PROVE SessionStands
    OBVIOUS
  <1>2. /\ place = "landing" /\ leaving = FALSE /\ signing.form = 0 /\ signing.wechat = 0
        /\ sessionAsked = {}
    BY <1>1 DEF WebSessionInit, Idle
  <1>3. SessionTypes
    <2>1. /\ issuedTokens = 0 /\ sessionSteps = 0 /\ storedToken = 0 /\ validTokens = {}
          /\ authStore = [token |-> 0, known |-> FALSE] /\ signing = [form |-> 0, wechat |-> 0]
      BY <1>1 DEF WebSessionInit, NoToken, Idle, SignedOut
    <2>2. 0 \in 0..issuedTokens /\ authStore \in [token : 0..issuedTokens, known : BOOLEAN]
          /\ signing \in [form : Nat, wechat : Nat]
      BY <2>1
    <2>3. QED
      BY <1>2, <2>1, <2>2 DEF SessionTypes
  <1>4. QED
    BY <1>2, <1>3 DEF SessionStands, GrantsFit, NumbersOwn, NobodyIsStranded

\* Where the guard lets pass.
LEMMA GuardedPlaces ==
    ASSUME NEW p \in {"landing", "login", "app", "callback", "codeless"}, NEW token
    PROVE  /\ Guarded(p, token) \in {"landing", "login", "app", "callback", "codeless"}
           /\ Guarded(p, token) = "app" => token # NoToken
           /\ Guarded(p, token) = "callback" <=> p = "callback"
  BY DEF Guarded

\* What is in flight stays of its type while tokens are issued.
LEMMA AsksGrow ==
    ASSUME issuedTokens \in Nat, issuedTokens' \in Nat, issuedTokens' >= issuedTokens
    PROVE  0..issuedTokens \subseteq 0..(issuedTokens') /\ Asks \subseteq Asks'
  <1>1. 0..issuedTokens \subseteq 0..(issuedTokens')
    OBVIOUS
  <1>2. QED
    BY <1>1 DEF Asks

\* A request that is sent under a new number stands by itself.
LEMMA SentKeeps ==
    ASSUME SessionStands, NEW kind \in Signing \cup {"qrcode", "wechat"},
           SessionStep, sessionAsked' = sessionAsked \cup
                {SessionRequest(sessionSteps', kind, storedToken)},
           UNCHANGED sessionServer
    PROVE  /\ sessionAsked' \subseteq Asks' /\ GrantsFit' /\ NumbersOwn'
           /\ sessionSteps' \in Nat \ {0}
           /\ WorksFor(sessionSteps, {kind})'
           /\ \A n, kinds : WorksFor(n, kinds) => WorksFor(n, kinds)'
  <1> DEFINE q == SessionRequest(sessionSteps', kind, storedToken)
  <1>1. /\ sessionSteps' = sessionSteps + 1 /\ sessionSteps \in Nat
        /\ issuedTokens' = issuedTokens
    BY DEF SessionStep, SessionStands, SessionTypes, sessionServer
  <1>2. /\ q \in Asks' /\ q.n = sessionSteps' /\ q.kind = kind
        /\ q.answer = "none"
    BY <1>1 DEF SessionRequest, Asks, NoToken, SessionStands, SessionTypes
  <1> HIDE DEF q
  <1>3. sessionAsked' \subseteq Asks'
    BY <1>1, <1>2 DEF SessionStands, SessionTypes, Asks, q
  <1>4. GrantsFit'
    BY <1>2 DEF SessionStands, GrantsFit, q
  <1>5. \A r \in sessionAsked : r.kind # "poll" => r.n # q.n /\ r.n \in 1..(sessionSteps')
    BY <1>1, <1>2 DEF SessionStands, NumbersOwn
  <1>6. q.n \in 1..(sessionSteps')
    BY <1>1, <1>2
  <1>7. NumbersOwn'
    BY <1>2, <1>5, <1>6 DEF SessionStands, NumbersOwn, q
  <1>8. q \in sessionAsked'
    BY DEF q
  <1>9. WorksFor(sessionSteps, {kind})' /\ \A n, kinds : WorksFor(n, kinds) => WorksFor(n, kinds)'
    BY <1>2, <1>8 DEF WorksFor
  <1>10. QED
    BY <1>1, <1>3, <1>4, <1>7, <1>9

\* A step of the user that sends nothing.
LEMMA StepKeeps ==
    ASSUME SessionStands, SessionStep, sessionAsked' \in {{}, sessionAsked},
           issuedTokens' \in Nat, issuedTokens' >= issuedTokens
    PROVE  /\ sessionSteps' \in Nat /\ sessionAsked' \subseteq Asks'
           /\ GrantsFit' /\ NumbersOwn'
  <1>1. sessionSteps' = sessionSteps + 1 /\ sessionSteps \in Nat /\ Asks \subseteq Asks'
    BY AsksGrow DEF SessionStep, SessionStands, SessionTypes
  <1>2. sessionAsked' \subseteq sessionAsked
    OBVIOUS
  <1>3. sessionAsked' \subseteq Asks' /\ GrantsFit'
    BY <1>1, <1>2 DEF SessionStands, SessionTypes, GrantsFit
  <1>4. NumbersOwn'
    BY <1>1, <1>2 DEF SessionStands, NumbersOwn
  <1>5. QED
    BY <1>1, <1>3, <1>4

\* A page that is loaded waits for nobody, unless it is the callback page.
LEMMA LoadKeeps ==
    ASSUME SessionStands, NEW p \in {"landing", "login", "app", "callback", "codeless"},
           NEW token \in 0..(issuedTokens'), LoadPage(p, token),
           p = "callback" => \E r \in sessionAsked' : r.kind = "wechat"
    PROVE  /\ NobodyIsStranded'
           /\ place' \in {"landing", "login", "app", "away", "callback", "codeless"}
           /\ authStore' \in [token : 0..(issuedTokens'), known : BOOLEAN]
           /\ signing' \in [form : Nat, wechat : Nat]
           /\ leaving' \in BOOLEAN
  <1>1. /\ place' \in {"landing", "login", "app", "callback", "codeless"}
        /\ place' = "app" => token # NoToken
        /\ place' = "callback" <=> p = "callback"
    BY GuardedPlaces DEF LoadPage
  <1>2. /\ authStore' = [token |-> token, known |-> FALSE]
        /\ signing' = [form |-> 0, wechat |-> 0] /\ leaving' = FALSE
    BY DEF LoadPage, Idle
  <1>3. authStore'.token = token /\ signing'.form = 0 /\ signing'.wechat = 0
    BY <1>2
  <1>4. QED
    BY <1>1, <1>2, <1>3 DEF NobodyIsStranded

LEMMA UserKeeps ==
    ASSUME SessionStands,
           \/ \E p \in {"landing", "login", "app"} : VisitPage(p) \/ FollowLink(p)
           \/ \E kind \in {"login", "register"} : HandleLogin(kind)
           \/ HandleWeChatLogin \/ HandleLogout
           \/ \E code \in BOOLEAN : ReturnFromWeChat(code)
    PROVE  SessionStands'
  <1>0. SessionTypes /\ GrantsFit /\ NumbersOwn /\ NobodyIsStranded
    BY DEF SessionStands
  <1>1. ASSUME NEW p \in {"landing", "login", "app"}, VisitPage(p)
        PROVE  SessionStands'
    <2>1. /\ SessionStep /\ LoadPage(p, storedToken) /\ sessionAsked' = {}
          /\ UNCHANGED <<storedToken, issuedTokens, validTokens>>
      BY <1>1 DEF VisitPage, sessionServer
    <2>2. /\ storedToken \in 0..(issuedTokens')
          /\ issuedTokens' \in Nat /\ issuedTokens' >= issuedTokens
      BY <1>0, <2>1 DEF SessionTypes
    <2>3. /\ NobodyIsStranded'
          /\ place' \in {"landing", "login", "app", "away", "callback", "codeless"}
          /\ authStore' \in [token : 0..(issuedTokens'), known : BOOLEAN]
          /\ signing' \in [form : Nat, wechat : Nat] /\ leaving' \in BOOLEAN
      BY <2>1, <2>2, LoadKeeps
    <2>4. sessionSteps' \in Nat /\ sessionAsked' \subseteq Asks' /\ GrantsFit' /\ NumbersOwn'
      BY <2>1, <2>2, StepKeeps
    <2>5. QED
      BY <1>0, <2>1, <2>2, <2>3, <2>4 DEF SessionStands, SessionTypes
  <1>2. ASSUME NEW p \in {"landing", "login", "app"}, FollowLink(p)
        PROVE  SessionStands'
    <2>1. /\ SessionStep /\ Navigate(p, authStore.token)
          /\ UNCHANGED <<authStore, leaving, storedToken, sessionAsked, issuedTokens, validTokens>>
      BY <1>2 DEF FollowLink, sessionServer
    <2>2. /\ place' \in {"landing", "login", "app", "callback", "codeless"}
          /\ place' = "app" => authStore.token # NoToken
          /\ place' # "callback"
      BY <2>1, GuardedPlaces DEF Navigate
    <2>3. (signing' = signing /\ place' = place) \/ signing' = [form |-> 0, wechat |-> 0]
      BY <2>1 DEF Navigate, Idle
    <2>4. sessionSteps' \in Nat /\ sessionAsked' \subseteq Asks' /\ GrantsFit' /\ NumbersOwn'
      BY <1>0, <2>1, StepKeeps DEF SessionTypes
    <2>5. NobodyIsStranded'
      BY <1>0, <2>1, <2>2, <2>3 DEF NobodyIsStranded, WorksFor
    <2>6. SessionTypes'
      BY <1>0, <2>1, <2>2, <2>3, <2>4 DEF SessionTypes
    <2>7. QED
      BY <2>4, <2>5, <2>6 DEF SessionStands
  <1>3. ASSUME NEW kind \in {"login", "register"}, HandleLogin(kind)
        PROVE  SessionStands'
    <2>1. /\ SessionStep /\ place = "login"
          /\ signing' = [signing EXCEPT !.form = sessionSteps']
          /\ sessionAsked' = sessionAsked \cup {SessionRequest(sessionSteps', kind, storedToken)}
          /\ UNCHANGED <<place, authStore, leaving, storedToken, issuedTokens, validTokens>>
      BY <1>3 DEF HandleLogin, FormsOffered, SessionAsk, sessionServer
    <2>2. kind \in Signing
      BY DEF Signing
    <2>3. /\ sessionAsked' \subseteq Asks' /\ GrantsFit' /\ NumbersOwn'
          /\ sessionSteps' \in Nat \ {0} /\ WorksFor(sessionSteps, {kind})'
          /\ \A n, kinds : WorksFor(n, kinds) => WorksFor(n, kinds)'
      BY <2>1, <2>2, SentKeeps DEF sessionServer
    <2>4. /\ signing'.form = sessionSteps' /\ signing'.wechat = signing.wechat
          /\ signing' \in [form : Nat, wechat : Nat]
      BY <1>0, <2>1, <2>3 DEF SessionTypes
    <2>5. WorksFor(signing.form, Signing)'
      BY <2>2, <2>3, <2>4 DEF WorksFor
    <2>6. NobodyIsStranded'
      BY <1>0, <2>1, <2>3, <2>4, <2>5 DEF NobodyIsStranded
    <2>7. SessionTypes'
      BY <1>0, <2>1, <2>3, <2>4 DEF SessionTypes
    <2>8. QED
      BY <2>3, <2>6, <2>7 DEF SessionStands
  <1>4. ASSUME HandleWeChatLogin PROVE SessionStands'
    <2>1. /\ SessionStep /\ place = "login"
          /\ signing' = [signing EXCEPT !.wechat = sessionSteps']
          /\ sessionAsked' = sessionAsked \cup
                {SessionRequest(sessionSteps', "qrcode", storedToken)}
          /\ UNCHANGED <<place, authStore, leaving, storedToken, issuedTokens, validTokens>>
      BY <1>4 DEF HandleWeChatLogin, SessionAsk, sessionServer
    <2>3. /\ sessionAsked' \subseteq Asks' /\ GrantsFit' /\ NumbersOwn'
          /\ sessionSteps' \in Nat \ {0} /\ WorksFor(sessionSteps, {"qrcode"})'
          /\ \A n, kinds : WorksFor(n, kinds) => WorksFor(n, kinds)'
      BY <2>1, SentKeeps DEF sessionServer
    <2>4. /\ signing'.wechat = sessionSteps' /\ signing'.form = signing.form
          /\ signing' \in [form : Nat, wechat : Nat]
      BY <1>0, <2>1, <2>3 DEF SessionTypes
    <2>5. WorksFor(signing.wechat, {"qrcode"})'
      BY <2>3, <2>4 DEF WorksFor
    <2>6. NobodyIsStranded'
      BY <1>0, <2>1, <2>3, <2>4, <2>5 DEF NobodyIsStranded
    <2>7. SessionTypes'
      BY <1>0, <2>1, <2>3, <2>4 DEF SessionTypes
    <2>8. QED
      BY <2>3, <2>6, <2>7 DEF SessionStands
  <1>5. ASSUME HandleLogout PROVE SessionStands'
    <2>1. /\ SessionStep /\ place = "app" /\ storedToken' = 0
          /\ authStore' = [token |-> 0, known |-> FALSE]
          /\ place' = Guarded("login", NoToken) /\ signing' = [form |-> 0, wechat |-> 0]
          /\ UNCHANGED <<leaving, sessionAsked, issuedTokens, validTokens>>
      BY <1>5 DEF HandleLogout, Navigate, NoToken, SignedOut, Idle, sessionServer
    <2>2. place' = "login"
      BY <2>1 DEF Guarded
    <2>3. sessionSteps' \in Nat /\ sessionAsked' \subseteq Asks' /\ GrantsFit' /\ NumbersOwn'
      BY <1>0, <2>1, StepKeeps DEF SessionTypes
    <2>4. NobodyIsStranded'
      BY <2>1, <2>2 DEF NobodyIsStranded
    <2>5. SessionTypes'
      BY <1>0, <2>1, <2>2, <2>3 DEF SessionTypes
    <2>6. QED
      BY <2>3, <2>4, <2>5 DEF SessionStands
  <1>6. ASSUME NEW code \in BOOLEAN, ReturnFromWeChat(code)
        PROVE  SessionStands'
    <2> DEFINE p == IF code THEN "callback" ELSE "codeless"
               q == SessionRequest(sessionSteps', "wechat", storedToken)
    <2>1. /\ SessionStep /\ LoadPage(p, storedToken)
          /\ sessionAsked' = IF code THEN {q} ELSE {}
          /\ UNCHANGED <<storedToken, issuedTokens, validTokens>>
      BY <1>6 DEF ReturnFromWeChat, sessionServer
    <2>2. /\ sessionSteps' \in Nat /\ sessionSteps' \in 1..(sessionSteps')
          /\ issuedTokens' \in Nat /\ storedToken \in 0..(issuedTokens')
      BY <1>0, <2>1 DEF SessionTypes, SessionStep
    <2>3. /\ q \in Asks' /\ q.n = sessionSteps' /\ q.kind = "wechat" /\ q.answer = "none"
      BY <2>2 DEF SessionRequest, Asks, NoToken
    <2> HIDE DEF q
    <2>4. p \in {"landing", "login", "app", "callback", "codeless"}
      OBVIOUS
    <2>5. p = "callback" => \E r \in sessionAsked' : r.kind = "wechat"
      BY <2>1, <2>3
    <2> HIDE DEF p
    <2>6. /\ NobodyIsStranded'
          /\ place' \in {"landing", "login", "app", "away", "callback", "codeless"}
          /\ authStore' \in [token : 0..(issuedTokens'), known : BOOLEAN]
          /\ signing' \in [form : Nat, wechat : Nat] /\ leaving' \in BOOLEAN
      BY <2>1, <2>2, <2>4, <2>5, LoadKeeps
    <2>7. sessionAsked' \subseteq Asks' /\ GrantsFit' /\ NumbersOwn'
      BY <2>1, <2>2, <2>3 DEF GrantsFit, NumbersOwn
    <2>8. QED
      BY <1>0, <2>1, <2>2, <2>6, <2>7 DEF SessionStands, SessionTypes
  <1>7. QED
    BY <1>1, <1>2, <1>3, <1>4, <1>5, <1>6

LEMMA OthersKeep ==
    ASSUME SessionStands,
           \/ OtherTabSignsOut \/ OtherTabSignsIn
           \/ \E t \in validTokens : ExpireToken(t)
    PROVE  SessionStands'
  <1>0. SessionTypes /\ GrantsFit /\ NumbersOwn /\ NobodyIsStranded
    BY DEF SessionStands
  <1>1. /\ SessionStep /\ UNCHANGED <<place, authStore, signing, leaving, sessionAsked>>
        /\ issuedTokens' \in Nat /\ issuedTokens' >= issuedTokens
        /\ storedToken' \in 0..(issuedTokens')
        /\ validTokens' \subseteq 1..(issuedTokens')
    <2>1. CASE OtherTabSignsOut
      BY <1>0, <2>1 DEF OtherTabSignsOut, SessionTypes, sessionPage, sessionServer, NoToken
    <2>2. CASE OtherTabSignsIn
      BY <1>0, <2>2 DEF OtherTabSignsIn, IssueToken, SessionTypes, sessionPage
    <2>3. CASE \E t \in validTokens : ExpireToken(t)
      BY <1>0, <2>3 DEF ExpireToken, SessionTypes, sessionPage
    <2>4. QED
      BY <2>1, <2>2, <2>3
  <1>2. sessionSteps' \in Nat /\ sessionAsked' \subseteq Asks' /\ GrantsFit' /\ NumbersOwn'
    BY <1>1, StepKeeps
  <1>3. authStore \in [token : 0..(issuedTokens'), known : BOOLEAN]
    <2>1. 0..issuedTokens \subseteq 0..(issuedTokens')
      BY <1>0, <1>1, AsksGrow DEF SessionTypes
    <2>2. QED
      BY <1>0, <2>1 DEF SessionTypes
  <1>4. NobodyIsStranded'
    BY <1>0, <1>1 DEF NobodyIsStranded, WorksFor
  <1>5. SessionTypes'
    BY <1>0, <1>1, <1>2, <1>3 DEF SessionTypes
  <1>6. QED
    BY <1>2, <1>4, <1>5 DEF SessionStands

\* A request that makes room for another of its handler: who waits for the one
\* waits for the other.
LEMMA ExchangeKeeps ==
    ASSUME SessionStands, NEW r \in sessionAsked, NEW q \in Asks',
           sessionAsked' = (sessionAsked \ {r}) \cup {q}, sessionSteps' = sessionSteps,
           issuedTokens' \in Nat, issuedTokens' >= issuedTokens,
           q.n = r.n, q.kind = "poll" <=> r.kind = "poll",
           q.answer = "ok" /\ q.kind \in {"login", "wechat"} => q.grant # NoToken
    PROVE  /\ sessionAsked' \subseteq Asks' /\ GrantsFit' /\ NumbersOwn'
           /\ \A n, kinds : WorksFor(n, kinds) /\ (r.kind \in kinds => q.kind \in kinds)
                                => WorksFor(n, kinds)'
  <1>1. sessionAsked' \subseteq Asks'
    BY AsksGrow DEF SessionStands, SessionTypes
  <1>2. GrantsFit'
    BY DEF SessionStands, GrantsFit
  <1>3. NumbersOwn'
    BY DEF SessionStands, NumbersOwn
  <1>4. \A n, kinds : WorksFor(n, kinds) /\ (r.kind \in kinds => q.kind \in kinds)
                                => WorksFor(n, kinds)'
    BY DEF WorksFor
  <1>5. QED
    BY <1>1, <1>2, <1>3, <1>4

\* A request that has ended: who waits for another waits on.
LEMMA EndKeeps ==
    ASSUME SessionStands, NEW r \in sessionAsked, sessionAsked' = sessionAsked \ {r},
           UNCHANGED <<sessionSteps, issuedTokens>>
    PROVE  /\ sessionAsked' \subseteq Asks' /\ GrantsFit' /\ NumbersOwn'
           /\ \A n, kinds : WorksFor(n, kinds) /\ (n # r.n \/ r.kind \notin kinds)
                                => WorksFor(n, kinds)'
  <1>1. sessionAsked' \subseteq Asks'
    BY DEF SessionStands, SessionTypes, Asks
  <1>2. GrantsFit' /\ NumbersOwn'
    BY DEF SessionStands, GrantsFit, NumbersOwn
  <1>3. \A n, kinds : WorksFor(n, kinds) /\ (n # r.n \/ r.kind \notin kinds)
                                => WorksFor(n, kinds)'
    BY DEF WorksFor
  <1>4. QED
    BY <1>1, <1>2, <1>3

LEMMA PollKeeps ==
    ASSUME SessionStands, NEW n \in 1..MaxPolling, PollSession(n)
    PROVE  SessionStands'
  <1> DEFINE q == SessionRequest(n, "poll", storedToken)
  <1>0. SessionTypes /\ GrantsFit /\ NumbersOwn /\ NobodyIsStranded
    BY DEF SessionStands
  <1>1. /\ sessionAsked' = sessionAsked \cup {q}
        /\ UNCHANGED <<place, authStore, signing, leaving, storedToken, issuedTokens,
                       validTokens, sessionSteps>>
    BY DEF PollSession, sessionPage, sessionServer, sessionCounts
  <1>2. q \in Asks /\ q.kind = "poll" /\ q.answer = "none"
    BY <1>0 DEF SessionTypes, SessionRequest, Asks, NoToken
  <1> HIDE DEF q
  <1>3. SessionTypes'
    BY <1>0, <1>1, <1>2 DEF SessionTypes, Asks
  <1>4. GrantsFit' /\ NumbersOwn'
    BY <1>0, <1>1, <1>2 DEF GrantsFit, NumbersOwn
  <1>5. NobodyIsStranded'
    BY <1>0, <1>1 DEF NobodyIsStranded, WorksFor
  <1>6. QED
    BY <1>3, <1>4, <1>5 DEF SessionStands

LEMMA ServeKeeps ==
    ASSUME SessionStands, NEW r \in sessionAsked, SessionServe(r)
    PROVE  SessionStands'
  <1>0. SessionTypes /\ GrantsFit /\ NumbersOwn /\ NobodyIsStranded
    BY DEF SessionStands
  <1>1. /\ UNCHANGED <<place, authStore, signing, leaving, storedToken, sessionSteps>>
        /\ issuedTokens' \in Nat /\ issuedTokens' >= issuedTokens
        /\ validTokens' \subseteq 1..(issuedTokens')
    <2>1. UNCHANGED <<place, authStore, signing, leaving, storedToken, sessionSteps>>
      BY DEF SessionServe, sessionPage, sessionCounts
    <2>2. IssueToken \/ UNCHANGED <<issuedTokens, validTokens>>
      BY DEF SessionServe, sessionServer
    <2>3. CASE IssueToken
      BY <1>0, <2>1, <2>3 DEF IssueToken, SessionTypes
    <2>4. CASE UNCHANGED <<issuedTokens, validTokens>>
      BY <1>0, <2>1, <2>4 DEF SessionTypes
    <2>5. QED
      BY <2>1, <2>2, <2>3, <2>4
  <1>2. PICK a \in {"ok", "refused", "error"}, t \in 0..(issuedTokens') :
            /\ sessionAsked' = (sessionAsked \ {r}) \cup
                    {[r EXCEPT !.phase = "served", !.answer = a, !.grant = t]}
            /\ a = "ok" /\ r.kind \in {"login", "wechat"} => t # NoToken
    <2>1. NoToken \in 0..(issuedTokens') /\ issuedTokens' \in 0..(issuedTokens')
      BY <1>1 DEF NoToken
    <2>2. IssueToken => issuedTokens' # NoToken
      BY <1>0 DEF IssueToken, SessionTypes, NoToken
    <2> DEFINE Answers(a, t) == sessionAsked' = (sessionAsked \ {r}) \cup
                    {[r EXCEPT !.phase = "served", !.answer = a, !.grant = t]}
    <2>3. \/ IssueToken /\ Answers("ok", issuedTokens')
          \/ Answers("refused", NoToken)
          \/ r.kind \notin {"login", "wechat"} /\ Answers("ok", NoToken)
          \/ Answers("error", NoToken)
      BY DEF SessionServe
    <2> HIDE DEF Answers
    <2>4. \E a \in {"ok", "refused", "error"}, t \in 0..(issuedTokens') :
             Answers(a, t) /\ (a = "ok" /\ r.kind \in {"login", "wechat"} => t # NoToken)
      BY <2>1, <2>2, <2>3
    <2>5. QED
      BY <2>4 DEF Answers
  <1> DEFINE q == [r EXCEPT !.phase = "served", !.answer = a, !.grant = t]
  <1>3. /\ q \in Asks' /\ q.n = r.n /\ q.kind = r.kind /\ q.answer = a /\ q.grant = t
    <2>1. r \in Asks'
      BY <1>0, <1>1, AsksGrow DEF SessionTypes
    <2>2. QED
      BY <2>1 DEF Asks
  <1> HIDE DEF q
  <1>4. /\ sessionAsked' = (sessionAsked \ {r}) \cup {q}
        /\ q.answer = "ok" /\ q.kind \in {"login", "wechat"} => q.grant # NoToken
    BY <1>2, <1>3 DEF q
  <1>5. /\ sessionAsked' \subseteq Asks' /\ GrantsFit' /\ NumbersOwn'
        /\ \A n, kinds : WorksFor(n, kinds) /\ (r.kind \in kinds => q.kind \in kinds)
                                => WorksFor(n, kinds)'
    BY <1>1, <1>3, <1>4, ExchangeKeeps
  <1>6. \A n, kinds : WorksFor(n, kinds) => WorksFor(n, kinds)'
    BY <1>3, <1>5
  <1>7. (\E p \in sessionAsked : p.kind = "wechat") => \E p \in sessionAsked' : p.kind = "wechat"
    BY <1>3, <1>4
  <1>8. NobodyIsStranded'
    BY <1>0, <1>1, <1>6, <1>7 DEF NobodyIsStranded
  <1>9. SessionTypes'
    <2>1. 0..issuedTokens \subseteq 0..(issuedTokens')
      BY <1>0, <1>1, AsksGrow DEF SessionTypes
    <2>2. /\ storedToken' \in 0..(issuedTokens') /\ sessionSteps' \in Nat
          /\ signing' \in [form : Nat, wechat : Nat]
          /\ place' \in {"landing", "login", "app", "away", "callback", "codeless"}
      BY <1>0, <1>1, <2>1 DEF SessionTypes
    <2>3. authStore' \in [token : 0..(issuedTokens'), known : BOOLEAN] /\ leaving' \in BOOLEAN
      BY <1>0, <1>1, <2>1 DEF SessionTypes
    <2>4. QED
      BY <1>1, <1>5, <2>2, <2>3 DEF SessionTypes
  <1>10. QED
    BY <1>5, <1>8, <1>9 DEF SessionStands

\* What the handlers catch, and the dashboard that is entered all the same.
LEMMA EnterKeeps ==
    ASSUME SessionStands, NEW r \in sessionAsked, NEW known \in BOOLEAN,
           EnterDashboard(r, known), storedToken' \in 0..issuedTokens,
           UNCHANGED <<sessionServer, sessionSteps>>
    PROVE  SessionStands'
  <1>0. SessionTypes /\ GrantsFit /\ NumbersOwn /\ NobodyIsStranded
    BY DEF SessionStands
  <1>1. /\ UNCHANGED <<leaving, issuedTokens, validTokens, sessionSteps>>
        /\ sessionAsked' = sessionAsked \ {r}
    BY DEF EnterDashboard, sessionServer
  <1>2. /\ authStore'.token = authStore.token
        /\ authStore' \in [token : 0..issuedTokens, known : BOOLEAN]
    BY <1>0 DEF EnterDashboard, SessionTypes
  <1>3. place' \in {"login", "app"} /\ (place' = "app" => authStore.token # NoToken)
    BY DEF EnterDashboard, Guarded
  <1>4. /\ sessionAsked' \subseteq Asks' /\ GrantsFit' /\ NumbersOwn'
        /\ \A n, kinds : WorksFor(n, kinds) /\ (n # r.n \/ r.kind \notin kinds)
                                => WorksFor(n, kinds)'
    BY <1>1, EndKeeps
  <1>5. \/ signing' = Stopped(r) /\ place = "login" /\ place' = "login"
        \/ signing' = Idle
    BY DEF EnterDashboard
  <1>6. /\ signing' \in [form : Nat, wechat : Nat]
        /\ \A f \in {"form", "wechat"} : signing'[f] # 0 =>
                /\ place' = "login" /\ signing'[f] = signing[f] /\ signing[f] # r.n
    <2>1. signing \in [form : Nat, wechat : Nat]
      BY <1>0 DEF SessionTypes
    <2>2. CASE signing' = Idle
      BY <2>2 DEF Idle
    <2>3. CASE signing' = Stopped(r) /\ place = "login" /\ place' = "login"
      BY <2>1, <2>3 DEF Stopped
    <2>4. QED
      BY <1>5, <2>2, <2>3
  <1>7. /\ signing'.form # 0 => place' = "login" /\ WorksFor(signing.form, Signing)'
        /\ signing'.wechat # 0 => place' = "login" /\ WorksFor(signing.wechat, {"qrcode"})'
    <2>1. ASSUME signing'.form # 0
          PROVE  place' = "login" /\ WorksFor(signing.form, Signing)'
      <3>1. place' = "login" /\ signing'.form = signing.form /\ signing.form # r.n
        BY <1>6, <2>1
      <3>2. WorksFor(signing.form, Signing)
        BY <1>0, <2>1, <3>1 DEF NobodyIsStranded
      <3>3. QED
        BY <1>1, <3>1, <3>2 DEF WorksFor
    <2>2. ASSUME signing'.wechat # 0
          PROVE  place' = "login" /\ WorksFor(signing.wechat, {"qrcode"})'
      <3>1. place' = "login" /\ signing'.wechat = signing.wechat /\ signing.wechat # r.n
        BY <1>6, <2>2
      <3>2. WorksFor(signing.wechat, {"qrcode"})
        BY <1>0, <2>2, <3>1 DEF NobodyIsStranded
      <3>3. QED
        BY <1>1, <3>1, <3>2 DEF WorksFor
    <2>3. QED
      BY <2>1, <2>2
  <1>8. NobodyIsStranded'
    BY <1>2, <1>3, <1>7 DEF NobodyIsStranded
  <1>9. SessionTypes'
    BY <1>0, <1>1, <1>2, <1>3, <1>4, <1>6 DEF SessionTypes
  <1>10. QED
    BY <1>4, <1>8, <1>9 DEF SessionStands

LEMMA CaughtKeeps ==
    ASSUME SessionStands, NEW r \in sessionAsked, Caught(r), storedToken' \in 0..issuedTokens,
           UNCHANGED <<sessionServer, sessionSteps>>
    PROVE  SessionStands'
  <1>0. SessionTypes /\ GrantsFit /\ NumbersOwn /\ NobodyIsStranded
    BY DEF SessionStands
  <1>1. CASE r.kind = "me"
    BY <1>1, EnterKeeps DEF Caught
  <1>2. CASE r.kind # "me"
    <2>1. /\ UNCHANGED <<place, authStore, issuedTokens, validTokens, sessionSteps>>
          /\ sessionAsked' = sessionAsked \ {r}
      BY <1>2 DEF Caught, sessionServer, sessionPage
    <2>2. /\ sessionAsked' \subseteq Asks' /\ GrantsFit' /\ NumbersOwn'
          /\ \A n, kinds : WorksFor(n, kinds) /\ (n # r.n \/ r.kind \notin kinds)
                                => WorksFor(n, kinds)'
      BY <2>1, EndKeeps
    <2>3. \/ r.kind = "wechat" /\ leaving' = TRUE /\ signing' = signing
          \/ r.kind = "poll" /\ leaving' = leaving /\ signing' = signing
          \/ r.kind \notin {"wechat", "poll"} /\ leaving' = leaving /\ signing' = Stopped(r)
      BY <1>2 DEF Caught, sessionPage
    <2>4. /\ signing' \in [form : Nat, wechat : Nat]
          /\ \A f \in {"form", "wechat"} : signing'[f] # 0 =>
                /\ signing'[f] = signing[f]
                /\ r.kind \notin {"wechat", "poll"} => signing[f] # r.n
      BY <1>0, <2>3 DEF Stopped, SessionTypes
    <2>5. {"wechat", "poll"} \cap (Signing \cup {"qrcode"}) = {}
      BY DEF Signing
    <2>6. /\ signing'.form # 0 => place' = "login" /\ WorksFor(signing.form, Signing)'
          /\ signing'.wechat # 0 => place' = "login" /\ WorksFor(signing.wechat, {"qrcode"})'
      BY <1>0, <2>1, <2>2, <2>4, <2>5 DEF NobodyIsStranded, WorksFor
    <2>7. leaving' \in BOOLEAN
      BY <1>0, <2>3 DEF SessionTypes
    <2>8. place' = "callback" => leaving' \/ \E p \in sessionAsked' : p.kind = "wechat"
      BY <1>0, <2>1, <2>3 DEF NobodyIsStranded
    <2>9. NobodyIsStranded'
      BY <1>0, <2>1, <2>6, <2>8 DEF NobodyIsStranded
    <2>10. SessionTypes'
      BY <1>0, <2>1, <2>2, <2>4, <2>7 DEF SessionTypes
    <2>11. QED
      BY <2>2, <2>9, <2>10 DEF SessionStands
  <1>3. QED
    BY <1>1, <1>2

LEMMA FinishKeeps ==
    ASSUME SessionStands, NEW r \in sessionAsked, FinishSession(r)
    PROVE  SessionStands'
  <1>0. SessionTypes /\ GrantsFit /\ NumbersOwn /\ NobodyIsStranded
    BY DEF SessionStands
  <1>1. /\ UNCHANGED <<issuedTokens, validTokens, sessionSteps>> /\ UNCHANGED sessionServer
        /\ 0 \in 0..issuedTokens /\ Asks' = Asks /\ r \in Asks
    BY <1>0 DEF FinishSession, sessionServer, sessionCounts, SessionTypes, Asks
  <1>2. CASE FinishLogin(r)
    <2> DEFINE q == SessionRequest(r.n, "me", r.grant)
    <2>1. /\ r.kind = "login" /\ r.grant \in 0..issuedTokens /\ r.grant # NoToken
          /\ storedToken' = r.grant /\ authStore' = [token |-> r.grant, known |-> FALSE]
          /\ sessionAsked' = (sessionAsked \ {r}) \cup {q}
          /\ UNCHANGED <<place, signing, leaving>>
      BY <1>0, <1>1, <1>2 DEF FinishLogin, SetAuth, AskNext, GrantsFit, Asks
    <2>2. q \in Asks' /\ q.n = r.n /\ q.kind = "me" /\ q.answer = "none"
      BY <1>1, <2>1 DEF SessionRequest, Asks, Signing, NoToken
    <2> HIDE DEF q
    <2>3. /\ sessionAsked' \subseteq Asks' /\ GrantsFit' /\ NumbersOwn'
          /\ \A n, kinds : WorksFor(n, kinds) /\ (r.kind \in kinds => q.kind \in kinds)
                                => WorksFor(n, kinds)'
      BY <1>0, <1>1, <2>1, <2>2, ExchangeKeeps DEF SessionTypes
    <2>4. \A n : (WorksFor(n, Signing) => WorksFor(n, Signing)')
                 /\ (WorksFor(n, {"qrcode"}) => WorksFor(n, {"qrcode"})')
      BY <2>1, <2>2, <2>3 DEF Signing
    <2>5. (\E p \in sessionAsked : p.kind = "wechat")
                => \E p \in sessionAsked' : p.kind = "wechat"
      BY <2>1
    <2>6. NobodyIsStranded'
      BY <1>0, <2>1, <2>4, <2>5 DEF NobodyIsStranded
    <2>7. SessionTypes'
      BY <1>0, <1>1, <2>1, <2>3 DEF SessionTypes
    <2>8. QED
      BY <2>3, <2>6, <2>7 DEF SessionStands
  <1>3. CASE FinishRegister(r)
    <2> DEFINE q == SessionRequest(r.n, "login", storedToken)
    <2>1. /\ r.kind = "register" /\ sessionAsked' = (sessionAsked \ {r}) \cup {q}
          /\ UNCHANGED <<place, authStore, signing, leaving, storedToken>>
      BY <1>3 DEF FinishRegister, AskNext, sessionPage
    <2>2. q \in Asks' /\ q.n = r.n /\ q.kind = "login" /\ q.answer = "none"
      BY <1>0, <1>1 DEF SessionRequest, SessionTypes, Asks, Signing, NoToken
    <2> HIDE DEF q
    <2>3. /\ sessionAsked' \subseteq Asks' /\ GrantsFit' /\ NumbersOwn'
          /\ \A n, kinds : WorksFor(n, kinds) /\ (r.kind \in kinds => q.kind \in kinds)
                                => WorksFor(n, kinds)'
      BY <1>0, <1>1, <2>1, <2>2, ExchangeKeeps DEF SessionTypes
    <2>4. \A n : (WorksFor(n, Signing) => WorksFor(n, Signing)')
                 /\ (WorksFor(n, {"qrcode"}) => WorksFor(n, {"qrcode"})')
      BY <2>1, <2>2, <2>3 DEF Signing
    <2>5. (\E p \in sessionAsked : p.kind = "wechat")
                => \E p \in sessionAsked' : p.kind = "wechat"
      BY <2>1
    <2>6. NobodyIsStranded'
      BY <1>0, <2>1, <2>4, <2>5 DEF NobodyIsStranded
    <2>7. SessionTypes'
      BY <1>0, <1>1, <2>1, <2>3 DEF SessionTypes
    <2>8. QED
      BY <2>3, <2>6, <2>7 DEF SessionStands
  <1>4. CASE FinishMe(r)
    BY <1>0, <1>1, <1>4, EnterKeeps DEF FinishMe, SessionTypes
  <1>5. CASE FinishQrCode(r)
    <2>1. /\ place' = "away" /\ sessionAsked' = {} /\ leaving' = FALSE
          /\ signing' = [form |-> 0, wechat |-> 0] /\ UNCHANGED <<authStore, storedToken>>
      BY <1>5 DEF FinishQrCode, Idle
    <2>2. SessionTypes'
      BY <1>0, <1>1, <2>1 DEF SessionTypes
    <2>3. QED
      BY <2>1, <2>2 DEF SessionStands, GrantsFit, NumbersOwn, NobodyIsStranded
  <1>6. CASE FinishWeChat(r)
    <2>1. /\ r.kind = "wechat" /\ r.grant \in 0..issuedTokens /\ r.grant # NoToken
          /\ storedToken' = r.grant /\ authStore' = [token |-> r.grant, known |-> TRUE]
          /\ sessionAsked' = sessionAsked \ {r} /\ Navigate("app", r.grant)
          /\ UNCHANGED leaving
      BY <1>0, <1>1, <1>6 DEF FinishWeChat, SetAuth, GrantsFit, Asks
    <2>2. place' = "app" /\ signing' = [form |-> 0, wechat |-> 0]
      BY <2>1 DEF Navigate, Guarded, Idle
    <2>3. sessionAsked' \subseteq Asks' /\ GrantsFit' /\ NumbersOwn'
      BY <1>1, <2>1, EndKeeps
    <2>4. NobodyIsStranded'
      BY <2>1, <2>2 DEF NobodyIsStranded
    <2>5. SessionTypes'
      BY <1>0, <1>1, <2>1, <2>2, <2>3 DEF SessionTypes
    <2>6. QED
      BY <2>3, <2>4, <2>5 DEF SessionStands
  <1>7. CASE FinishPollSession(r)
    <2>1. /\ r.kind = "poll" /\ sessionAsked' = sessionAsked \ {r}
          /\ UNCHANGED <<place, authStore, signing, leaving, storedToken>>
      BY <1>7 DEF FinishPollSession, sessionPage
    <2>2. /\ sessionAsked' \subseteq Asks' /\ GrantsFit' /\ NumbersOwn'
          /\ \A n, kinds : WorksFor(n, kinds) /\ (n # r.n \/ r.kind \notin kinds)
                                => WorksFor(n, kinds)'
      BY <1>1, <2>1, EndKeeps
    <2>3. \A n : (WorksFor(n, Signing) => WorksFor(n, Signing)')
                 /\ (WorksFor(n, {"qrcode"}) => WorksFor(n, {"qrcode"})')
      BY <2>1, <2>2 DEF Signing
    <2>4. (\E p \in sessionAsked : p.kind = "wechat")
                => \E p \in sessionAsked' : p.kind = "wechat"
      BY <2>1
    <2>5. NobodyIsStranded'
      BY <1>0, <2>1, <2>3, <2>4 DEF NobodyIsStranded
    <2>6. SessionTypes'
      BY <1>0, <1>1, <2>1, <2>2 DEF SessionTypes
    <2>7. QED
      BY <2>2, <2>5, <2>6 DEF SessionStands
  <1>8. CASE FinishRefused(r)
    <2>1. storedToken' = 0
      BY <1>8 DEF FinishRefused, NoToken
    <2>2. CASE Caught(r)
      BY <1>1, <2>1, <2>2, CaughtKeeps
    <2>3. CASE LoadPage("login", NoToken) /\ sessionAsked' = {}
      <3>1. NoToken \in 0..(issuedTokens')
        BY <1>1 DEF NoToken
      <3>2. /\ NobodyIsStranded'
            /\ place' \in {"landing", "login", "app", "away", "callback", "codeless"}
            /\ authStore' \in [token : 0..(issuedTokens'), known : BOOLEAN]
            /\ signing' \in [form : Nat, wechat : Nat] /\ leaving' \in BOOLEAN
        BY <2>3, <3>1, LoadKeeps
      <3>3. SessionTypes'
        BY <1>0, <1>1, <2>1, <2>3, <3>2 DEF SessionTypes
      <3>4. QED
        BY <2>3, <3>2, <3>3 DEF SessionStands, GrantsFit, NumbersOwn
    <2>4. QED
      BY <1>8, <2>2, <2>3 DEF FinishRefused
  <1>9. CASE Caught(r) /\ UNCHANGED storedToken
    BY <1>0, <1>1, <1>9, CaughtKeeps DEF SessionTypes
  <1>10. QED
    BY <1>2, <1>3, <1>4, <1>5, <1>6, <1>7, <1>8, <1>9 DEF FinishSession

LEMMA LeaveKeeps ==
    ASSUME SessionStands, LeaveCallback
    PROVE  SessionStands'
  <1>0. SessionTypes /\ GrantsFit /\ NumbersOwn /\ NobodyIsStranded
    BY DEF SessionStands
  <1>1. /\ leaving' = FALSE /\ place' = "login"
        /\ UNCHANGED <<authStore, storedToken, sessionAsked, issuedTokens, validTokens,
                       sessionSteps>>
        /\ \/ signing' = signing /\ place = "login"
           \/ signing' = [form |-> 0, wechat |-> 0]
    BY DEF LeaveCallback, Navigate, Guarded, Idle, sessionServer, sessionCounts
  <1>2. NobodyIsStranded'
    BY <1>0, <1>1 DEF NobodyIsStranded, WorksFor
  <1>3. signing' \in [form : Nat, wechat : Nat]
    BY <1>0, <1>1 DEF SessionTypes
  <1>4. SessionTypes'
    BY <1>0, <1>1, <1>3 DEF SessionTypes, Asks
  <1>5. GrantsFit' /\ NumbersOwn'
    BY <1>0, <1>1 DEF GrantsFit, NumbersOwn
  <1>6. QED
    BY <1>2, <1>4, <1>5 DEF SessionStands

LEMMA SessionKeeps == SessionStands /\ [WebSessionNext]_sessionVars => SessionStands'
  <1>1. SUFFICES ASSUME SessionStands, [WebSessionNext]_sessionVars PROVE SessionStands'
    OBVIOUS
  <1>2. ASSUME NEW r \in sessionAsked, FailSessionRequest(r)
        PROVE  SessionStands'
    <2>1. /\ Caught(r) /\ storedToken' \in 0..issuedTokens
          /\ UNCHANGED <<sessionServer, sessionSteps>>
      BY <1>1, <1>2 DEF FailSessionRequest, SessionStands, SessionTypes
    <2>2. QED
      BY <1>1, <2>1, CaughtKeeps
  <1>3. CASE UNCHANGED sessionVars
    <2>1. UNCHANGED <<place, authStore, signing, leaving, storedToken, sessionAsked,
                      issuedTokens, validTokens, sessionSteps>>
      BY <1>3 DEF sessionVars, sessionPage, sessionServer, sessionCounts
    <2>2. QED
      BY <1>1, <2>1 DEF SessionStands, SessionTypes, GrantsFit, NumbersOwn, NobodyIsStranded,
                        WorksFor, Asks
  <1>4. QED
    BY <1>1, <1>2, <1>3, UserKeeps, OthersKeep, PollKeeps, ServeKeeps, FinishKeeps, LeaveKeeps
       DEF WebSessionNext

-----------------------------------------------------------------------------
(* The client as a whole.                                                   *)

LEMMA WebAppStarts ==
  WebAppInit => /\ WorkflowInit /\ KnowledgePageInit /\ AgentsPageInit /\ SearchBoxInit
                /\ SettingsFormsInit /\ BillingTabInit /\ PluginsPageInit /\ AuditPageInit
                /\ WebSessionInit
  BY DEF WebAppInit

LEMMA WebAppSteps ==
  [WebAppNext]_webVars =>
      /\ [WorkflowNext]_wfVars /\ [KnowledgePageNext]_kbVars
      /\ [AgentsPageNext]_agentsVars /\ [SearchBoxNext]_searchVars
      /\ [SettingsFormsNext]_formVars /\ [BillingTabNext]_billVars
      /\ [PluginsPageNext]_pluginsVars /\ [AuditPageNext]_auditVars
      /\ [WebSessionNext]_sessionVars
  <1>1. CASE WebAppNext
    BY <1>1 DEF WebAppNext, OthersStay
  <1>2. CASE UNCHANGED webVars
    BY <1>2 DEF webVars
  <1>3. QED
    BY <1>1, <1>2

(* Whatever a page saves under an id was read or entered for that id.      *)
THEOREM SavesBelong == WebAppSpec => []SavesAreOwn
  <1>1. WebAppInit => WfInv /\ AgentsInv
    BY WebAppStarts, WfStart, AgentsInit
  <1>2. WfInv /\ AgentsInv /\ [WebAppNext]_webVars => (WfInv /\ AgentsInv)'
    BY WebAppSteps, WfNext, AgentsNext
  <1>3. WfInv /\ AgentsInv => SavesAreOwn
    BY DEF WfInv, SaveOwn, StoredOwn, SavedGraphsAreOwn, AgentsInv, AllOwn, OwnValues,
           SavedAgentsAreOwn, SavesAreOwn
  <1>4. QED
    BY <1>1, <1>2, <1>3, PTL DEF WebAppSpec

(* Whatever is shown as the answer to a choice belongs to that choice.     *)
THEOREM AnswersAreOfChoices == WebAppSpec => []AnswersBelong
  <1> DEFINE Inv == KbInv /\ SearchInv /\ PluginInv /\ AuditInv
  <1>1. WebAppInit => Inv
    BY WebAppStarts, KbStart, SearchInit, PluginsStart, AuditStart
  <1>2. Inv /\ [WebAppNext]_webVars => Inv'
    BY WebAppSteps, KbNext, SearchNext, PluginsNext, AuditNext
  <1>3. KbInv /\ SearchInv => ShownBelongToSelected /\ ResultsBelongToText
    BY DEF KbInv, KbFollows, DocsFollow, SearchFollows, ShownBelongToSelected, RowsShown,
           SearchInv
  <1>4. PluginInv /\ AuditInv => ResultIsOfPlugin /\ RowsBelongToQuery
    BY DEF PluginInv, DialogFollows, ResultIsOfPlugin, AuditInv, AuditFollows,
           RowsBelongToQuery
  <1>5. Inv => AnswersBelong
    BY <1>3, <1>4 DEF AnswersBelong
  <1>6. QED
    BY <1>1, <1>2, <1>5, PTL DEF WebAppSpec

(* Whatever logins, logouts, other tabs, answers 401 and failed requests   *)
(* overlap, nobody is stranded: a page behind the guard has a token in the *)
(* store, a spinner of the login page stands for a request that is still   *)
(* to be answered, and the callback page, which shows nothing but a        *)
(* spinner, is about to be left or waits for an answer.                    *)
THEOREM NobodyWaitsForNothing == WebAppSpec => []NobodyIsStranded
  <1>1. WebAppInit => SessionStands
    BY WebAppStarts, SessionStarts
  <1>2. SessionStands /\ [WebAppNext]_webVars => SessionStands'
    BY WebAppSteps, SessionKeeps
  <1>3. SessionStands => NobodyIsStranded
    BY DEF SessionStands
  <1>4. QED
    BY <1>1, <1>2, <1>3, PTL DEF WebAppSpec
===============================================================================
