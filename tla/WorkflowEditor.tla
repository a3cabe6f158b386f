---------------------------- MODULE WorkflowEditor ----------------------------
(***************************************************************************)
(* The workflows page of the web client: a list of workflows, a canvas     *)
(* with the graph of the selected one, and the requests in flight.  A      *)
(* handler runs up to its await in one step and after it in another; what  *)
(* it uses after the await is the closure of the click, kept in the        *)
(* request.  A request is sent, served, and answered; it may fail before   *)
(* or after it is served.                                                  *)
(*                                                                         *)
(* A graph is a set of nodes and of edges between them.  Labels, configs,  *)
(* positions, handles and conditions are left out, as are the names of     *)
(* workflows.  Nodes is the supply of ids for generateNodeId, Workflows    *)
(* that of the server.                                                     *)
(***************************************************************************)
EXTENDS Naturals

CONSTANTS Workflows, Nodes, Existing, None, MaxEdits

ASSUME WorkflowAssumption ==
    /\ Existing \subseteq Workflows
    /\ None \notin Workflows \cup Nodes
    /\ MaxEdits \in Nat

VARIABLES
    wfListed,     \* workflows: what is listed, with the graphs that came with it
    selectedId,
    canvas,       \* nodes and edges
    selectedNode, \* selectedNodeId
    createModal,  \* closed, or open without or with a name typed in
    runModal,     \* the execute dialog: open, executing, and whose result it shows
    wfLoad,       \* getWorkflows, called when the page is mounted
    wfSave,       \* updateWorkflow: one at a time (saving)
    wfCreates,    \* createWorkflow: the requests in flight
    wfDeletes,    \* deleteWorkflow: the requests in flight
    wfStored,     \* the server: its workflows
    wfGraph,      \* and their graphs
    wfUsed,       \* and the ids it has given out
    edits,        \* what the user has done so far
    home,         \* history: the workflow a node was made for
    wfMissed      \* history: an answer was lost, or came out of order

wfPage == <<wfListed, selectedId, canvas, selectedNode>>
wfModals == <<createModal, runModal>>
wfServer == <<wfStored, wfGraph, wfUsed>>
wfVars == <<wfPage, wfModals, wfLoad, wfSave, wfCreates, wfDeletes, wfServer,
            edits, home, wfMissed>>

Graphs == [nodes : SUBSET Nodes, edges : SUBSET (Nodes \X Nodes)]
EmptyGraph == [nodes |-> {}, edges |-> {}]
NewNodes == {n \in Nodes : home[n] = None}

Entry(w, g) == [id |-> w, graph |-> g]
Entries == [id : Workflows, graph : Graphs]
StoredEntries == {Entry(w, wfGraph[w]) : w \in wfStored}

\* The requests: for the list, to save, to create and to delete a workflow.
Loads == [phase : {"sent", "served", "over"}, answer : SUBSET Entries]
Saves == [phase : {"none", "sent", "served"}, id : Workflows \cup {None},
          graph : Graphs]
Creates == [phase : {"sent", "served"}, id : Workflows]
Deletes == [phase : {"sent", "served"}, id : Workflows, selected : Workflows \cup {None}]
NoSave == [phase |-> "none", id |-> None, graph |-> EmptyGraph]
-----------------------------------------------------------------------------
(* What the page offers.  The list is hidden while it is loaded, the       *)
(* toolbar, the palette and the canvas while no listed workflow is         *)
(* selected; a dialog covers everything.                                   *)

Covered == createModal # "closed" \/ runModal.open
ListShown == ~Covered /\ wfLoad.phase = "over"
EditorShown == ~Covered /\ \E x \in wfListed : x.id = selectedId
PaletteShown == EditorShown
\* The panel of the selected node, and the key that deletes it.
PanelShown == EditorShown /\ selectedNode \in canvas.nodes

\* The user's actions are counted.
Edit == edits < MaxEdits /\ edits' = edits + 1

\* handleSelect: the graph of the list's copy, or a new start node.
Select(w, graph) ==
    /\ selectedId' = w
    /\ selectedNode' = None
    /\ IF graph.nodes # {}
       THEN canvas' = graph /\ UNCHANGED home
       ELSE \E n \in NewNodes :
              /\ canvas' = [nodes |-> {n}, edges |-> {}]
              /\ home' = [home EXCEPT ![n] = w]

HandleSelect(x) ==
    /\ Edit
    /\ ListShown
    /\ Select(x.id, x.graph)
    /\ UNCHANGED <<wfListed, wfModals, wfLoad, wfSave, wfCreates,
                   wfDeletes, wfServer, wfMissed>>
-----------------------------------------------------------------------------
(* loadWorkflows: the list replaces whatever is listed.                    *)

ServeLoad ==
    /\ wfLoad.phase = "sent"
    /\ wfLoad' = [phase |-> "served", answer |-> StoredEntries]
    /\ UNCHANGED <<wfPage, wfModals, wfSave, wfCreates, wfDeletes, wfServer,
                   home, wfMissed, edits>>

FinishLoad ==
    /\ wfLoad.phase = "served"
    /\ wfLoad' = [wfLoad EXCEPT !.phase = "over"]
    /\ wfListed' = wfLoad.answer
    /\ UNCHANGED <<selectedId, canvas, selectedNode, wfModals, wfSave, wfCreates,
                   wfDeletes, wfServer, home, wfMissed, edits>>

FailLoad ==
    /\ wfLoad.phase # "over"
    /\ wfLoad' = [wfLoad EXCEPT !.phase = "over"]
    /\ wfMissed' = TRUE
    /\ UNCHANGED <<wfPage, wfModals, wfSave, wfCreates, wfDeletes, wfServer, home, edits>>
-----------------------------------------------------------------------------
(* handleCreate.  OK stays enabled while a request is in flight: clicking  *)
(* it again creates another workflow.                                      *)

OpenCreate ==
    /\ Edit
    /\ ~Covered
    /\ createModal' = "blank"
    /\ UNCHANGED <<wfPage, runModal, wfLoad, wfSave, wfCreates, wfDeletes,
                   wfServer, home, wfMissed>>

EditName ==
    /\ Edit
    /\ createModal # "closed"
    /\ createModal' \in {"blank", "named"} \ {createModal}
    /\ UNCHANGED <<wfPage, runModal, wfLoad, wfSave, wfCreates, wfDeletes,
                   wfServer, home, wfMissed>>

CancelCreate ==
    /\ Edit
    /\ createModal # "closed"
    /\ createModal' = "closed"
    /\ UNCHANGED <<wfPage, runModal, wfLoad, wfSave, wfCreates, wfDeletes,
                   wfServer, home, wfMissed>>

\* The id is the server's choice, and fixed here for brevity.
HandleCreate(w) ==
    /\ Edit
    /\ createModal = "named"
    /\ w \notin wfUsed
    /\ wfUsed' = wfUsed \cup {w}
    /\ wfCreates' = wfCreates \cup {[phase |-> "sent", id |-> w]}
    /\ UNCHANGED <<wfPage, wfModals, wfLoad, wfSave, wfDeletes, wfStored, wfGraph,
                   home, wfMissed>>

ServeCreate(r) ==
    /\ r.phase = "sent"
    /\ wfCreates' = (wfCreates \ {r}) \cup {[r EXCEPT !.phase = "served"]}
    /\ wfStored' = wfStored \cup {r.id}
    /\ wfGraph' = [wfGraph EXCEPT ![r.id] = EmptyGraph]
    /\ UNCHANGED <<wfPage, wfModals, wfLoad, wfSave, wfDeletes, wfUsed, home, wfMissed, edits>>

\* The new workflow is appended and selected, and the dialog closed.
FinishCreate(r) ==
    /\ r.phase = "served"
    /\ wfCreates' = wfCreates \ {r}
    /\ wfListed' = wfListed \cup {Entry(r.id, EmptyGraph)}
    /\ Select(r.id, EmptyGraph)
    /\ createModal' = "closed"
    /\ wfMissed' = (wfMissed \/ wfLoad.phase # "over")
    /\ UNCHANGED <<runModal, wfLoad, wfSave, wfDeletes, wfServer, edits>>

FailCreate(r) ==
    /\ wfCreates' = wfCreates \ {r}
    /\ wfMissed' = (wfMissed \/ r.phase = "served")
    /\ UNCHANGED <<wfPage, wfModals, wfLoad, wfSave, wfDeletes, wfServer, home, edits>>
-----------------------------------------------------------------------------
(* handleDelete, confirmed in the list.  After its await it compares the   *)
(* workflow with the one that was selected when it was clicked.            *)

\* The workflow is shown by the list; its creation has not been answered yet.
CreateUnanswered(w) == \E c \in wfCreates : c.id = w

HandleDelete(x) ==
    /\ Edit
    /\ ListShown
    /\ wfDeletes' = wfDeletes \cup
            {[phase |-> "sent", id |-> x.id, selected |-> selectedId]}
    /\ UNCHANGED <<wfPage, wfModals, wfLoad, wfSave, wfCreates, wfServer, home, wfMissed>>

\* A deleted workflow keeps its row: it can be deleted again, and saved.
ServeDelete(r) ==
    /\ r.phase = "sent"
    /\ wfDeletes' = (wfDeletes \ {r}) \cup {[r EXCEPT !.phase = "served"]}
    /\ wfStored' = wfStored \ {r.id}
    /\ UNCHANGED <<wfPage, wfModals, wfLoad, wfSave, wfCreates, wfGraph, wfUsed,
                   home, wfMissed, edits>>

FinishDelete(r) ==
    /\ r.phase = "served"
    /\ wfDeletes' = wfDeletes \ {r}
    /\ wfListed' = {x \in wfListed : x.id # r.id}
    /\ IF r.selected = r.id
       THEN selectedId' = None /\ canvas' = EmptyGraph /\ selectedNode' = None
       ELSE UNCHANGED <<selectedId, canvas, selectedNode>>
    /\ wfMissed' = (wfMissed \/ CreateUnanswered(r.id))
    /\ UNCHANGED <<wfModals, wfLoad, wfSave, wfCreates, wfServer, home, edits>>

FailDelete(r) ==
    /\ wfDeletes' = wfDeletes \ {r}
    /\ wfMissed' = (wfMissed \/ r.phase = "served")
    /\ UNCHANGED <<wfPage, wfModals, wfLoad, wfSave, wfCreates, wfServer, home, edits>>
-----------------------------------------------------------------------------
(* handleSave: the canvas as it is when the button is clicked.             *)

HandleSave ==
    /\ Edit
    /\ EditorShown
    /\ wfSave = NoSave
    /\ wfSave' = [phase |-> "sent", id |-> selectedId, graph |-> canvas]
    /\ UNCHANGED <<wfPage, wfModals, wfLoad, wfCreates, wfDeletes, wfServer, home, wfMissed>>

ServeSave ==
    /\ wfSave.phase = "sent"
    /\ wfSave' = [wfSave EXCEPT !.phase = "served"]
    /\ wfGraph' = [wfGraph EXCEPT ![wfSave.id] = wfSave.graph]
    /\ UNCHANGED <<wfPage, wfModals, wfLoad, wfCreates, wfDeletes, wfStored, wfUsed,
                   home, wfMissed, edits>>

\* A mutant: the list keeps the graph it came with.
ListedAsBefore(id, graph) == wfListed

ListedWith(id, graph) == {IF x.id = id THEN Entry(id, graph) ELSE x : x \in wfListed}

FinishSave ==
    /\ wfSave.phase = "served"
    /\ wfSave' = NoSave
    /\ wfListed' = ListedWith(wfSave.id, wfSave.graph)
    /\ wfMissed' = (wfMissed \/ CreateUnanswered(wfSave.id))
    /\ UNCHANGED <<selectedId, canvas, selectedNode, wfModals, wfLoad,
                   wfCreates, wfDeletes, wfServer, home, edits>>

FailSave ==
    /\ wfSave # NoSave
    /\ wfSave' = NoSave
    /\ wfMissed' = (wfMissed \/ wfSave.phase = "served")
    /\ UNCHANGED <<wfPage, wfModals, wfLoad, wfCreates, wfDeletes, wfServer, home, edits>>
-----------------------------------------------------------------------------
(* The canvas.                                                             *)

EditCanvas ==
    UNCHANGED <<wfListed, selectedId, wfModals, wfLoad, wfSave, wfCreates,
                wfDeletes, wfServer, wfMissed>>

OnConnect(m, n) ==
    /\ Edit
    /\ EditorShown
    /\ {m, n} \subseteq canvas.nodes
    /\ <<m, n>> \notin canvas.edges
    /\ canvas' = [canvas EXCEPT !.edges = @ \cup {<<m, n>>}]
    /\ UNCHANGED <<selectedNode, home>>
    /\ EditCanvas

OnDrop(n) ==
    /\ Edit
    /\ PaletteShown
    /\ n \in NewNodes
    /\ canvas' = [canvas EXCEPT !.nodes = @ \cup {n}]
    /\ home' = [home EXCEPT ![n] = selectedId]
    /\ UNCHANGED selectedNode
    /\ EditCanvas

OnNodeClick(n) ==
    /\ Edit
    /\ EditorShown
    /\ n \in canvas.nodes
    /\ selectedNode' = n
    /\ UNCHANGED <<canvas, home>>
    /\ EditCanvas

\* Also the button that closes the node's panel.
OnPaneClick ==
    /\ Edit
    /\ EditorShown
    /\ selectedNode' = None
    /\ UNCHANGED <<canvas, home>>
    /\ EditCanvas

\* A mutant: the edges that lead to the node stay.
WithoutNodeOrExits(g, n) ==
    [nodes |-> g.nodes \ {n}, edges |-> {e \in g.edges : e[1] # n}]

WithoutNode(g, n) ==
    [nodes |-> g.nodes \ {n}, edges |-> {e \in g.edges : n \notin {e[1], e[2]}}]

\* By the panel's button or the Delete key.
HandleNodeDelete ==
    /\ Edit
    /\ PanelShown
    /\ canvas' = WithoutNode(canvas, selectedNode)
    /\ selectedNode' = None
    /\ UNCHANGED home
    /\ EditCanvas
-----------------------------------------------------------------------------
(* The execute dialog.  Its result is that of whatever was selected when   *)
(* it was asked for.                                                       *)

OpenRun ==
    /\ Edit
    /\ EditorShown
    /\ runModal' = [runModal EXCEPT !.open = TRUE, !.result = None]
    /\ UNCHANGED <<wfPage, createModal, wfLoad, wfSave, wfCreates, wfDeletes,
                   wfServer, home, wfMissed>>

\* The button that starts it gives way to a result, and is a spinner meanwhile.
RunOffered == runModal.open /\ runModal.result = None /\ runModal.running = None

HandleExecute ==
    /\ Edit
    /\ RunOffered
    /\ selectedId # None
    /\ runModal' = [runModal EXCEPT !.running = selectedId]
    /\ UNCHANGED <<wfPage, createModal, wfLoad, wfSave, wfCreates, wfDeletes,
                   wfServer, home, wfMissed>>

FinishExecute ==
    /\ runModal.running # None
    /\ \E answered \in BOOLEAN :
          runModal' = [runModal EXCEPT !.running = None,
                                       !.result = IF answered THEN runModal.running ELSE @]
    /\ UNCHANGED <<wfPage, createModal, wfLoad, wfSave, wfCreates, wfDeletes,
                   wfServer, home, wfMissed, edits>>

CloseRun ==
    /\ Edit
    /\ runModal.open
    /\ runModal' = [runModal EXCEPT !.open = FALSE, !.result = None]
    /\ UNCHANGED <<wfPage, createModal, wfLoad, wfSave, wfCreates, wfDeletes,
                   wfServer, home, wfMissed>>
-----------------------------------------------------------------------------
WorkflowInit ==
    /\ wfListed = {}
    /\ selectedId = None
    /\ canvas = EmptyGraph
    /\ selectedNode = None
    /\ createModal = "closed"
    /\ runModal = [open |-> FALSE, running |-> None, result |-> None]
    /\ wfLoad = [phase |-> "sent", answer |-> {}]
    /\ wfSave = NoSave
    /\ wfCreates = {}
    /\ wfDeletes = {}
    /\ wfStored = Existing
    /\ wfUsed = Existing
    /\ wfGraph = [w \in Workflows |-> EmptyGraph]
    /\ home = [n \in Nodes |-> None]
    /\ edits = 0
    /\ wfMissed = FALSE

WorkflowNext ==
    \/ ServeLoad \/ FinishLoad \/ FailLoad
    \/ OpenCreate \/ EditName \/ CancelCreate
    \/ \E x \in wfListed : HandleSelect(x) \/ HandleDelete(x)
    \/ \E w \in Workflows : HandleCreate(w)
    \/ \E r \in wfCreates : ServeCreate(r) \/ FinishCreate(r) \/ FailCreate(r)
    \/ \E r \in wfDeletes : ServeDelete(r) \/ FinishDelete(r) \/ FailDelete(r)
    \/ HandleSave \/ ServeSave \/ FinishSave \/ FailSave
    \/ \E m, n \in Nodes : OnConnect(m, n)
    \/ \E n \in Nodes : OnDrop(n) \/ OnNodeClick(n)
    \/ OnPaneClick \/ HandleNodeDelete
    \/ OpenRun \/ HandleExecute \/ FinishExecute \/ CloseRun

WorkflowSpec == WorkflowInit /\ [][WorkflowNext]_wfVars
-----------------------------------------------------------------------------
\* A graph that workflow w may have: its edges join nodes of its own.
OwnGraph(w, g) ==
    /\ g.edges \subseteq g.nodes \X g.nodes
    /\ \A n \in g.nodes : home[n] = w

(* Whatever handlers overlap, a graph on its way to the server or stored   *)
(* there is one drawn for that workflow, and joins nodes it contains.      *)
SavedGraphsAreOwn ==
    /\ wfSave # NoSave => OwnGraph(wfSave.id, wfSave.graph)
    /\ \A w \in Workflows : OwnGraph(w, wfGraph[w])

(* When nothing is in flight the list shows the workflows the server has,  *)
(* with the graphs it has, unless an answer was lost, or that to a         *)
(* creation arrived before the list, or after that to a later change of    *)
(* the same workflow.                                                      *)
WorkflowListIsStored ==
    wfLoad.phase = "over" /\ wfSave = NoSave /\ wfCreates = {} /\ wfDeletes = {}
        /\ ~wfMissed
        => wfListed = StoredEntries
=============================================================================
