------------------------------- MODULE McpPage -------------------------------
(***************************************************************************)
(* The connectors page of the web client: the connectors listed as cards,  *)
(* one dialog that adds or edits a connector, one that installs it from    *)
(* the marketplace, and one that asks before a connector is deleted.  The  *)
(* list is loaded in two steps: the connectors, then the tools of each.  A *)
(* handler runs up to its await in one step and after it in another; a     *)
(* request may fail before or after it is served.  What it changes is      *)
(* flushed when it is served, and committed at any time after that, also   *)
(* after its answer has arrived: until then other requests do not see it.  *)
(*                                                                         *)
(* A connector is an id.  What its card says is left out: its name, its    *)
(* tools, and that it is connected, which a listed connector is whether it *)
(* was tested or not.  The forms are left out: they are filled in.         *)
(* MaxMcpClicks bounds what the user does.                                 *)
(***************************************************************************)
EXTENDS Naturals

CONSTANTS Connectors, ExistingConnectors, NoConnector, MaxMcpClicks

ASSUME McpPageAssumption ==
    /\ ExistingConnectors \subseteq Connectors
    /\ NoConnector \notin Connectors
    /\ MaxMcpClicks \in Nat

VARIABLES
    mcpListed,   \* connectors, and whether they are hidden (loading)
    mcpDialog,   \* which dialog is open
    mcpEditing,  \* editingConnector
    mcpConfirm,  \* the connector that is to be deleted if the user says so
    mcpAsked,    \* the requests in flight
    mcpStored,   \* the server: the connectors it lists, as committed
    mcpFlushed,  \* the requests whose changes are not committed yet
    mcpUsed,     \* the ids given out
    mcpClicks,   \* what the user has done so far
    mcpMissed    \* history: an answer was lost, out of order, or to a list read early

mcpDialogs == <<mcpDialog, mcpEditing, mcpConfirm>>
mcpPage == <<mcpListed, mcpDialogs>>
mcpServer == <<mcpStored, mcpFlushed, mcpUsed>>
mcpVars == <<mcpPage, mcpAsked, mcpServer, mcpClicks, mcpMissed>>
-----------------------------------------------------------------------------
(* What the page offers: a dialog covers it.                               *)

McpCovered == mcpDialog # "none" \/ mcpConfirm # NoConnector
McpCards == IF mcpListed.loading \/ McpCovered THEN {} ELSE mcpListed.rows

\* The marketplace is offered while the cards are loaded, too.
MarketplaceShown == ~McpCovered
FormShown == mcpDialog = "form"
InstallShown == mcpDialog = "install"

McpClick == mcpClicks < MaxMcpClicks /\ mcpClicks' = mcpClicks + 1

McpRequest(kind, c) ==
    [n |-> mcpClicks, kind |-> kind, phase |-> "sent", id |-> c, answer |-> {},
     old |-> FALSE]

McpAsk(kind, c) == mcpAsked' = mcpAsked \cup {McpRequest(kind, c)}

OpenAdd ==
    /\ McpClick
    /\ ~McpCovered
    /\ mcpDialog' = "form"
    /\ UNCHANGED <<mcpListed, mcpEditing, mcpConfirm, mcpAsked, mcpServer, mcpMissed>>

HandleEditConnector(c) ==
    /\ McpClick
    /\ c \in McpCards
    /\ mcpDialog' = "form"
    /\ mcpEditing' = c
    /\ UNCHANGED <<mcpListed, mcpConfirm, mcpAsked, mcpServer, mcpMissed>>

HandleInstall ==
    /\ McpClick
    /\ MarketplaceShown
    /\ mcpDialog' = "install"
    /\ UNCHANGED <<mcpListed, mcpEditing, mcpConfirm, mcpAsked, mcpServer, mcpMissed>>

CancelMcpDialog ==
    /\ McpClick
    /\ mcpDialog # "none"
    /\ mcpDialog' = "none"
    /\ mcpEditing' = IF mcpDialog = "form" THEN NoConnector ELSE mcpEditing
    /\ UNCHANGED <<mcpListed, mcpConfirm, mcpAsked, mcpServer, mcpMissed>>

\* handleAdd and handleInstallSubmit; OK stays enabled while they wait.
AskForConnector(kind) ==
    \E c \in Connectors \ mcpUsed : McpAsk(kind, c) /\ mcpUsed' = mcpUsed \cup {c}

HandleAdd ==
    /\ McpClick
    /\ FormShown
    /\ \/ mcpEditing # NoConnector /\ McpAsk("update", mcpEditing) /\ UNCHANGED mcpUsed
       \/ mcpEditing = NoConnector /\ AskForConnector("create")
    /\ UNCHANGED <<mcpPage, mcpStored, mcpFlushed, mcpMissed>>

HandleInstallSubmit ==
    /\ McpClick
    /\ InstallShown
    /\ AskForConnector("install")
    /\ UNCHANGED <<mcpPage, mcpStored, mcpFlushed, mcpMissed>>

HandleDeleteConnector(c) ==
    /\ McpClick
    /\ c \in McpCards
    /\ mcpConfirm' = c
    /\ UNCHANGED <<mcpListed, mcpDialog, mcpEditing, mcpAsked, mcpServer, mcpMissed>>

\* The dialog waits for the answer unless the user closes it, and asks once.
ConfirmDeleteConnector ==
    /\ McpClick
    /\ mcpConfirm # NoConnector
    /\ ~\E r \in mcpAsked : r.kind = "delete" /\ r.id = mcpConfirm
    /\ McpAsk("delete", mcpConfirm)
    /\ UNCHANGED <<mcpPage, mcpServer, mcpMissed>>

CloseMcpConfirm ==
    /\ McpClick
    /\ mcpConfirm # NoConnector
    /\ mcpConfirm' = NoConnector
    /\ UNCHANGED <<mcpListed, mcpDialog, mcpEditing, mcpAsked, mcpServer, mcpMissed>>

HandleTest(c) ==
    /\ McpClick
    /\ c \in McpCards
    /\ McpAsk("test", c)
    /\ UNCHANGED <<mcpPage, mcpServer, mcpMissed>>
-----------------------------------------------------------------------------
(* The server.  A deleted connector keeps its row, which is found, changed *)
(* and tested like any other, and not listed.                              *)

\* The row is not to be seen, or is locked.
ConnectorFlushed(c) == \E f \in mcpFlushed : f.id = c

\* A change that was answered, and is not committed.
McpToldTooEarly == \E f \in mcpFlushed : f \notin mcpAsked

\* A list makes those that were read before it old.
McpServeList(r) ==
    /\ r.kind = "list" /\ r.phase = "sent"
    /\ mcpAsked' =
          {IF q.kind = "list" /\ q.phase = "served" THEN [q EXCEPT !.old = TRUE] ELSE q :
              q \in mcpAsked \ {r}}
            \cup {[r EXCEPT !.phase = "served", !.answer = mcpStored]}
    /\ mcpMissed' = (mcpMissed \/ McpToldTooEarly)
    /\ UNCHANGED <<mcpPage, mcpServer, mcpClicks>>

McpServe(r) ==
    /\ r.phase = "sent"
    /\ r.kind \in {"create", "install", "update", "delete", "test"}
    /\ ~ConnectorFlushed(r.id)
    /\ mcpFlushed' = IF r.kind \in {"update", "test"} THEN mcpFlushed
                     ELSE mcpFlushed \cup {[r EXCEPT !.phase = "served"]}
    /\ mcpAsked' = (mcpAsked \ {r}) \cup {[r EXCEPT !.phase = "served"]}
    /\ UNCHANGED <<mcpPage, mcpStored, mcpUsed, mcpClicks, mcpMissed>>

\* get_db, after the handler has returned.
McpCommit(f) ==
    /\ mcpFlushed' = mcpFlushed \ {f}
    /\ mcpStored' = IF f.kind = "delete" THEN mcpStored \ {f.id}
                    ELSE mcpStored \cup {f.id}
    /\ UNCHANGED <<mcpPage, mcpAsked, mcpUsed, mcpClicks, mcpMissed>>
-----------------------------------------------------------------------------
(* The handlers after their await.                                         *)

McpAnswered(r, kind) ==
    /\ r.kind = kind /\ r.phase = "served"
    /\ UNCHANGED <<mcpServer, mcpClicks>>

McpOver(r) == mcpAsked' = mcpAsked \ {r}

ListOnItsWay == \E q \in mcpAsked : q.kind = "list"

\* loadConnectors: shows the list, still hidden, and asks for the tools.
FinishListConnectors(r) ==
    /\ McpAnswered(r, "list")
    /\ mcpListed' = [mcpListed EXCEPT !.rows = r.answer]
    /\ mcpAsked' = (mcpAsked \ {r}) \cup {[r EXCEPT !.kind = "tools", !.phase = "sent"]}
    /\ mcpMissed' = (mcpMissed \/ r.old)
    /\ UNCHANGED mcpDialogs

\* Each connector's tools are there or not, and a failure counts as none.
FinishTools(r) ==
    /\ r.kind = "tools"
    /\ McpOver(r)
    /\ mcpListed' = [mcpListed EXCEPT !.loading = FALSE]
    /\ UNCHANGED <<mcpDialogs, mcpServer, mcpClicks, mcpMissed>>

\* Saving closes the dialog, also one opened since.  A card that is edited is
\* replaced where it is shown.
FinishAdd(r) ==
    /\ \/ /\ McpAnswered(r, "update")
          /\ UNCHANGED <<mcpListed, mcpMissed>>
       \/ /\ McpAnswered(r, "create")
          /\ mcpListed' = [mcpListed EXCEPT !.rows = @ \cup {r.id}]
          /\ mcpMissed' = (mcpMissed \/ ListOnItsWay)
    /\ mcpDialog' = IF mcpDialog = "form" THEN "none" ELSE mcpDialog
    /\ mcpEditing' = NoConnector
    /\ McpOver(r)
    /\ UNCHANGED mcpConfirm

\* The list is loaded again.
FinishInstall(r) ==
    /\ McpAnswered(r, "install")
    /\ mcpListed' = [mcpListed EXCEPT !.loading = TRUE]
    /\ mcpDialog' = IF mcpDialog = "install" THEN "none" ELSE mcpDialog
    /\ mcpAsked' = (mcpAsked \ {r}) \cup {[r EXCEPT !.kind = "list", !.phase = "sent"]}
    /\ UNCHANGED <<mcpEditing, mcpConfirm, mcpMissed>>

\* The connector is shown by the list; its creation has not been answered yet.
AddUnanswered(c) == \E q \in mcpAsked : q.kind = "create" /\ q.id = c

FinishDeleteConnector(r) ==
    /\ McpAnswered(r, "delete")
    /\ mcpListed' = [mcpListed EXCEPT !.rows = @ \ {r.id}]
    /\ mcpConfirm' = IF mcpConfirm = r.id THEN NoConnector ELSE mcpConfirm
    /\ McpOver(r)
    /\ mcpMissed' = (mcpMissed \/ ListOnItsWay \/ AddUnanswered(r.id))
    /\ UNCHANGED <<mcpDialog, mcpEditing>>

\* The card says connected, as it did before.
FinishTest(r) ==
    /\ McpAnswered(r, "test")
    /\ McpOver(r)
    /\ UNCHANGED <<mcpPage, mcpMissed>>

FailMcpRequest(r) ==
    /\ r.kind # "tools"
    /\ McpOver(r)
    /\ mcpListed' = [mcpListed EXCEPT !.loading = @ /\ r.kind # "list"]
    /\ mcpConfirm' = IF r.kind = "delete" /\ mcpConfirm = r.id THEN NoConnector
                     ELSE mcpConfirm
    /\ mcpMissed' = (mcpMissed \/ r.kind = "list" \/ r.phase = "served")
    /\ UNCHANGED <<mcpDialog, mcpEditing, mcpServer, mcpClicks>>
-----------------------------------------------------------------------------
McpPageInit ==
    /\ mcpListed = [rows |-> {}, loading |-> TRUE]
    /\ mcpDialog = "none"
    /\ mcpEditing = NoConnector
    /\ mcpConfirm = NoConnector
    /\ mcpUsed = ExistingConnectors
    /\ mcpStored = ExistingConnectors
    /\ mcpFlushed = {}
    /\ mcpClicks = 0
    /\ mcpAsked = {McpRequest("list", NoConnector)}
    /\ mcpMissed = FALSE

McpPageNext ==
    \/ OpenAdd \/ HandleInstall \/ CancelMcpDialog \/ HandleAdd \/ HandleInstallSubmit
    \/ \E c \in Connectors :
          HandleEditConnector(c) \/ HandleDeleteConnector(c) \/ HandleTest(c)
    \/ ConfirmDeleteConnector \/ CloseMcpConfirm
    \/ \E r \in mcpAsked :
          \/ McpServeList(r) \/ McpServe(r)
          \/ FinishListConnectors(r) \/ FinishTools(r)
          \/ FinishAdd(r) \/ FinishInstall(r) \/ FinishDeleteConnector(r)
          \/ FinishTest(r) \/ FailMcpRequest(r)
    \/ \E f \in mcpFlushed : McpCommit(f)

McpPageSpec == McpPageInit /\ [][McpPageNext]_mcpVars
-----------------------------------------------------------------------------
(* When nothing is in flight the cards are those of the connectors the     *)
(* server has, unless a load failed or an answer was lost; a list was read *)
(* after a change was answered and before it was committed; a list was     *)
(* shown after one that was read later; the answer to a change arrived     *)
(* while a list was on its way, or that to a creation after that to the    *)
(* deletion of the same connector.                                         *)
ConnectorsListIsStored ==
    mcpAsked = {} /\ mcpFlushed = {} /\ ~mcpMissed => mcpListed.rows = mcpStored
=============================================================================
