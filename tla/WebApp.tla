-------------------------------- MODULE WebApp --------------------------------
(***************************************************************************)
(* The web client: its pages, the parts of its top bar and its session, of *)
(* which a behaviour visits one, chosen from Visits.  They keep no state   *)
(* in common, and no two of them ask the server about the same data, so    *)
(* that every one can be visited alone: the states of the client are the   *)
(* sum of theirs and not the product.                                      *)
(***************************************************************************)
EXTENDS ChatPage, WorkflowEditor, KnowledgePage, AgentsPage, McpPage, BillingTab,
        ApiKeysTab, TeamTab, SettingsForms, NotificationBell, SearchBox, WebSession,
        PluginsPage, AuditPage

CONSTANT Visits

VARIABLE visit  \* the page this behaviour visits

webVars == <<visit, chatVars, wfVars, kbVars, agentsVars, mcpVars, billVars, keysVars,
             teamVars, formVars, bellVars, searchVars, sessionVars, pluginsVars,
             auditVars>>

\* A page that is not visited starts in one of its initial states.
UnvisitedInit ==
    /\ visit # "billing" => tenantPlan = 0
    /\ visit # "forms"   => settings = [f \in Fields |-> "unset"]

WebAppInit ==
    /\ visit \in Visits
    /\ ChatInit /\ WorkflowInit /\ KnowledgePageInit /\ AgentsPageInit /\ McpPageInit
    /\ BillingTabInit /\ ApiKeysTabInit /\ TeamTabInit /\ SettingsFormsInit
    /\ NotificationBellInit /\ SearchBoxInit /\ WebSessionInit
    /\ PluginsPageInit /\ AuditPageInit
    /\ UnvisitedInit

\* The pages that are not visited stay as they are.
OthersStay ==
    /\ UNCHANGED visit
    /\ visit # "chat"      => UNCHANGED chatVars
    /\ visit # "workflows" => UNCHANGED wfVars
    /\ visit # "knowledge" => UNCHANGED kbVars
    /\ visit # "agents"    => UNCHANGED agentsVars
    /\ visit # "mcp"       => UNCHANGED mcpVars
    /\ visit # "billing"   => UNCHANGED billVars
    /\ visit # "keys"      => UNCHANGED keysVars
    /\ visit # "team"      => UNCHANGED teamVars
    /\ visit # "forms"     => UNCHANGED formVars
    /\ visit # "bell"      => UNCHANGED bellVars
    /\ visit # "search"    => UNCHANGED searchVars
    /\ visit # "session"   => UNCHANGED sessionVars
    /\ visit # "plugins"   => UNCHANGED pluginsVars
    /\ visit # "audit"     => UNCHANGED auditVars

WebAppNext ==
    \/ visit = "chat" /\ ChatNext /\ OthersStay
    \/ visit = "workflows" /\ WorkflowNext /\ OthersStay
    \/ visit = "knowledge" /\ KnowledgePageNext /\ OthersStay
    \/ visit = "agents" /\ AgentsPageNext /\ OthersStay
    \/ visit = "mcp" /\ McpPageNext /\ OthersStay
    \/ visit = "billing" /\ BillingTabNext /\ OthersStay
    \/ visit = "keys" /\ ApiKeysTabNext /\ OthersStay
    \/ visit = "team" /\ TeamTabNext /\ OthersStay
    \/ visit = "forms" /\ SettingsFormsNext /\ OthersStay
    \/ visit = "bell" /\ NotificationBellNext /\ OthersStay
    \/ visit = "search" /\ SearchBoxNext /\ OthersStay
    \/ visit = "session" /\ WebSessionNext /\ OthersStay
    \/ visit = "plugins" /\ PluginsPageNext /\ OthersStay
    \/ visit = "audit" /\ AuditPageNext /\ OthersStay

\* The fairness of each page, while it is the one visited.
WebAppFairness ==
    /\ WF_chatVars(visit = "chat" /\ Render)
    /\ \A n \in Sends : WF_chatVars(visit = "chat" /\ StreamStep(n))
    /\ \A n \in 1..MaxPolls : WF_bellVars(visit = "bell" /\ Poll(n))
    /\ WF_bellVars(visit = "bell" /\ \E r \in bellAsked : BellServe(r))
    /\ WF_bellVars(visit = "bell" /\ \E r \in bellAsked : FinishBell(r))
    /\ \A n \in 1..MaxPolling : WF_sessionVars(visit = "session" /\ PollSession(n))
    /\ WF_sessionVars(visit = "session" /\ \E r \in sessionAsked : SessionServe(r))
    /\ WF_sessionVars(visit = "session" /\ \E r \in sessionAsked : FinishSession(r))

WebAppSpec == WebAppInit /\ [][WebAppNext]_webVars /\ WebAppFairness
-----------------------------------------------------------------------------
(* What a page saves under an id was read or entered for that id: a graph  *)
(* for its workflow, a form's values for its agent.                        *)
SavesAreOwn == SavedGraphsAreOwn /\ SavedAgentsAreOwn

(* What the lists show, edited by the pages themselves after each answer,  *)
(* is what the server has, once nothing is in flight and nothing was lost. *)
ListsAreStored ==
    /\ WorkflowListIsStored /\ AgentsListIsStored /\ ConnectorsListIsStored
    /\ KeysListIsStored /\ TeamListIsStored /\ PluginsListIsStored

(* What is shown as the answer to a choice belongs to that choice: the     *)
(* documents to the base, the results to the text, a plugin's result to    *)
(* the plugin, the log entries to the filters and the page.                *)
AnswersBelong ==
    /\ ShownBelongToSelected /\ ResultsBelongToText
    /\ ResultIsOfPlugin /\ RowsBelongToQuery
=============================================================================
