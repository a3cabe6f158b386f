------------------------------ MODULE PluginsPage ------------------------------
(***************************************************************************)
(* The plugins page of the web client: the marketplace, the plugins that   *)
(* are installed, and a dialog that tries one of them.  Installing and     *)
(* uninstalling load the page again when they are answered, a load hides   *)
(* everything, and two of them may overlap.  A handler runs up to its      *)
(* await in one step and after it in another; a request may fail before or *)
(* after it is served.                                                     *)
(*                                                                         *)
(* An installed plugin is known by its name: the server keeps one row for  *)
(* it and tenant, active or not.  The dialog's tool and arguments are left *)
(* out, and so are installations of other users.  MaxPluginClicks bounds   *)
(* what the user does.                                                     *)
(***************************************************************************)
EXTENDS Naturals

CONSTANTS Plugins, ExistingPlugins, NoPlugin, MaxPluginClicks

ASSUME PluginsPageAssumption ==
    ExistingPlugins \subseteq Plugins /\ NoPlugin \notin Plugins /\ MaxPluginClicks \in Nat

VARIABLES
    plugins,        \* marketplace, installed, and whether all is hidden (loading)
    installingSet,  \* the plugins whose installation is awaited
    pluginTest,     \* the dialog: testPlugin, testRunning, and whose testResult it shows
    pluginsAsked,   \* the requests in flight
    pluginsStored,  \* the server: the plugins that are installed and active
    pluginClicks,   \* what the user has done so far
    pluginsMissed,  \* history: a load or an answer was lost, or came out of order
    testCrossed     \* history: the dialog was closed under a request

pluginsPage == <<plugins, installingSet, pluginTest>>
pluginsHistory == <<pluginsMissed, testCrossed>>
pluginsVars == <<pluginsPage, pluginsAsked, pluginsStored, pluginClicks, pluginsHistory>>
-----------------------------------------------------------------------------
PluginClick == pluginClicks < MaxPluginClicks /\ pluginClicks' = pluginClicks + 1

\* Nothing is shown while a load runs, and the dialog covers the tabs.
TabsShown == ~plugins.loading /\ pluginTest.plugin = NoPlugin

\* A request, for a plugin; a load is for the installation it ends, if any.
PluginRequest(kind, p) ==
    [n |-> pluginClicks, kind |-> kind, phase |-> "sent", plugin |-> p, answer |-> {},
     old |-> FALSE]

PluginsAsk(kind, p) == pluginsAsked' = pluginsAsked \cup {PluginRequest(kind, p)}

InstallPlugin(p) ==
    /\ PluginClick
    /\ TabsShown
    /\ p \in (plugins.marketplace \ plugins.installed) \ installingSet
    /\ installingSet' = installingSet \cup {p}
    /\ PluginsAsk("install", p)
    /\ UNCHANGED <<plugins, pluginTest, pluginsStored, pluginsHistory>>

\* The button asks nothing, and may be clicked again.
UninstallPlugin(p) ==
    /\ PluginClick
    /\ TabsShown
    /\ p \in plugins.installed
    /\ PluginsAsk("uninstall", p)
    /\ UNCHANGED <<pluginsPage, pluginsStored, pluginsHistory>>

OpenTestModal(p) ==
    /\ PluginClick
    /\ TabsShown
    /\ p \in plugins.installed
    /\ pluginTest' = [pluginTest EXCEPT !.plugin = p, !.result = NoPlugin]
    /\ UNCHANGED <<plugins, installingSet, pluginsAsked, pluginsStored, pluginsHistory>>

CloseTestModal ==
    /\ PluginClick
    /\ ~plugins.loading
    /\ pluginTest.plugin # NoPlugin
    /\ pluginTest' = [pluginTest EXCEPT !.plugin = NoPlugin, !.result = NoPlugin]
    /\ testCrossed' = (testCrossed \/ pluginTest.running)
    /\ UNCHANGED <<plugins, installingSet, pluginsAsked, pluginsStored, pluginsMissed>>

\* The button is a spinner until the answer, in the dialog of another plugin too.
ExecutePlugin ==
    /\ PluginClick
    /\ ~plugins.loading
    /\ pluginTest.plugin # NoPlugin /\ ~pluginTest.running
    /\ pluginTest' = [pluginTest EXCEPT !.running = TRUE, !.result = NoPlugin]
    /\ PluginsAsk("execute", pluginTest.plugin)
    /\ UNCHANGED <<plugins, installingSet, pluginsStored, pluginsHistory>>
-----------------------------------------------------------------------------
(* The server.  Installing what is installed is an error, uninstalling     *)
(* what is not is none; only an installed plugin is executed.  A change is *)
(* committed before it is answered.                                        *)

\* A load that is read makes those that were read before it old.
ReadPlugins(r) ==
    {IF q.kind = "load" /\ q.phase = "served" THEN [q EXCEPT !.old = TRUE] ELSE q :
        q \in pluginsAsked \ {r}}
      \cup {[r EXCEPT !.phase = "served", !.answer = pluginsStored]}

PluginsServe(r) ==
    /\ r.phase = "sent"
    /\ \/ r.kind = "load" /\ UNCHANGED pluginsStored
       \/ /\ r.kind = "install" /\ r.plugin \notin pluginsStored
          /\ pluginsStored' = pluginsStored \cup {r.plugin}
       \/ r.kind = "uninstall" /\ pluginsStored' = pluginsStored \ {r.plugin}
       \/ r.kind = "execute" /\ r.plugin \in pluginsStored /\ UNCHANGED pluginsStored
    /\ pluginsAsked' = IF r.kind = "load" THEN ReadPlugins(r)
                       ELSE (pluginsAsked \ {r}) \cup {[r EXCEPT !.phase = "served"]}
    /\ UNCHANGED <<pluginsPage, pluginClicks, pluginsHistory>>
-----------------------------------------------------------------------------
(* The handlers after their await.                                         *)

PluginOver(r, kind) == r.kind = kind /\ UNCHANGED <<pluginsStored, pluginClicks>>

PluginAnswered(r, kind) == r.phase = "served" /\ PluginOver(r, kind)

\* loadData, and the rest of the handleInstall that awaits it.
FinishLoadPlugins(r) ==
    /\ PluginAnswered(r, "load")
    /\ pluginsAsked' = pluginsAsked \ {r}
    /\ plugins' = [marketplace |-> Plugins, installed |-> r.answer, loading |-> FALSE]
    /\ installingSet' = installingSet \ {r.plugin}
    /\ pluginsMissed' = (pluginsMissed \/ r.old)
    /\ UNCHANGED <<pluginTest, testCrossed>>

FailLoadPlugins(r) ==
    /\ PluginOver(r, "load")
    /\ pluginsAsked' = pluginsAsked \ {r}
    /\ plugins' = [plugins EXCEPT !.loading = FALSE]
    /\ installingSet' = installingSet \ {r.plugin}
    /\ pluginsMissed' = TRUE
    /\ UNCHANGED <<pluginTest, testCrossed>>

\* What the page has changed it loads.
FinishChange(r) ==
    /\ PluginAnswered(r, "install") \/ PluginAnswered(r, "uninstall")
    /\ plugins' = [plugins EXCEPT !.loading = TRUE]
    /\ pluginsAsked' = (pluginsAsked \ {r}) \cup
            {[r EXCEPT !.kind = "load", !.phase = "sent",
                       !.plugin = IF r.kind = "install" THEN @ ELSE NoPlugin]}
    /\ UNCHANGED <<installingSet, pluginTest, pluginsHistory>>

FailChange(r) ==
    /\ PluginOver(r, "install") \/ PluginOver(r, "uninstall")
    /\ pluginsAsked' = pluginsAsked \ {r}
    /\ installingSet' = IF r.kind = "install" THEN installingSet \ {r.plugin}
                        ELSE installingSet
    /\ pluginsMissed' = (pluginsMissed \/ r.phase = "served")
    /\ UNCHANGED <<plugins, pluginTest, testCrossed>>

\* A result or an error, shown in whatever dialog is open by now.
EndTestExecute(r) ==
    /\ PluginOver(r, "execute")
    /\ pluginsAsked' = pluginsAsked \ {r}
    /\ pluginTest' = [pluginTest EXCEPT !.running = FALSE, !.result = r.plugin]
    /\ UNCHANGED <<plugins, installingSet, pluginsHistory>>
-----------------------------------------------------------------------------
PluginsPageInit ==
    /\ plugins = [marketplace |-> {}, installed |-> {}, loading |-> TRUE]
    /\ installingSet = {}
    /\ pluginTest = [plugin |-> NoPlugin, running |-> FALSE, result |-> NoPlugin]
    /\ pluginsStored = ExistingPlugins
    /\ pluginClicks = 0
    /\ pluginsAsked = {PluginRequest("load", NoPlugin)}
    /\ pluginsMissed = FALSE
    /\ testCrossed = FALSE

PluginsPageNext ==
    \/ \E p \in Plugins : InstallPlugin(p) \/ UninstallPlugin(p) \/ OpenTestModal(p)
    \/ CloseTestModal \/ ExecutePlugin
    \/ \E r \in pluginsAsked :
          \/ PluginsServe(r)
          \/ FinishLoadPlugins(r) \/ FailLoadPlugins(r)
          \/ FinishChange(r) \/ FailChange(r) \/ EndTestExecute(r)

PluginsPageSpec == PluginsPageInit /\ [][PluginsPageNext]_pluginsVars
-----------------------------------------------------------------------------
(* When nothing is in flight the page shows the installed plugins the      *)
(* server has, however its changes and loads overlapped, unless a load     *)
(* failed or was shown after one that was read later, or the answer to a   *)
(* change was lost, so that no load followed it.                           *)
PluginsListIsStored ==
    pluginsAsked = {} /\ ~pluginsMissed => plugins.installed = pluginsStored

(* A result is shown in the dialog of the plugin it is of, unless that was *)
(* closed while the plugin ran.                                            *)
ResultIsOfPlugin ==
    ~testCrossed => pluginTest.result \in {NoPlugin, pluginTest.plugin}
=============================================================================
