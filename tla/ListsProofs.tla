----------------------------- MODULE ListsProofs ------------------------------
(***************************************************************************)
(* The lists of the web client are those of the server, for any ids and    *)
(* any number of clicks: once nothing is in flight and nothing was missed. *)
(* Each invariant says the same of its page: where the list, or the one    *)
(* that will replace it, differs from the server, a change of that very    *)
(* row is not committed or not answered yet.  For this an id must never    *)
(* come back (Fresh, Given, Known), what a served deletion is about must   *)
(* be gone (Gone), and what a served creation is about must be there (Lost,*)
(* Kept, New) until both are answered.                                     *)
(***************************************************************************)
EXTENDS PagesProofs

-----------------------------------------------------------------------------
(* PluginsPage.  Every change is followed by a load.                       *)

PluginsShown ==
    /\ plugins \in [marketplace : SUBSET AnyPlugin, installed : SUBSET AnyPlugin,
                    loading : BOOLEAN]
    /\ \A r \in pluginsAsked : r.old => r.kind = "load" /\ r.phase = "served"

PluginsChange(r) == r.phase = "served" /\ r.kind \in {"install", "uninstall"}

\* A load that is still to be read, or a change that will be followed by one.
PluginsToCome(r) == (r.kind = "load" /\ r.phase = "sent") \/ PluginsChange(r)

\* The load that was read last.
LastRead(r) == r.kind = "load" /\ r.phase = "served" /\ ~r.old

PluginsSynced ==
    \/ pluginsMissed
    \/ \E r \in pluginsAsked : PluginsToCome(r)
    \/ /\ \A r \in pluginsAsked : LastRead(r) => r.answer = pluginsStored
       /\ (\A r \in pluginsAsked : ~LastRead(r)) => plugins.installed = pluginsStored

PluginsListed == PluginInv /\ PluginsShown /\ PluginsSynced

LEMMA PluginsListStarts == PluginsPageInit => PluginsListed
  <1>1. SUFFICES ASSUME PluginsPageInit PROVE PluginsListed
    OBVIOUS
  <1>2. PluginsShown /\ PluginsSynced
    BY <1>1 DEF PluginsPageInit, PluginsShown, PluginsSynced, PluginsToCome, PluginRequest
  <1>3. QED
    BY <1>1, <1>2, PluginsStart DEF PluginsListed

LEMMA PluginsListStep == PluginsListed /\ [PluginsPageNext]_pluginsVars => PluginsListed'
  <1>1. SUFFICES ASSUME PluginsListed, [PluginsPageNext]_pluginsVars
                 PROVE  PluginsShown' /\ PluginsSynced'
    BY PluginsNext DEF PluginsListed
  <1>2. pluginsAsked \subseteq PluginRequests
    BY <1>1 DEF PluginsListed, PluginInv, PluginTypes
  <1> USE DEF PluginsListed
  \* Nothing that counts is asked, served or answered.
  <1>3. ASSUME UNCHANGED <<plugins, pluginsStored>>, pluginsMissed => pluginsMissed',
               \A r \in pluginsAsked : PluginsToCome(r) \/ LastRead(r) => r \in pluginsAsked',
               \A r \in pluginsAsked' : LastRead(r) => r \in pluginsAsked,
               \A r \in pluginsAsked' : r.old => r \in pluginsAsked
        PROVE  PluginsShown' /\ PluginsSynced'
    BY <1>1, <1>3 DEF PluginsShown, PluginsSynced
  <1>4. ASSUME NEW kind \in {"install", "uninstall", "execute"}, NEW p \in AnyPlugin,
               UNCHANGED <<plugins, pluginsStored, pluginsMissed>>, PluginsAsk(kind, p)
        PROVE  PluginsShown' /\ PluginsSynced'
    <2> DEFINE q == PluginRequest(kind, p)
    <2>1. pluginsAsked' = pluginsAsked \cup {q} /\ q.kind # "load" /\ ~q.old
      BY <1>4 DEF PluginsAsk, PluginRequest
    <2> HIDE DEF q
    <2>2. QED
      BY <1>3, <1>4, <2>1 DEF LastRead
  <1>5. ASSUME NEW p \in Plugins, InstallPlugin(p) \/ UninstallPlugin(p) \/ OpenTestModal(p)
        PROVE  PluginsShown' /\ PluginsSynced'
    <2>1. p \in AnyPlugin /\ UNCHANGED <<plugins, pluginsStored, pluginsMissed>>
      BY <1>5 DEF InstallPlugin, UninstallPlugin, OpenTestModal, pluginsPage, pluginsHistory,
                  AnyPlugin
    <2>2. CASE OpenTestModal(p)
      BY <1>3, <2>1, <2>2 DEF OpenTestModal
    <2>3. CASE InstallPlugin(p) \/ UninstallPlugin(p)
      BY <1>4, <2>1, <2>3 DEF InstallPlugin, UninstallPlugin
    <2>4. QED
      BY <1>5, <2>2, <2>3
  <1>6. CASE CloseTestModal \/ UNCHANGED pluginsVars
    BY <1>3, <1>6 DEF CloseTestModal, pluginsVars, pluginsPage, pluginsHistory
  <1>7. CASE ExecutePlugin
    <2>1. pluginTest.plugin \in AnyPlugin
      BY <1>1 DEF PluginInv, PluginTypes, Dialogs
    <2>2. QED
      BY <1>4, <1>7, <2>1 DEF ExecutePlugin, pluginsHistory
  <1>8. ASSUME NEW r \in pluginsAsked, PluginsServe(r) PROVE PluginsShown' /\ PluginsSynced'
    <2>1. UNCHANGED <<plugins, pluginsMissed>> /\ r.phase = "sent"
      BY <1>8 DEF PluginsServe, pluginsPage, pluginsHistory
    <2>2. CASE r.kind = "load"
      <3> DEFINE q == [r EXCEPT !.phase = "served", !.answer = pluginsStored]
                 Old(x) == [x EXCEPT !.old = TRUE]
      <3>1. /\ pluginsAsked' =
                {IF x.kind = "load" /\ x.phase = "served" THEN Old(x) ELSE x :
                    x \in pluginsAsked \ {r}} \cup {q}
            /\ pluginsStored' = pluginsStored
        BY <1>8, <2>2 DEF PluginsServe, ReadPlugins
      <3>2. LastRead(q) => q.answer = pluginsStored
        BY <1>2 DEF PluginRequests
      <3>3. /\ q.kind = "load" /\ q.phase = "served" /\ q.old = r.old
        BY <1>2, <2>2 DEF PluginRequests
      <3>4. \A x \in pluginsAsked : Old(x).old /\ Old(x).kind = x.kind /\ Old(x).phase = x.phase
        BY <1>2 DEF PluginRequests
      <3> HIDE DEF q, Old
      <3>5. \A x \in pluginsAsked' : LastRead(x) => x = q
        BY <3>1, <3>4 DEF LastRead
      <3>6. LastRead(q)
        BY <1>1, <2>1, <3>3 DEF PluginsShown, LastRead
      <3>7. PluginsShown'
        BY <1>1, <2>1, <3>1, <3>3, <3>4 DEF PluginsShown
      <3>8. PluginsSynced'
        BY <2>1, <3>1, <3>2, <3>5, <3>6 DEF PluginsSynced
      <3>9. QED
        BY <3>7, <3>8
    <2>3. CASE r.kind # "load"
      <3> DEFINE q == [r EXCEPT !.phase = "served"]
      <3>1. /\ pluginsAsked' = (pluginsAsked \ {r}) \cup {q}
            /\ r.kind \in {"install", "uninstall"} \/ pluginsStored' = pluginsStored
        BY <1>8, <2>3 DEF PluginsServe
      <3>2. q.kind = r.kind /\ q.phase = "served" /\ ~q.old
        BY <1>1, <1>2, <2>3 DEF PluginRequests, PluginsShown
      <3> HIDE DEF q
      <3>3. CASE r.kind \in {"install", "uninstall"}
        BY <1>1, <2>1, <3>1, <3>2, <3>3
           DEF PluginsShown, PluginsSynced, PluginsToCome, PluginsChange
      <3>4. CASE r.kind \notin {"install", "uninstall"}
        BY <1>3, <2>1, <2>3, <3>1, <3>2, <3>4 DEF PluginsToCome, PluginsChange, LastRead
      <3>5. QED
        BY <3>3, <3>4
    <2>4. QED
      BY <2>2, <2>3
  <1>9. ASSUME NEW r \in pluginsAsked, FinishLoadPlugins(r)
        PROVE  PluginsShown' /\ PluginsSynced'
    <2>1. /\ plugins' = [marketplace |-> Plugins, installed |-> r.answer, loading |-> FALSE]
          /\ pluginsMissed' = (pluginsMissed \/ r.old) /\ pluginsStored' = pluginsStored
          /\ pluginsAsked' = pluginsAsked \ {r} /\ r.kind = "load" /\ r.phase = "served"
      BY <1>9 DEF FinishLoadPlugins, PluginAnswered, PluginOver
    <2>2. r.answer \in SUBSET AnyPlugin
      BY <1>2 DEF PluginRequests
    <2>3. plugins' \in [marketplace : SUBSET AnyPlugin, installed : SUBSET AnyPlugin,
                        loading : BOOLEAN]
      BY <2>1, <2>2 DEF AnyPlugin
    <2>6. PluginsShown'
      BY <1>1, <2>1, <2>3 DEF PluginsShown
    <2>4. PluginsSynced'
      BY <1>1, <2>1 DEF PluginsSynced, PluginsToCome, PluginsChange, LastRead
    <2>5. QED
      BY <2>4, <2>6
  <1>10. ASSUME NEW r \in pluginsAsked, FailLoadPlugins(r)
         PROVE  PluginsShown' /\ PluginsSynced'
    BY <1>1, <1>10 DEF FailLoadPlugins, PluginsShown, PluginsSynced
  <1>11. ASSUME NEW r \in pluginsAsked, FinishChange(r)
         PROVE  PluginsShown' /\ PluginsSynced'
    <2> DEFINE q == [r EXCEPT !.kind = "load", !.phase = "sent",
                              !.plugin = IF r.kind = "install" THEN @ ELSE NoPlugin]
    <2>1. plugins' \in [marketplace : SUBSET AnyPlugin, installed : SUBSET AnyPlugin,
                        loading : BOOLEAN]
      BY <1>1, <1>11 DEF FinishChange, PluginsShown
    <2>2. q.kind = "load" /\ q.phase = "sent" /\ q.old = r.old
      BY <1>2 DEF PluginRequests
    <2>3. ~r.old /\ pluginsAsked' = (pluginsAsked \ {r}) \cup {q}
      BY <1>1, <1>11 DEF FinishChange, PluginAnswered, PluginOver, PluginsShown
    <2> HIDE DEF q
    <2>4. QED
      BY <1>1, <2>1, <2>2, <2>3 DEF PluginsShown, PluginsSynced, PluginsToCome
  <1>12. ASSUME NEW r \in pluginsAsked, FailChange(r) PROVE PluginsShown' /\ PluginsSynced'
    <2>1. pluginsAsked' = pluginsAsked \ {r} /\ r.kind # "load"
            /\ UNCHANGED <<plugins, pluginsStored>>
      BY <1>12 DEF FailChange, PluginOver
    <2>2. pluginsMissed' = (pluginsMissed \/ r.phase = "served")
      BY <1>12 DEF FailChange
    <2>3. CASE r.phase = "served"
      BY <1>1, <2>1, <2>2, <2>3 DEF PluginsShown, PluginsSynced
    <2>4. CASE r.phase # "served"
      <3>1. pluginsMissed => pluginsMissed'
        BY <2>2
      <3>2. QED
        BY <1>3, <2>1, <2>4, <3>1 DEF PluginsToCome, PluginsChange, LastRead
    <2>5. QED
      BY <2>3, <2>4
  <1>13. ASSUME NEW r \in pluginsAsked, EndTestExecute(r)
         PROVE  PluginsShown' /\ PluginsSynced'
    <2>1. r.kind = "execute" /\ pluginsAsked' = pluginsAsked \ {r}
            /\ UNCHANGED <<plugins, pluginsStored, pluginsMissed>>
      BY <1>13 DEF EndTestExecute, PluginOver, pluginsHistory
    <2>2. QED
      BY <1>3, <2>1 DEF PluginsToCome, PluginsChange, LastRead
  <1>14. QED
    BY <1>1, <1>5, <1>6, <1>7, <1>8, <1>9, <1>10, <1>11, <1>12, <1>13 DEF PluginsPageNext

-----------------------------------------------------------------------------
(* ApiKeysTab.  Creating and revoking load the list again, deleting edits  *)
(* what is shown; a change may be committed after its answer.              *)

KeyRecords == [id : Keys \cup {NoKey}, active : BOOLEAN]

KeyRequests ==
    [n : Nat, kind : {"list", "create", "revoke", "delete"},
     phase : {"sent", "found", "served"}, id : Keys \cup {NoKey},
     answer : SUBSET KeyRecords, old : BOOLEAN]

KeyTypes ==
    /\ keysListed \in [rows : SUBSET KeyRecords, loading : BOOLEAN]
    /\ keysAsked \subseteq KeyRequests
    /\ \A r \in keysAsked : r.old => r.kind = "list" /\ r.phase = "served"
    /\ keysFlushed \subseteq KeyRequests
    /\ \A c \in keysFlushed : c.kind # "list" /\ c.phase = "served"
    /\ keysStored \subseteq KeyRecords
    /\ keyClicks \in Nat

\* The creations that are not committed.
KeysToCome ==
    {c \in keysAsked : c.kind = "create" /\ c.phase = "sent"}
      \cup {c \in keysFlushed : c.kind = "create"}

KnownKey(i) == i \in keysUsed /\ \A c \in KeysToCome : c.id # i

\* An id that the tab or the server has heard of was given out, and not for a
\* key that is still to come.
KeysFresh ==
    /\ \A c \in KeysToCome :
          c.id \in keysUsed /\ \A d \in KeysToCome : d.id = c.id => d = c
    /\ \A x \in keysListed.rows \cup keysStored : KnownKey(x.id)
    /\ \A q \in keysAsked :
          (\A x \in q.answer : KnownKey(x.id)) /\ (q.kind = "delete" => KnownKey(q.id))

\* A served deletion that is committed is about a key that is gone.
KeysGone ==
    \A r \in keysAsked \ keysFlushed :
        r.kind = "delete" /\ r.phase = "served" => \A x \in keysStored : x.id # r.id

\* What may differ: a change of it is not committed, or not answered.
KeyChanging(i) ==
    \/ KeyFlushed(i)
    \/ \E r \in keysAsked : r.kind # "list" /\ r.phase = "served" /\ r.id = i

KeysAgree(rows) ==
    \A x \in (rows \ keysStored) \cup (keysStored \ rows) : KeyChanging(x.id)

\* A list that is to be read, and the one that was read last.
KeysToRead(r) == r.kind = "list" /\ r.phase = "sent"
KeysLastRead(r) == r.kind = "list" /\ r.phase = "served" /\ ~r.old

\* No list was read after a deletion was answered and before it was committed.
KeysTold ==
    \/ keysMissed
    \/ \A c \in keysFlushed \ keysAsked : c.kind = "delete" =>
          /\ \A r \in keysAsked : r.kind = "list" => r.phase # "served"
          /\ \A x \in keysListed.rows : x.id # c.id

KeysSynced ==
    \/ keysMissed
    \/ \E r \in keysAsked : KeysToRead(r)
    \/ /\ \A c \in keysFlushed \ keysAsked : c.kind = "delete"
       /\ \A r \in keysAsked : KeysLastRead(r) => KeysAgree(r.answer)
       /\ (\A r \in keysAsked : ~KeysLastRead(r)) => KeysAgree(keysListed.rows)

KeysListed == KeyTypes /\ KeysFresh /\ KeysGone /\ KeysTold /\ KeysSynced

LEMMA KeysListStarts == ApiKeysTabInit => KeysListed
  <1>1. SUFFICES ASSUME ApiKeysTabInit PROVE KeysListed
    OBVIOUS
  <1>2. KeyTypes
    <2>1. KeyRequest("list", NoKey) \in KeyRequests /\ ~KeyRequest("list", NoKey).old
      BY <1>1 DEF ApiKeysTabInit, KeyRequest, KeyRequests
    <2>2. \A k \in ExistingKeys : ApiKey(k, TRUE) \in KeyRecords
      BY ApiKeysTabAssumption DEF ApiKey, KeyRecords
    <2>3. QED
      BY <1>1, <2>1, <2>2 DEF ApiKeysTabInit, KeyTypes
  <1>3. KeysFresh
    BY <1>1 DEF ApiKeysTabInit, KeysFresh, KnownKey, KeysToCome, KeyRequest, ApiKey
  <1>4. KeysGone /\ KeysTold /\ KeysSynced
    BY <1>1 DEF ApiKeysTabInit, KeysGone, KeysTold, KeysSynced, KeysToRead, KeyRequest
  <1>5. QED
    BY <1>2, <1>3, <1>4 DEF KeysListed

LEMMA KeysListStep == KeysListed /\ [ApiKeysTabNext]_keysVars => KeysListed'
  <1>1. SUFFICES ASSUME KeysListed, [ApiKeysTabNext]_keysVars PROVE KeysListed'
    OBVIOUS
  <1> USE DEF keysPage, keysServer, KeysListed
  <1>2. /\ keysAsked \subseteq KeyRequests /\ keysStored \subseteq KeyRecords
        /\ keysListed \in [rows : SUBSET KeyRecords, loading : BOOLEAN]
        /\ keysFlushed \subseteq KeyRequests /\ keyClicks \in Nat
        /\ \A c \in keysFlushed : c.kind # "list" /\ c.phase = "served"
        /\ \A r \in keysAsked : r.old => r.kind = "list" /\ r.phase = "served"
    BY <1>1 DEF KeyTypes
  \* Nothing that matters is asked, answered or served.
  <1>3. ASSUME UNCHANGED <<keysListed, keysStored, keysFlushed>>, keysMissed => keysMissed',
               \A r \in keysAsked : r.kind = "list" \/ r.phase = "served" => r \in keysAsked',
               \A r \in keysAsked' : r.kind = "list" \/ r.phase = "served" => r \in keysAsked
        PROVE  KeysGone' /\ KeysTold' /\ KeysSynced'
    <2>1. \A c \in keysFlushed : c \in keysAsked <=> c \in keysAsked'
      BY <1>2, <1>3
    <2>2. KeysGone' /\ KeysTold'
      BY <1>1, <1>3, <2>1 DEF KeysGone, KeysTold
    <2>3. \A i : KeyChanging(i) <=> KeyChanging(i)'
      BY <1>3 DEF KeyChanging, KeyFlushed
    <2>4. KeysSynced'
      BY <1>1, <1>3, <2>1, <2>3 DEF KeysSynced, KeysToRead, KeysLastRead, KeysAgree
    <2>5. QED
      BY <2>2, <2>4
  <1>4. CASE \/ OpenKeyDialog \/ TypeKeyName \/ CloseKeyDialog \/ DismissCreatedKey
             \/ UNCHANGED keysVars
    <2>1. UNCHANGED <<keysListed, keysAsked, keysServer, keysMissed>> /\ keyClicks' \in Nat
      BY <1>2, <1>4 DEF OpenKeyDialog, TypeKeyName, CloseKeyDialog, DismissCreatedKey,
                        KeyClick, keysVars
    <2>2. KeyTypes' /\ KeysFresh'
      BY <1>1, <2>1 DEF KeyTypes, KeysFresh, KnownKey, KeysToCome
    <2>3. QED
      BY <1>3, <2>1, <2>2
  \* What the user asks for: a key of a new id, or something about a listed one.
  <1>5. ASSUME NEW kind \in {"create", "revoke", "delete"}, NEW k \in Keys \cup {NoKey},
               keysAsked' = keysAsked \cup {KeyRequest(kind, k)}, KeyClick,
               UNCHANGED <<keysListed, keysStored, keysFlushed, keysMissed>>,
               \/ kind = "create" /\ k \notin keysUsed /\ keysUsed' = keysUsed \cup {k}
               \/ /\ kind # "create" /\ keysUsed' = keysUsed
                  /\ \E x \in keysListed.rows : x.id = k
        PROVE  KeysListed'
    <2> DEFINE q == KeyRequest(kind, k)
    <2>1. /\ q \in KeyRequests /\ q.kind = kind /\ q.phase = "sent" /\ q.id = k
          /\ q.answer = {} /\ ~q.old /\ keysAsked' = keysAsked \cup {q}
      BY <1>2, <1>5 DEF KeyRequest, KeyRequests
    <2> HIDE DEF q
    <2>2. KeyTypes'
      BY <1>2, <1>5, <2>1 DEF KeyClick, KeyTypes
    <2>3. \/ KeysToCome' = KeysToCome /\ kind # "create"
          \/ KeysToCome' = KeysToCome \cup {q} /\ kind = "create"
      BY <1>5, <2>1 DEF KeysToCome
    <2>4. KeysFresh'
      BY <1>1, <1>5, <2>1, <2>3 DEF KeysFresh, KnownKey
    <2>5. KeysGone' /\ KeysTold' /\ KeysSynced'
      BY <1>3, <1>5, <2>1
    <2>6. QED
      BY <2>2, <2>4, <2>5
  <1>6. ASSUME NEW k \in Keys, HandleCreateKey(k) PROVE KeysListed'
    BY <1>5, <1>6 DEF HandleCreateKey
  <1>7. ASSUME NEW x \in keysListed.rows, HandleRevokeKey(x) \/ HandleDeleteKey(x)
        PROVE  KeysListed'
    <2>1. x.id \in Keys \cup {NoKey}
      BY <1>2 DEF KeyRecords
    <2>2. QED
      BY <1>5, <1>7, <2>1 DEF HandleRevokeKey, HandleDeleteKey
  <1>8. ASSUME NEW r \in keysAsked, KeysServeList(r) PROVE KeysListed'
    <2> DEFINE q == [r EXCEPT !.phase = "served", !.answer = keysStored]
               Old(x) == IF x.kind = "list" /\ x.phase = "served"
                         THEN [x EXCEPT !.old = TRUE] ELSE x
    <2>1. /\ keysAsked' = {Old(x) : x \in keysAsked \ {r}} \cup {q}
          /\ UNCHANGED <<keysListed, keysServer, keyClicks>>
          /\ r.kind = "list" /\ r.phase = "sent" /\ ~r.old
      BY <1>2, <1>8 DEF KeysServeList
    <2>2. /\ q \in KeyRequests /\ q.kind = "list" /\ q.phase = "served" /\ q.id = r.id
          /\ q.answer = keysStored /\ ~q.old
      BY <1>2, <2>1 DEF KeyRequests
    <2>3. \A x \in keysAsked :
             /\ Old(x) \in KeyRequests /\ Old(x).kind = x.kind /\ Old(x).phase = x.phase
             /\ Old(x).answer = x.answer /\ Old(x).id = x.id
             /\ Old(x).old => x.kind = "list" /\ x.phase = "served"
             /\ x.kind = "list" /\ x.phase = "served" => Old(x).old
             /\ x.kind # "list" => Old(x) = x
      <3> SUFFICES ASSUME NEW x \in keysAsked
                   PROVE  /\ Old(x) \in KeyRequests /\ Old(x).kind = x.kind
                          /\ Old(x).phase = x.phase
                          /\ Old(x).answer = x.answer /\ Old(x).id = x.id
                          /\ Old(x).old => x.kind = "list" /\ x.phase = "served"
                          /\ x.kind = "list" /\ x.phase = "served" => Old(x).old
                          /\ x.kind # "list" => Old(x) = x
        OBVIOUS
      <3>1. CASE x.kind = "list" /\ x.phase = "served"
        BY <1>2, <3>1 DEF KeyRequests
      <3>2. CASE ~(x.kind = "list" /\ x.phase = "served")
        BY <1>2, <3>2 DEF KeyRequests
      <3>3. QED
        BY <3>1, <3>2
    <2> HIDE DEF q, Old
    <2>4. KeyTypes'
      BY <1>2, <2>1, <2>2, <2>3 DEF KeyTypes
    <2>5. KeysToCome' = KeysToCome
      BY <2>1, <2>2, <2>3 DEF KeysToCome
    <2>6. KeysFresh'
      BY <1>1, <2>1, <2>2, <2>3, <2>5 DEF KeysFresh, KnownKey
    <2>7. \A c \in keysFlushed : c \in keysAsked <=> c \in keysAsked'
      BY <1>2, <2>1, <2>2, <2>3
    <2>8. KeysGone'
      BY <1>1, <2>1, <2>2, <2>3 DEF KeysGone
    <2>9. CASE ToldTooEarly
      <3>1. keysMissed'
        BY <1>8, <2>9 DEF KeysServeList
      <3>2. QED
        BY <2>4, <2>6, <2>8, <3>1 DEF KeysTold, KeysSynced
    <2>10. CASE ~ToldTooEarly
      <3>1. keysFlushed' \ keysAsked' = {}
        BY <2>1, <2>7, <2>10 DEF ToldTooEarly
      <3>2. \A x \in keysAsked' : KeysLastRead(x) => x = q
        BY <2>1, <2>3 DEF KeysLastRead
      <3>3. KeysLastRead(q) /\ q \in keysAsked' /\ q.answer = keysStored'
        BY <2>1, <2>2 DEF KeysLastRead
      <3>4. KeysTold'
        BY <3>1 DEF KeysTold
      <3>5. KeysSynced'
        BY <3>1, <3>2, <3>3 DEF KeysSynced, KeysAgree, KeysLastRead
      <3>6. QED
        BY <2>4, <2>6, <2>8, <3>4, <3>5
    <2>11. QED
      BY <2>9, <2>10
  <1>9. ASSUME NEW r \in keysAsked, KeysLookUp(r) PROVE KeysListed'
    <2> DEFINE q == [r EXCEPT !.phase = "found"]
    <2>1. /\ keysAsked' = (keysAsked \ {r}) \cup {q} /\ r.phase = "sent"
          /\ r.kind \in {"revoke", "delete"}
          /\ UNCHANGED <<keysListed, keysServer, keyClicks, keysMissed>>
      BY <1>9 DEF KeysLookUp
    <2>2. /\ q \in KeyRequests /\ q.kind = r.kind /\ q.phase = "found" /\ q.id = r.id
          /\ q.answer = r.answer /\ ~q.old
      BY <1>2, <2>1 DEF KeyRequests
    <2> HIDE DEF q
    <2>3. KeyTypes'
      BY <1>2, <2>1, <2>2 DEF KeyTypes
    <2>4. KeysToCome' = KeysToCome
      BY <2>1, <2>2 DEF KeysToCome
    <2>5. KeysFresh'
      BY <1>1, <2>1, <2>2, <2>4 DEF KeysFresh, KnownKey
    <2>6. KeysGone' /\ KeysTold' /\ KeysSynced'
      BY <1>3, <2>1, <2>2
    <2>7. QED
      BY <2>3, <2>5, <2>6
  <1>10. ASSUME NEW r \in keysAsked, KeysFlush(r) PROVE KeysListed'
    <2> DEFINE q == [r EXCEPT !.phase = "served"]
    <2>1. /\ keysAsked' = (keysAsked \ {r}) \cup {q} /\ keysFlushed' = keysFlushed \cup {q}
          /\ r.kind # "list" /\ r.phase # "served"
          /\ r.kind = "create" => r.phase = "sent"
          /\ UNCHANGED <<keysListed, keysStored, keysUsed, keyClicks, keysMissed>>
      BY <1>10 DEF KeysFlush
    <2>2. /\ q \in KeyRequests /\ q.kind = r.kind /\ q.phase = "served" /\ q.id = r.id
          /\ q.answer = r.answer /\ ~q.old
      BY <1>2, <2>1 DEF KeyRequests
    <2> HIDE DEF q
    <2>3. KeyTypes'
      BY <1>2, <2>1, <2>2 DEF KeyTypes
    <2>4. ASSUME r.kind # "create" PROVE KeysFresh'
      <3>1. KeysToCome' = KeysToCome
        BY <2>1, <2>2, <2>4 DEF KeysToCome
      <3>2. QED
        BY <1>1, <2>1, <2>2, <3>1 DEF KeysFresh, KnownKey
    <2>5. ASSUME r.kind = "create" PROVE KeysFresh'
      <3>1. KeysToCome' = (KeysToCome \ {r}) \cup {q} /\ r \in KeysToCome
        BY <1>2, <2>1, <2>2, <2>5 DEF KeysToCome
      <3>2. QED
        BY <1>1, <2>1, <2>2, <2>5, <3>1 DEF KeysFresh, KnownKey
    <2>6. KeysFresh'
      BY <2>4, <2>5
    <2>7. keysFlushed' \ keysAsked' \subseteq keysFlushed \ keysAsked
      BY <1>2, <2>1
    <2>8. KeysGone' /\ KeysTold'
      BY <1>1, <2>1, <2>2, <2>7 DEF KeysGone, KeysTold
    <2>9. \A i : KeyChanging(i) => KeyChanging(i)'
      BY <2>1 DEF KeyChanging, KeyFlushed
    <2>10. KeysSynced'
      BY <1>1, <2>1, <2>2, <2>7, <2>9 DEF KeysSynced, KeysToRead, KeysLastRead, KeysAgree
    <2>11. QED
      BY <2>3, <2>6, <2>8, <2>10
  <1>11. ASSUME NEW c \in keysFlushed, KeysCommit(c) PROVE KeysListed'
    <2>1. /\ keysFlushed' = keysFlushed \ {c}
          /\ UNCHANGED <<keysListed, keysAsked, keysUsed, keyClicks, keysMissed>>
      BY <1>11 DEF KeysCommit
    <2>2. /\ c \in KeyRequests /\ c.kind \in {"create", "revoke", "delete"}
          /\ c.phase = "served" /\ c.id \in Keys \cup {NoKey}
      BY <1>2 DEF KeyRequests
    <2>3. \/ c.kind = "create" /\ keysStored' = keysStored \cup {ApiKey(c.id, TRUE)}
          \/ /\ c.kind = "revoke"
             /\ keysStored' = {IF x.id = c.id THEN ApiKey(c.id, FALSE) ELSE x :
                                  x \in keysStored}
          \/ c.kind = "delete" /\ keysStored' = {x \in keysStored : x.id # c.id}
      BY <1>11, <2>2 DEF KeysCommit
    <2>4. \A b \in BOOLEAN : ApiKey(c.id, b) \in KeyRecords /\ ApiKey(c.id, b).id = c.id
      BY <2>2 DEF ApiKey, KeyRecords
    <2>5. /\ keysStored' \subseteq KeyRecords
          /\ \A x : x.id # c.id => (x \in keysStored <=> x \in keysStored')
          /\ c.kind # "create" => \A x \in keysStored' : \E y \in keysStored : y.id = x.id
          /\ c.kind = "delete" => \A x \in keysStored' : x.id # c.id
      BY <1>2, <2>3, <2>4
    <2>6. KeyTypes'
      BY <1>2, <2>1, <2>5 DEF KeyTypes
    <2>7. KeysToCome' \subseteq KeysToCome
            /\ (c.kind = "create" => KeysToCome' = KeysToCome \ {c} /\ c \in KeysToCome)
      BY <1>2, <2>1, <2>2 DEF KeysToCome
    <2>8. \A i : KnownKey(i) => KnownKey(i)'
      BY <2>1, <2>7 DEF KnownKey
    <2>9. c.kind = "create" => KnownKey(c.id)'
      BY <1>1, <2>1, <2>7 DEF KnownKey, KeysFresh
    <2>10. \A x \in keysStored' : KnownKey(x.id)'
      <3> SUFFICES ASSUME NEW x \in keysStored' PROVE KnownKey(x.id)'
        OBVIOUS
      <3>1. CASE c.kind = "create" /\ x.id = c.id
        BY <2>9, <3>1
      <3>2. CASE ~(c.kind = "create" /\ x.id = c.id)
        <4>1. PICK y \in keysStored : y.id = x.id
          BY <2>5, <3>2
        <4>2. QED
          BY <1>1, <2>8, <4>1 DEF KeysFresh
      <3>3. QED
        BY <3>1, <3>2
    <2>11. KeysFresh'
      BY <1>1, <2>1, <2>7, <2>8, <2>10 DEF KeysFresh
    <2>12. KeysGone'
      <3> SUFFICES ASSUME NEW r \in keysAsked, r \notin keysFlushed', r.kind = "delete",
                          r.phase = "served", NEW x \in keysStored', x.id = r.id
                   PROVE  FALSE
        BY <2>1 DEF KeysGone
      <3>1. CASE r = c
        BY <2>5, <3>1
      <3>2. CASE r # c
        <4>1. \A y \in keysStored : y.id # r.id
          BY <1>1, <2>1, <3>2 DEF KeysGone
        <4>2. c.kind = "create" /\ c.id = r.id
          BY <2>5, <4>1
        <4>3. QED
          BY <1>1, <2>7, <4>2 DEF KeysFresh, KnownKey
      <3>3. QED
        BY <3>1, <3>2
    <2>13. KeysTold'
      BY <1>1, <2>1 DEF KeysTold
    <2>14. ASSUME NEW rows, KeysAgree(rows), c \in keysAsked \/
                      (c.kind = "delete" /\ \A x \in rows : x.id # c.id)
           PROVE  KeysAgree(rows)'
      <3> SUFFICES ASSUME NEW x \in (rows \ keysStored') \cup (keysStored' \ rows)
                   PROVE  KeyChanging(x.id)'
        BY DEF KeysAgree
      <3>1. CASE x.id = c.id
        <4>1. c \in keysAsked
          BY <2>5, <2>14, <3>1
        <4>2. QED
          BY <2>1, <2>2, <3>1, <4>1 DEF KeyChanging
      <3>2. CASE x.id # c.id
        <4>1. KeyChanging(x.id)
          BY <2>5, <2>14, <3>2 DEF KeysAgree
        <4>2. QED
          BY <2>1, <3>2, <4>1 DEF KeyChanging, KeyFlushed
      <3>3. QED
        BY <3>1, <3>2
    <2>15. KeysSynced'
      <3>1. CASE keysMissed \/ \E r \in keysAsked : KeysToRead(r)
        BY <2>1, <3>1 DEF KeysSynced
      <3>2. CASE ~keysMissed /\ \A r \in keysAsked : ~KeysToRead(r)
        <4>1. /\ \A d \in keysFlushed \ keysAsked : d.kind = "delete"
              /\ \A r \in keysAsked : KeysLastRead(r) => KeysAgree(r.answer)
              /\ (\A r \in keysAsked : ~KeysLastRead(r)) => KeysAgree(keysListed.rows)
          BY <1>1, <3>2 DEF KeysSynced
        <4>2. CASE c \in keysAsked
          <5>1. \A rows : KeysAgree(rows) => KeysAgree(rows)'
            BY <2>14, <4>2
          <5>2. QED
            BY <2>1, <4>1, <5>1 DEF KeysSynced
        <4>3. CASE c \notin keysAsked
          <5>1. /\ c.kind = "delete"
                /\ \A r \in keysAsked : r.kind = "list" => r.phase # "served"
                /\ \A x \in keysListed.rows : x.id # c.id
            BY <1>1, <3>2, <4>1, <4>3 DEF KeysTold
          <5>2. \A r \in keysAsked : ~KeysLastRead(r)
            BY <5>1 DEF KeysLastRead
          <5>3. KeysAgree(keysListed.rows)'
            <6>1. KeysAgree(keysListed.rows)
              BY <4>1, <5>2
            <6>2. QED
              BY <2>1, <2>14, <5>1, <6>1 DEF KeysAgree
          <5>4. QED
            BY <2>1, <4>1, <5>2, <5>3 DEF KeysSynced
        <4>4. QED
          BY <4>2, <4>3
      <3>3. QED
        BY <3>1, <3>2
    <2>16. QED
      BY <2>6, <2>11, <2>12, <2>13, <2>15
  \* A request that is over, or whose answer makes the tab load the list.
  <1>12. ASSUME NEW r \in keysAsked, keysAsked' \subseteq KeyRequests,
               \A q \in keysAsked' :
                   q \in keysAsked \/ (q.kind = "list" /\ q.answer = r.answer /\ ~q.old),
               keysListed' \in [rows : SUBSET KeyRecords, loading : BOOLEAN],
               keysListed'.rows \subseteq keysListed.rows \cup r.answer,
               UNCHANGED <<keysServer, keyClicks>>
        PROVE  KeyTypes' /\ KeysFresh' /\ KeysGone'
    <2>1. KeyTypes'
      BY <1>2, <1>12 DEF KeyTypes
    <2>2. KeysToCome' \subseteq KeysToCome
      BY <1>12 DEF KeysToCome
    <2>3. KeysFresh'
      BY <1>1, <1>12, <2>2 DEF KeysFresh, KnownKey
    <2>4. KeysGone'
      BY <1>1, <1>12 DEF KeysGone
    <2>5. QED
      BY <2>1, <2>3, <2>4
  <1>13. ASSUME NEW r \in keysAsked, FinishLoadKeys(r) PROVE KeysListed'
    <2>1. /\ keysAsked' = keysAsked \ {r} /\ UNCHANGED <<keysServer, keyClicks>>
          /\ keysListed' = [rows |-> r.answer, loading |-> FALSE]
          /\ r.kind = "list" /\ r.phase = "served"
      BY <1>13 DEF FinishLoadKeys
    <2>2. r.answer \subseteq KeyRecords
      BY <1>2 DEF KeyRequests
    <2>3. KeyTypes' /\ KeysFresh' /\ KeysGone'
      BY <1>2, <1>12, <2>1, <2>2
    <2>4. CASE keysMissed \/ r.old
      <3>1. keysMissed'
        BY <1>13, <2>4 DEF FinishLoadKeys
      <3>2. QED
        BY <2>3, <3>1 DEF KeysTold, KeysSynced
    <2>5. CASE ~keysMissed /\ ~r.old
      <3>1. keysFlushed' \ keysAsked' = keysFlushed \ keysAsked
        BY <1>2, <2>1
      <3>2. \A c \in keysFlushed \ keysAsked : c.kind # "delete"
        BY <1>1, <2>1, <2>5 DEF KeysTold
      <3>3. KeysTold'
        BY <3>1, <3>2 DEF KeysTold
      <3>4. \A i : KeyChanging(i) => KeyChanging(i)'
        BY <2>1 DEF KeyChanging, KeyFlushed
      <3>5. \A rows : KeysAgree(rows) => KeysAgree(rows)'
        BY <2>1, <3>4 DEF KeysAgree
      <3>6. CASE \E q \in keysAsked : KeysToRead(q)
        <4>1. \E q \in keysAsked' : KeysToRead(q)
          BY <2>1, <3>6 DEF KeysToRead
        <4>2. QED
          BY <2>3, <3>3, <4>1 DEF KeysSynced
      <3>7. CASE ~\E q \in keysAsked : KeysToRead(q)
        <4>1. /\ \A c \in keysFlushed \ keysAsked : c.kind = "delete"
              /\ \A q \in keysAsked : KeysLastRead(q) => KeysAgree(q.answer)
          BY <1>1, <2>5, <3>7 DEF KeysSynced
        <4>2. KeysAgree(r.answer)
          BY <2>1, <2>5, <4>1 DEF KeysLastRead
        <4>3. KeysAgree(r.answer)' /\ keysListed'.rows = r.answer
          BY <2>1, <3>5, <4>2
        <4>4. KeysAgree(keysListed.rows)'
          BY <4>3 DEF KeysAgree
        <4>5. KeysSynced'
          BY <2>1, <3>1, <3>5, <4>1, <4>4 DEF KeysSynced
        <4>6. QED
          BY <2>3, <3>3, <4>5
      <3>8. QED
        BY <3>6, <3>7
    <2>6. QED
      BY <2>4, <2>5
  <1>14. ASSUME NEW r \in keysAsked, FailLoadKeys(r) PROVE KeysListed'
    <2>1. /\ keysAsked' = keysAsked \ {r} /\ UNCHANGED <<keysServer, keyClicks>>
          /\ keysListed' = [rows |-> keysListed.rows, loading |-> FALSE]
          /\ keysMissed' = TRUE
      BY <1>2, <1>14 DEF FailLoadKeys
    <2>2. KeyTypes' /\ KeysFresh' /\ KeysGone'
      BY <1>2, <1>12, <2>1
    <2>3. QED
      BY <2>1, <2>2 DEF KeysTold, KeysSynced
  <1>15. ASSUME NEW r \in keysAsked, FinishCreateKey(r) \/ FinishRevokeKey(r)
         PROVE  KeysListed'
    <2> DEFINE q == [r EXCEPT !.kind = "list", !.phase = "sent"]
    <2>1. /\ keysAsked' = (keysAsked \ {r}) \cup {q} /\ UNCHANGED <<keysServer, keyClicks>>
          /\ keysListed' = [rows |-> keysListed.rows, loading |-> TRUE]
          /\ r.kind \in {"create", "revoke"} /\ keysMissed' = keysMissed
      BY <1>2, <1>15 DEF FinishCreateKey, FinishRevokeKey, LoadKeys
    <2>2. q \in KeyRequests /\ q.kind = "list" /\ q.phase = "sent" /\ q.answer = r.answer
            /\ ~q.old
      BY <1>2, <2>1 DEF KeyRequests
    <2> HIDE DEF q
    <2>3. KeyTypes' /\ KeysFresh' /\ KeysGone'
      BY <1>2, <1>12, <2>1, <2>2
    <2>4. KeysTold' /\ KeysSynced'
      BY <1>1, <1>2, <2>1, <2>2 DEF KeysTold, KeysSynced, KeysToRead
    <2>5. QED
      BY <2>3, <2>4
  <1>16. ASSUME NEW r \in keysAsked, FinishDeleteKey(r) PROVE KeysListed'
    <2>1. /\ keysAsked' = keysAsked \ {r} /\ UNCHANGED <<keysServer, keyClicks>>
          /\ keysListed' = [rows |-> {x \in keysListed.rows : x.id # r.id},
                            loading |-> keysListed.loading]
          /\ r.kind = "delete" /\ r.phase = "served"
      BY <1>2, <1>16 DEF FinishDeleteKey
    <2>2. KeyTypes' /\ KeysFresh' /\ KeysGone'
      BY <1>2, <1>12, <2>1
    <2>3. CASE keysMissed \/ \E q \in keysAsked : q.kind = "list"
      <3>1. keysMissed'
        BY <1>16, <2>3 DEF FinishDeleteKey
      <3>2. QED
        BY <2>2, <3>1 DEF KeysTold, KeysSynced
    <2>4. CASE ~keysMissed /\ \A q \in keysAsked : q.kind # "list"
      <3>1. KeysTold'
        BY <1>1, <2>1, <2>4 DEF KeysTold
      <3>2. /\ \A c \in keysFlushed \ keysAsked : c.kind = "delete"
            /\ KeysAgree(keysListed.rows)
        BY <1>1, <2>4 DEF KeysSynced, KeysToRead, KeysLastRead
      <3>3. KeysAgree(keysListed.rows)'
        <4> SUFFICES ASSUME NEW x \in (keysListed'.rows \ keysStored)
                                        \cup (keysStored \ keysListed'.rows)
                     PROVE  KeyChanging(x.id)'
          BY <2>1 DEF KeysAgree
        <4>1. CASE x.id = r.id
          <5>1. r \in keysFlushed
            BY <1>1, <2>1, <4>1 DEF KeysGone
          <5>2. QED
            BY <2>1, <4>1, <5>1 DEF KeyChanging, KeyFlushed
        <4>2. CASE x.id # r.id
          <5>1. KeyChanging(x.id)
            BY <2>1, <3>2, <4>2 DEF KeysAgree
          <5>2. QED
            BY <2>1, <4>2, <5>1 DEF KeyChanging, KeyFlushed
        <4>3. QED
          BY <4>1, <4>2
      <3>4. KeysSynced'
        BY <2>1, <2>4, <3>2, <3>3 DEF KeysSynced, KeysLastRead
      <3>5. QED
        BY <2>2, <3>1, <3>4
    <2>5. QED
      BY <2>3, <2>4
  <1>17. ASSUME NEW r \in keysAsked, FailKeyRequest(r) PROVE KeysListed'
    <2>1. /\ keysAsked' = keysAsked \ {r} /\ UNCHANGED <<keysServer, keyClicks>>
          /\ keysListed' = keysListed /\ r.kind # "list"
      BY <1>17 DEF FailKeyRequest
    <2>2. KeyTypes' /\ KeysFresh' /\ KeysGone'
      BY <1>2, <1>12, <2>1
    <2>3. CASE r.phase = "served"
      <3>1. keysMissed'
        BY <1>17, <2>3 DEF FailKeyRequest
      <3>2. QED
        BY <2>2, <3>1 DEF KeysTold, KeysSynced
    <2>4. CASE r.phase # "served"
      <3>1. keysMissed => keysMissed'
        BY <1>17 DEF FailKeyRequest
      <3>2. KeysGone' /\ KeysTold' /\ KeysSynced'
        BY <1>3, <2>1, <2>4, <3>1
      <3>3. QED
        BY <2>2, <3>2
    <2>5. QED
      BY <2>3, <2>4
  <1>18. QED
    BY <1>1, <1>4, <1>6, <1>7, <1>8, <1>9, <1>10, <1>11, <1>13, <1>14, <1>15, <1>16, <1>17
       DEF ApiKeysTabNext

-----------------------------------------------------------------------------
(* TeamTab.  Each handler edits what is shown, and a change is old once    *)
(* another one of the same user is made.                                   *)

AnyUser == Users \cup {NoUser}

Members == [id : AnyUser, role : Roles]

TeamRequests ==
    [n : Nat, kind : {"list", "invite", "role", "delete"}, phase : {"sent", "served"},
     id : AnyUser, role : Roles, answer : SUBSET Members, old : BOOLEAN]

TeamTypes ==
    /\ teamListed \in [rows : SUBSET Members, loading : BOOLEAN]
    /\ teamAsked \subseteq TeamRequests
    /\ \A r \in teamAsked : r.old => r.phase = "served"
    /\ teamStored \subseteq Members
    /\ teamClicks \in Nat

TeamToCome(i) == \E c \in teamAsked : c.kind = "invite" /\ c.phase = "sent" /\ c.id = i

TeamServed(kind, i) == \E r \in teamAsked : r.kind = kind /\ r.phase = "served" /\ r.id = i

TeamGiven(i) == i \in teamUsed /\ ~TeamToCome(i)

TeamFresh ==
    /\ \A x \in teamListed.rows \cup teamStored : TeamGiven(x.id)
    /\ \A q \in teamAsked :
          /\ \A x \in q.answer : TeamGiven(x.id)
          /\ q.kind \in {"role", "delete"} => TeamGiven(q.id)
          /\ q.kind = "invite" => q.id \in teamUsed
          /\ \A c \in teamAsked :
                q.kind = "invite" /\ c.kind = "invite" /\ q.id = c.id => q = c

TeamGone == \A x \in teamStored : ~TeamServed("delete", x.id)

\* A user whose last change is not answered is stored as that change left it.
TeamLast ==
    \A c \in teamAsked : c.phase = "served" /\ ~c.old =>
        /\ c.kind \in {"invite", "role"} =>
              \A x \in teamStored : x.id = c.id => x.role = c.role
        /\ c.kind = "invite" => \E x \in teamStored : x.id = c.id

TeamIds == TeamTypes /\ TeamFresh /\ TeamGone /\ TeamLast

\* Until the list has come the table is empty, and nothing is asked about a row.
TeamBlank ==
    /\ \A p, q \in teamAsked : p.kind = "list" /\ q.kind = "list" => p = q
    /\ ~teamMissed => \A p \in teamAsked : p.kind = "list" =>
          teamListed.rows = {} /\ \A q \in teamAsked : q.kind \notin {"role", "delete"}

\* The change that made another one old is not answered before it.
TeamInOrder ==
    ~teamMissed => \A q \in teamAsked : q.old /\ q.kind # "list" =>
        \E d \in teamAsked : /\ d.kind \in {"role", "delete"} /\ d.phase = "served"
                             /\ ~d.old /\ d.id = q.id

TeamLost ==
    ~teamMissed => \A q \in teamAsked : q.kind = "invite" /\ q.phase = "served" =>
        TeamServed("delete", q.id) \/ \E x \in teamStored : x.id = q.id

\* Who is to get another role is listed, or no user any more.
TeamKnown ==
    ~teamMissed => \A q \in teamAsked : q.kind = "role" =>
        \/ \E x \in teamListed.rows : x.id = q.id
        \/ \A x \in teamStored : x.id # q.id

TeamAgree(rows) ==
    /\ \A x \in rows \ teamStored :
          \/ TeamServed("delete", x.id)
          \/ TeamServed("role", x.id) /\ \E y \in teamStored : y.id = x.id
    /\ \A x \in teamStored \ rows :
          \/ TeamServed("role", x.id)
          \/ TeamServed("invite", x.id) /\ \A y \in rows : y.id # x.id

TeamSynced ==
    \/ teamMissed
    \/ \E r \in teamAsked : r.kind = "list" /\ r.phase = "sent"
    \/ /\ \A r \in teamAsked : r.kind = "list" => TeamAgree(r.answer)
       /\ (\A r \in teamAsked : r.kind # "list") => TeamAgree(teamListed.rows)

TeamOrder == TeamBlank /\ TeamInOrder /\ TeamLost /\ TeamKnown /\ TeamSynced

TeamListed == TeamIds /\ TeamOrder

LEMMA TeamListStarts == TeamTabInit => TeamListed
  <1>1. SUFFICES ASSUME TeamTabInit PROVE TeamListed
    OBVIOUS
  <1>2. TeamRequest("list", NoUser, "user") \in TeamRequests
          /\ ~TeamRequest("list", NoUser, "user").old
    BY <1>1 DEF TeamTabInit, TeamRequest, TeamRequests, AnyUser, Roles
  <1>3. Member(Me, "admin") \in Members /\ Member(Me, "admin").id = Me
    BY TeamTabAssumption DEF Member, Members, AnyUser, Roles
  <1>4. TeamTypes
    BY <1>1, <1>2, <1>3 DEF TeamTabInit, TeamTypes
  <1>5. TeamFresh /\ TeamGone /\ TeamLast
    BY <1>1, <1>3 DEF TeamTabInit, TeamFresh, TeamGone, TeamLast, TeamGiven, TeamToCome,
                      TeamServed, TeamRequest
  <1>6. TeamBlank /\ TeamInOrder /\ TeamLost /\ TeamKnown /\ TeamSynced
    BY <1>1 DEF TeamTabInit, TeamBlank, TeamInOrder, TeamLost, TeamKnown, TeamSynced,
                TeamRequest
  <1>7. QED
    BY <1>4, <1>5, <1>6 DEF TeamListed, TeamIds, TeamOrder

\* What the user asks for: to invite a new user, or something about a listed one.
LEMMA TeamAsks ==
  ASSUME TeamListed, NEW kind \in {"invite", "role", "delete"}, NEW u \in AnyUser,
         NEW role \in Roles, TeamAsk(kind, u, role), TeamClick,
         UNCHANGED <<teamListed, teamStored, teamMissed>>,
         \/ kind = "invite" /\ u \notin teamUsed /\ teamUsed' = teamUsed \cup {u}
         \/ /\ kind # "invite" /\ teamUsed' = teamUsed
            /\ \E x \in teamListed.rows : x.id = u
  PROVE  TeamListed'
  <1> USE DEF TeamListed, TeamIds, TeamOrder
  <1> DEFINE q == TeamRequest(kind, u, role)
  <1>1. /\ q \in TeamRequests /\ q.kind = kind /\ q.phase = "sent" /\ q.id = u
        /\ q.answer = {} /\ ~q.old /\ teamAsked' = teamAsked \cup {q}
    BY DEF TeamTypes, TeamRequest, TeamRequests, TeamAsk
  <1> HIDE DEF q
  <1>2. TeamTypes'
    BY <1>1 DEF TeamTypes, TeamClick
  <1>3. \A i \in teamUsed : TeamToCome(i)' => TeamToCome(i)
    BY <1>1 DEF TeamToCome
  <1>4. \A k, i : TeamServed(k, i)' <=> TeamServed(k, i)
    BY <1>1 DEF TeamServed
  <1>5. \A i : TeamGiven(i) => TeamGiven(i)'
    BY <1>3 DEF TeamGiven
  <1>6. TeamFresh'
    <2>1. \A x \in teamListed'.rows \cup teamStored' : TeamGiven(x.id)'
      BY <1>5 DEF TeamFresh
    <2>2. \A p \in teamAsked' : \A x \in p.answer : TeamGiven(x.id)'
      BY <1>1, <1>5 DEF TeamFresh
    <2>3. \A p \in teamAsked' : p.kind \in {"role", "delete"} => TeamGiven(p.id)'
      BY <1>1, <1>5 DEF TeamFresh
    <2>4. \A p \in teamAsked' :
            /\ p.kind = "invite" => p.id \in teamUsed'
            /\ \A c \in teamAsked' :
                  p.kind = "invite" /\ c.kind = "invite" /\ p.id = c.id => p = c
      BY <1>1 DEF TeamFresh
    <2>5. QED
      BY <2>1, <2>2, <2>3, <2>4 DEF TeamFresh
  <1>7. TeamGone' /\ TeamLast'
    BY <1>1, <1>4 DEF TeamGone, TeamLast
  <1>8. TeamBlank'
    BY <1>1 DEF TeamBlank
  <1>9. TeamInOrder' /\ TeamLost' /\ TeamKnown'
    BY <1>1, <1>4 DEF TeamInOrder, TeamLost, TeamKnown
  <1>10. \A rows : TeamAgree(rows) => TeamAgree(rows)'
    BY <1>4 DEF TeamAgree
  <1>11. TeamSynced'
    BY <1>1, <1>10 DEF TeamSynced, TeamAgree
  <1>12. QED
    BY <1>2, <1>6, <1>7, <1>8, <1>9, <1>11

LEMMA TeamReads ==
  ASSUME TeamListed, NEW r \in teamAsked, TeamServe(r), r.kind = "list"
  PROVE  TeamListed'
  <1> USE DEF TeamListed, TeamIds, TeamOrder
  <1> DEFINE q == [r EXCEPT !.phase = "served", !.answer = teamStored]
  <1>1. /\ teamAsked' = (teamAsked \ {r}) \cup {q} /\ r.phase = "sent"
        /\ UNCHANGED <<teamListed, teamStored, teamUsed, teamClicks, teamMissed>>
    BY DEF TeamServe, teamPage
  <1>2. /\ q \in TeamRequests /\ q.kind = "list" /\ q.phase = "served"
        /\ q.answer = teamStored
    BY DEF TeamTypes, TeamRequests
  <1> HIDE DEF q
  <1>3. TeamTypes'
    BY <1>1, <1>2 DEF TeamTypes
  <1>4. \A k, i : k # "list" => (TeamServed(k, i)' <=> TeamServed(k, i))
    BY <1>1, <1>2 DEF TeamServed
  <1>5. \A i : TeamGiven(i) => TeamGiven(i)'
    BY <1>1, <1>2 DEF TeamGiven, TeamToCome
  <1>6. TeamFresh'
    BY <1>1, <1>2, <1>5 DEF TeamFresh
  <1>7. TeamGone' /\ TeamLast'
    BY <1>1, <1>2, <1>4 DEF TeamGone, TeamLast
  <1>8. TeamBlank'
    BY <1>1, <1>2 DEF TeamBlank
  <1>9. TeamInOrder' /\ TeamLost' /\ TeamKnown'
    BY <1>1, <1>2, <1>4 DEF TeamInOrder, TeamLost, TeamKnown
  <1>10. \A p \in teamAsked' : p.kind = "list" => p = q
    BY <1>1, <1>2 DEF TeamBlank
  <1>11. ASSUME NEW p \in teamAsked', p.kind = "list" PROVE TeamAgree(p.answer)'
    <2>1. p.answer = teamStored'
      BY <1>1, <1>2, <1>10, <1>11
    <2>2. QED
      BY <2>1 DEF TeamAgree
  <1>12. TeamSynced'
    BY <1>1, <1>2, <1>11 DEF TeamSynced
  <1>13. QED
    BY <1>3, <1>6, <1>7, <1>8, <1>9, <1>12

LEMMA TeamServes ==
  ASSUME TeamListed, NEW r \in teamAsked, TeamServe(r), r.kind # "list"
  PROVE  TeamListed'
  <1> USE DEF TeamListed, TeamIds, TeamOrder
  <1> DEFINE q == [r EXCEPT !.phase = "served"]
             e == Member(r.id, r.role)
             Old(p) == IF p.id = r.id /\ p.phase = "served"
                       THEN [p EXCEPT !.old = TRUE] ELSE p
  <1>1. /\ teamAsked' = {Old(p) : p \in teamAsked \ {r}} \cup {q} /\ r.phase = "sent"
        /\ UNCHANGED <<teamListed, teamUsed, teamClicks, teamMissed>>
    BY DEF TeamServe, TeamChanged, teamPage
  <1>2. /\ q \in TeamRequests /\ q.kind = r.kind /\ q.phase = "served" /\ q.id = r.id
        /\ q.answer = r.answer /\ q.role = r.role /\ ~q.old
        /\ e \in Members /\ e.id = r.id /\ e.role = r.role
        /\ r.kind \in {"invite", "role", "delete"}
    BY <1>1 DEF TeamTypes, TeamRequests, Member, Members
  <1>3. \A p \in teamAsked :
           /\ Old(p) \in TeamRequests /\ Old(p).kind = p.kind /\ Old(p).phase = p.phase
           /\ Old(p).id = p.id /\ Old(p).role = p.role /\ Old(p).answer = p.answer
           /\ p.id # r.id => Old(p) = p
           /\ p.phase # "served" => Old(p) = p
           /\ p.id = r.id /\ p.phase = "served" => Old(p).old
    <2> SUFFICES ASSUME NEW p \in teamAsked
                 PROVE  /\ Old(p) \in TeamRequests /\ Old(p).kind = p.kind
                        /\ Old(p).phase = p.phase
                        /\ Old(p).id = p.id /\ Old(p).role = p.role
                        /\ Old(p).answer = p.answer
                        /\ p.id # r.id => Old(p) = p
                        /\ p.phase # "served" => Old(p) = p
                        /\ p.id = r.id /\ p.phase = "served" => Old(p).old
      OBVIOUS
    <2>1. CASE p.id = r.id /\ p.phase = "served"
      BY <2>1 DEF TeamTypes, TeamRequests
    <2>2. CASE ~(p.id = r.id /\ p.phase = "served")
      BY <2>2 DEF TeamTypes
    <2>3. QED
      BY <2>1, <2>2
  <1>4. \/ r.kind = "invite" /\ teamStored' = teamStored \cup {e}
        \/ /\ r.kind = "role"
           /\ teamStored' = {IF x.id = r.id THEN e ELSE x : x \in teamStored}
        \/ r.kind = "delete" /\ teamStored' = {x \in teamStored : x.id # r.id}
    BY <1>2 DEF TeamServe
  <1> HIDE DEF q, e, Old
  <1>5. /\ \A x \in teamStored' : x \in teamStored \/ (x = e /\ r.kind # "delete")
        /\ \A x : x.id # r.id => (x \in teamStored <=> x \in teamStored')
        /\ r.kind \in {"invite", "role"} => \A x \in teamStored' : x.id = r.id => x = e
        /\ r.kind = "role" => \A x \in teamStored' : \E y \in teamStored : y.id = x.id
        /\ r.kind # "delete" => \A x \in teamStored : \E y \in teamStored' : y.id = x.id
        /\ r.kind = "delete" => \A x \in teamStored' : x.id # r.id
        /\ r.kind = "invite" => e \in teamStored'
    <2>1. CASE r.kind = "invite"
      <3>1. \A x \in teamStored : x.id # r.id
        BY <1>1, <2>1 DEF TeamFresh, TeamGiven, TeamToCome
      <3>2. QED
        BY <1>2, <1>4, <2>1, <3>1
    <2>2. CASE r.kind = "role"
      BY <1>2, <1>4, <2>2
    <2>3. CASE r.kind = "delete"
      BY <1>2, <1>4, <2>3
    <2>4. QED
      BY <1>2, <2>1, <2>2, <2>3
  <1>6. TeamTypes'
    BY <1>1, <1>2, <1>3, <1>5 DEF TeamTypes
  <1>7. \A k, i : TeamServed(k, i)' <=> TeamServed(k, i) \/ (k = r.kind /\ i = r.id)
    <2>1. ASSUME NEW k, NEW i, TeamServed(k, i) PROVE TeamServed(k, i)'
      <3>1. PICK p \in teamAsked : p.kind = k /\ p.phase = "served" /\ p.id = i
        BY <2>1 DEF TeamServed
      <3>2. Old(p) \in teamAsked'
        BY <1>1, <3>1
      <3>3. QED
        BY <1>3, <3>1, <3>2 DEF TeamServed
    <2>2. ASSUME NEW k, NEW i, TeamServed(k, i)', ~(k = r.kind /\ i = r.id)
          PROVE  TeamServed(k, i)
      <3>1. PICK s \in teamAsked' : s.kind = k /\ s.phase = "served" /\ s.id = i
        BY <2>2 DEF TeamServed
      <3>2. PICK p \in teamAsked : s = Old(p)
        BY <1>1, <1>2, <2>2, <3>1
      <3>3. QED
        BY <1>3, <3>1, <3>2 DEF TeamServed
    <2>3. TeamServed(r.kind, r.id)'
      BY <1>1, <1>2 DEF TeamServed
    <2>4. QED
      BY <2>1, <2>2, <2>3
  <1>8. /\ \A i : TeamToCome(i)' => TeamToCome(i)
        /\ r.kind = "invite" => ~TeamToCome(r.id)'
        /\ r.kind = "invite" => TeamToCome(r.id)
    BY <1>1, <1>2, <1>3 DEF TeamToCome, TeamFresh
  <1>9. \A i : TeamGiven(i) => TeamGiven(i)'
    BY <1>1, <1>8 DEF TeamGiven
  <1>10. TeamGiven(r.id)'
    BY <1>1, <1>2, <1>8, <1>9 DEF TeamFresh, TeamGiven
  \* Nobody has heard of a user before the invitation is served.
  <1>11. r.kind = "invite" => /\ \A x \in teamListed.rows \cup teamStored : x.id # r.id
                              /\ \A p \in teamAsked : \A x \in p.answer : x.id # r.id
                              /\ \A p \in teamAsked \ {r} : p.kind # "list" => p.id # r.id
    BY <1>8 DEF TeamFresh, TeamGiven, TeamTypes, TeamRequests
  <1>12. TeamFresh'
    <2>1. \A x \in teamListed'.rows \cup teamStored' : TeamGiven(x.id)'
      BY <1>1, <1>2, <1>5, <1>9, <1>10 DEF TeamFresh
    <2>2. \A p \in teamAsked' : \A x \in p.answer : TeamGiven(x.id)'
      BY <1>1, <1>2, <1>3, <1>9 DEF TeamFresh
    <2>3. \A p \in teamAsked' : p.kind \in {"role", "delete"} => TeamGiven(p.id)'
      BY <1>1, <1>2, <1>3, <1>9 DEF TeamFresh
    <2>4. \A p \in teamAsked' : p.kind = "invite" => p.id \in teamUsed'
      BY <1>1, <1>2, <1>3 DEF TeamFresh
    <2>5. \A p, c \in teamAsked' : p.kind = "invite" /\ c.kind = "invite" /\ p.id = c.id
                                     => p = c
      BY <1>1, <1>2, <1>3 DEF TeamFresh
    <2>6. QED
      BY <2>1, <2>2, <2>3, <2>4, <2>5 DEF TeamFresh
  <1>13. TeamGone'
    <2>1. ASSUME NEW x \in teamStored', TeamServed("delete", x.id)' PROVE FALSE
      <3>1. CASE r.kind = "delete" /\ x.id = r.id
        BY <1>5, <3>1
      <3>2. CASE TeamServed("delete", x.id)
        <4>1. \A y \in teamStored : y.id # x.id
          BY <3>2 DEF TeamGone
        <4>2. r.kind = "invite" /\ x.id = r.id
          BY <1>2, <1>5, <2>1, <4>1
        <4>3. QED
          BY <1>1, <1>11, <3>2, <4>2 DEF TeamServed
      <3>3. QED
        BY <1>7, <2>1, <3>1, <3>2
    <2>2. QED
      BY <2>1 DEF TeamGone
  <1>14. TeamLast'
    <2> SUFFICES ASSUME NEW c \in teamAsked', c.phase = "served", ~c.old
                 PROVE  /\ c.kind \in {"invite", "role"} =>
                              \A x \in teamStored' : x.id = c.id => x.role = c.role
                        /\ c.kind = "invite" => \E x \in teamStored' : x.id = c.id
      BY DEF TeamLast
    <2>1. CASE c = q
      BY <1>2, <1>5, <2>1
    <2>2. CASE c # q
      <3>1. PICK p \in teamAsked : c = Old(p)
        BY <1>1, <2>2
      <3>2. p.id # r.id /\ c = p
        BY <1>3, <3>1
      <3>3. QED
        BY <1>5, <3>2 DEF TeamLast
    <2>3. QED
      BY <2>1, <2>2
  <1>15. TeamBlank'
    <2>1. \A p, c \in teamAsked' : p.kind = "list" /\ c.kind = "list" => p = c
      BY <1>1, <1>2, <1>3 DEF TeamBlank
    <2>2. ASSUME ~teamMissed', NEW p \in teamAsked', p.kind = "list"
          PROVE  teamListed'.rows = {} /\ \A c \in teamAsked' : c.kind \notin {"role", "delete"}
      <3>1. PICK s \in teamAsked : p = Old(s) /\ s.kind = "list"
        BY <1>1, <1>2, <1>3, <2>2
      <3>2. teamListed.rows = {} /\ \A c \in teamAsked : c.kind \notin {"role", "delete"}
        BY <1>1, <2>2, <3>1 DEF TeamBlank
      <3>3. QED
        BY <1>1, <1>2, <1>3, <3>2
    <2>3. QED
      BY <2>1, <2>2 DEF TeamBlank
  <1>16. TeamInOrder'
    <2> SUFFICES ASSUME ~teamMissed, NEW s \in teamAsked', s.old, s.kind # "list"
                 PROVE  \E d \in teamAsked' :
                            /\ d.kind \in {"role", "delete"} /\ d.phase = "served"
                            /\ ~d.old /\ d.id = s.id
      BY <1>1 DEF TeamInOrder
    <2>1. PICK p \in teamAsked \ {r} : s = Old(p)
      BY <1>1, <1>2
    <2>2. CASE p.id = r.id
      <3>1. r.kind \in {"role", "delete"}
        BY <1>2, <1>3, <1>11, <2>1, <2>2
      <3>2. QED
        BY <1>1, <1>2, <1>3, <2>1, <2>2, <3>1
    <2>3. CASE p.id # r.id
      <3>1. s = p
        BY <1>3, <2>1, <2>3
      <3>2. PICK d \in teamAsked : /\ d.kind \in {"role", "delete"} /\ d.phase = "served"
                                   /\ ~d.old /\ d.id = s.id
        BY <3>1 DEF TeamInOrder
      <3>3. d # r /\ Old(d) = d
        BY <1>1, <1>3, <2>3, <3>1, <3>2
      <3>4. QED
        BY <1>1, <3>2, <3>3
    <2>4. QED
      BY <2>2, <2>3
  <1>17. TeamLost'
    <2> SUFFICES ASSUME ~teamMissed, NEW s \in teamAsked', s.kind = "invite",
                        s.phase = "served"
                 PROVE  TeamServed("delete", s.id)' \/ \E x \in teamStored' : x.id = s.id
      BY <1>1 DEF TeamLost
    <2>1. CASE s = q
      BY <1>2, <1>5, <2>1
    <2>2. CASE s # q
      <3>1. PICK p \in teamAsked : s = Old(p)
        BY <1>1, <2>2
      <3>2. TeamServed("delete", s.id) \/ \E x \in teamStored : x.id = s.id
        BY <1>3, <3>1 DEF TeamLost
      <3>3. CASE r.kind = "delete" /\ s.id = r.id
        BY <1>7, <3>3
      <3>4. CASE ~(r.kind = "delete" /\ s.id = r.id)
        BY <1>5, <1>7, <3>2, <3>4
      <3>5. QED
        BY <3>3, <3>4
    <2>3. QED
      BY <2>1, <2>2
  <1>18. TeamKnown'
    <2> SUFFICES ASSUME ~teamMissed, NEW s \in teamAsked', s.kind = "role"
                 PROVE  \/ \E x \in teamListed.rows : x.id = s.id
                        \/ \A x \in teamStored' : x.id # s.id
      BY <1>1 DEF TeamKnown
    <2>1. PICK p \in teamAsked : p.kind = "role" /\ p.id = s.id
      BY <1>1, <1>2, <1>3
    <2>2. \/ \E x \in teamListed.rows : x.id = s.id
          \/ \A x \in teamStored : x.id # s.id
      BY <2>1 DEF TeamKnown
    <2>3. r.kind = "invite" => s.id # r.id
      BY <1>11, <2>1
    <2>4. QED
      BY <1>2, <1>5, <2>2, <2>3
  <1>19. ASSUME NEW rows, TeamAgree(rows), r.kind = "invite" => \A x \in rows : x.id # r.id
         PROVE  TeamAgree(rows)'
    <2>1. ASSUME NEW x \in rows \ teamStored'
          PROVE  \/ TeamServed("delete", x.id)'
                 \/ TeamServed("role", x.id)' /\ \E y \in teamStored' : y.id = x.id
      <3>1. CASE x.id # r.id
        BY <1>5, <1>7, <1>19, <2>1, <3>1 DEF TeamAgree
      <3>2. CASE x.id = r.id /\ r.kind = "delete"
        BY <1>7, <3>2
      <3>3. CASE x.id = r.id /\ r.kind = "role"
        <4>1. CASE \E y \in teamStored : y.id = x.id
          BY <1>5, <1>7, <3>3, <4>1
        <4>2. CASE ~\E y \in teamStored : y.id = x.id
          BY <1>7, <1>19, <2>1, <4>2 DEF TeamAgree
        <4>3. QED
          BY <4>1, <4>2
      <3>4. QED
        BY <1>2, <1>19, <2>1, <3>1, <3>2, <3>3
    <2>2. ASSUME NEW x \in teamStored' \ rows
          PROVE  \/ TeamServed("role", x.id)'
                 \/ TeamServed("invite", x.id)' /\ \A y \in rows : y.id # x.id
      <3>1. CASE x.id # r.id
        BY <1>5, <1>7, <1>19, <2>2, <3>1 DEF TeamAgree
      <3>2. CASE x.id = r.id
        BY <1>2, <1>5, <1>7, <1>19, <2>2, <3>2
      <3>3. QED
        BY <3>1, <3>2
    <2>3. QED
      BY <2>1, <2>2 DEF TeamAgree
  <1>20. TeamSynced'
    <2>1. CASE teamMissed
      BY <1>1, <2>1 DEF TeamSynced
    <2>2. CASE \E p \in teamAsked : p.kind = "list" /\ p.phase = "sent"
      <3>1. PICK p \in teamAsked : p.kind = "list" /\ p.phase = "sent"
        BY <2>2
      <3>2. p \in teamAsked'
        BY <1>1, <1>3, <3>1
      <3>3. QED
        BY <3>1, <3>2 DEF TeamSynced
    <2>3. CASE /\ \A p \in teamAsked : p.kind = "list" => TeamAgree(p.answer)
               /\ (\A p \in teamAsked : p.kind # "list") => TeamAgree(teamListed.rows)
      <3>1. ASSUME NEW s \in teamAsked', s.kind = "list" PROVE TeamAgree(s.answer)'
        <4>1. PICK p \in teamAsked : s = Old(p)
          BY <1>1, <1>2, <3>1
        <4>2. p.kind = "list" /\ s.answer = p.answer
          BY <1>3, <3>1, <4>1
        <4>3. TeamAgree(p.answer)
          BY <2>3, <4>2
        <4>4. TeamAgree(p.answer)'
          BY <1>11, <1>19, <4>3
        <4>5. QED
          BY <4>2, <4>4 DEF TeamAgree
      <3>2. ASSUME \A s \in teamAsked' : s.kind # "list" PROVE TeamAgree(teamListed.rows)'
        <4>1. \A p \in teamAsked : p.kind # "list"
          BY <1>1, <1>3, <3>2
        <4>2. TeamAgree(teamListed.rows)
          BY <2>3, <4>1
        <4>3. teamListed' = teamListed
          BY <1>1
        <4> DEFINE rows == teamListed.rows
        <4>4. TeamAgree(rows)
          BY <4>2
        <4>5. rows' = rows
          BY <4>3
        <4>6. r.kind = "invite" => \A x \in rows : x.id # r.id
          BY <1>11
        <4> HIDE DEF rows
        <4>7. ASSUME NEW R, R = rows PROVE TeamAgree(R)'
          BY <1>19, <4>4, <4>6, <4>7
        <4>8. TeamAgree(rows)'
          BY <4>5, <4>7 DEF TeamAgree
        <4>9. QED
          BY <4>8 DEF rows
      <3>3. QED
        BY <3>1, <3>2 DEF TeamSynced
    <2>4. QED
      BY <2>1, <2>2, <2>3 DEF TeamSynced
  <1>21. QED
    BY <1>6, <1>12, <1>13, <1>14, <1>15, <1>16, <1>17, <1>18, <1>20

\* An answer changes what is shown, and nothing else.
LEMMA TeamOver ==
  ASSUME TeamListed, NEW r \in teamAsked, teamAsked' = teamAsked \ {r},
         teamListed' \in [rows : SUBSET Members, loading : BOOLEAN],
         \A x \in teamListed'.rows :
             \/ x \in teamListed.rows \cup r.answer
             \/ r.kind \in {"invite", "role"} /\ r.phase = "served" /\ x.id = r.id,
         UNCHANGED <<teamServer, teamClicks>>
  PROVE  /\ TeamIds'
         /\ \A k, i : TeamServed(k, i)' => TeamServed(k, i)
         /\ \A k, i : TeamServed(k, i) /\ (k # r.kind \/ i # r.id \/ r.phase # "served")
                         => TeamServed(k, i)'
  <1> USE DEF TeamListed, TeamIds, teamServer
  <1>1. TeamTypes'
    BY DEF TeamTypes
  <1>2. \A i : TeamToCome(i)' => TeamToCome(i)
    BY DEF TeamToCome
  <1>3. \A i : TeamGiven(i) => TeamGiven(i)'
    BY <1>2 DEF TeamGiven
  <1>4. r.kind \in {"invite", "role"} /\ r.phase = "served" => TeamGiven(r.id)
    <2>1. CASE r.kind = "role"
      BY <2>1 DEF TeamFresh
    <2>2. CASE r.kind = "invite" /\ r.phase = "served"
      BY <2>2 DEF TeamFresh, TeamGiven, TeamToCome
    <2>3. QED
      BY <2>1, <2>2
  <1>5. \A x \in teamListed'.rows \cup teamStored' : TeamGiven(x.id)'
    BY <1>3, <1>4 DEF TeamFresh
  <1>6. TeamFresh'
    BY <1>3, <1>5 DEF TeamFresh
  <1>7. \A k, i : TeamServed(k, i)' => TeamServed(k, i)
    BY DEF TeamServed
  <1>8. \A k, i : TeamServed(k, i) /\ (k # r.kind \/ i # r.id \/ r.phase # "served")
                    => TeamServed(k, i)'
    BY DEF TeamServed
  <1>9. TeamGone' /\ TeamLast'
    BY <1>7 DEF TeamGone, TeamLast
  <1>10. QED
    BY <1>1, <1>6, <1>7, <1>8, <1>9

\* The answer to a change that overtakes no other.
LEMMA TeamFinish ==
  ASSUME TeamListed, NEW r \in teamAsked, r.kind # "list", r.phase = "served",
         teamAsked' = teamAsked \ {r}, UNCHANGED teamStored,
         teamMissed' = (teamMissed \/ TeamOvertakes(r)), ~teamMissed'
  PROVE  /\ ~teamMissed /\ \A q \in teamAsked : q.kind # "list"
         /\ TeamBlank' /\ TeamInOrder' /\ TeamLost' /\ TeamAgree(teamListed.rows)
         /\ r.kind \in {"invite", "role"} =>
               \/ TeamServed("delete", r.id)'
               \/ TeamServed("role", r.id)'
               \/ \A x \in teamStored : x.id = r.id => x.role = r.role
  <1> USE DEF TeamListed, TeamIds, TeamOrder
  <1>1. ~teamMissed /\ ~TeamOvertakes(r)
    OBVIOUS
  <1>2. /\ \A q \in teamAsked : q.kind # "list"
        /\ \A q \in teamAsked \ {r} : q.old => q.id # r.id
    BY <1>1 DEF TeamOvertakes
  <1>3. TeamBlank'
    BY <1>2 DEF TeamBlank
  <1>4. TeamInOrder'
    BY <1>1, <1>2 DEF TeamInOrder
  <1>5. TeamLost'
    <2> SUFFICES ASSUME NEW q \in teamAsked \ {r}, q.kind = "invite", q.phase = "served"
                 PROVE  TeamServed("delete", q.id)' \/ \E x \in teamStored : x.id = q.id
      BY DEF TeamLost
    <2>1. CASE q.old
      <3>1. q.id # r.id
        BY <1>2, <2>1
      <3>2. TeamServed("delete", q.id) \/ \E x \in teamStored : x.id = q.id
        BY <1>1 DEF TeamLost
      <3>3. QED
        BY <3>1, <3>2 DEF TeamServed
    <2>2. CASE ~q.old
      BY <2>2 DEF TeamLast
    <2>3. QED
      BY <2>1, <2>2
  <1>6. TeamAgree(teamListed.rows)
    BY <1>1, <1>2 DEF TeamSynced
  <1>7. ASSUME r.kind \in {"invite", "role"}
        PROVE  \/ TeamServed("delete", r.id)'
               \/ TeamServed("role", r.id)'
               \/ \A x \in teamStored : x.id = r.id => x.role = r.role
    <2>1. CASE r.old
      <3>1. PICK d \in teamAsked : /\ d.kind \in {"role", "delete"} /\ d.phase = "served"
                                   /\ ~d.old /\ d.id = r.id
        BY <1>1, <2>1 DEF TeamInOrder
      <3>2. d \in teamAsked'
        BY <2>1, <3>1
      <3>3. QED
        BY <3>1, <3>2 DEF TeamServed
    <2>2. CASE ~r.old
      BY <1>7, <2>2 DEF TeamLast
    <2>3. QED
      BY <2>1, <2>2
  <1>8. QED
    BY <1>1, <1>2, <1>3, <1>4, <1>5, <1>6, <1>7

LEMMA TeamListStep == TeamListed /\ [TeamTabNext]_teamVars => TeamListed'
  <1>1. SUFFICES ASSUME TeamListed, [TeamTabNext]_teamVars PROVE TeamListed'
    OBVIOUS
  <1> USE DEF teamPage, teamServer
  <1>2. /\ teamListed \in [rows : SUBSET Members, loading : BOOLEAN]
        /\ teamAsked \subseteq TeamRequests /\ teamStored \subseteq Members
        /\ teamClicks \in Nat
    BY <1>1 DEF TeamListed, TeamIds, TeamTypes
  <1>3. CASE OpenInvite \/ CloseInvite \/ UNCHANGED teamVars
    <2>1. UNCHANGED <<teamListed, teamAsked, teamServer, teamMissed>> /\ teamClicks' \in Nat
      BY <1>2, <1>3 DEF OpenInvite, CloseInvite, TeamClick, teamVars
    <2>2. TeamIds'
      BY <1>1, <2>1 DEF TeamListed, TeamIds, TeamTypes, TeamFresh, TeamGone, TeamLast,
                        TeamServed, TeamGiven, TeamToCome
    <2>3. TeamOrder'
      BY <1>1, <2>1 DEF TeamListed, TeamOrder, TeamBlank, TeamInOrder, TeamLost, TeamKnown,
                        TeamSynced, TeamAgree, TeamServed
    <2>4. QED
      BY <2>2, <2>3 DEF TeamListed
  <1>4. ASSUME NEW u \in Users, NEW role \in Roles, HandleInvite(u, role) PROVE TeamListed'
    BY <1>1, <1>4, TeamAsks DEF HandleInvite, AnyUser
  <1>5. ASSUME NEW x \in teamListed.rows, NEW role \in Roles, HandleRoleChange(x, role)
        PROVE  TeamListed'
    <2>1. x.id \in AnyUser
      BY <1>2 DEF Members
    <2>2. QED
      BY <1>1, <1>5, <2>1, TeamAsks DEF HandleRoleChange
  <1>6. ASSUME NEW x \in teamListed.rows, HandleDeleteUser(x) PROVE TeamListed'
    <2>1. x.id \in AnyUser /\ x.role \in Roles
      BY <1>2 DEF Members
    <2>2. QED
      BY <1>1, <1>6, <2>1, TeamAsks DEF HandleDeleteUser
  <1>7. ASSUME NEW r \in teamAsked, TeamServe(r) PROVE TeamListed'
    BY <1>1, <1>7, TeamReads, TeamServes
  \* Nothing is claimed of the order once an answer was missed.
  <1>8. ASSUME teamMissed', TeamIds',
               \A p, q \in teamAsked' : p.kind = "list" /\ q.kind = "list" => p = q
        PROVE  TeamListed'
    BY <1>8 DEF TeamListed, TeamOrder, TeamBlank, TeamInOrder, TeamLost, TeamKnown, TeamSynced
  <1>9. \A p, q \in teamAsked : p.kind = "list" /\ q.kind = "list" => p = q
    BY <1>1 DEF TeamListed, TeamOrder, TeamBlank
  <1>10. ASSUME NEW r \in teamAsked, FinishLoadUsers(r) PROVE TeamListed'
    <2>1. /\ teamAsked' = teamAsked \ {r} /\ UNCHANGED <<teamServer, teamClicks>>
          /\ teamListed' = [rows |-> r.answer, loading |-> FALSE]
          /\ r.kind = "list" /\ r.phase = "served" /\ teamMissed' = teamMissed
      BY <1>10 DEF FinishLoadUsers, TeamAnswered
    <2>2. r.answer \subseteq Members
      BY <1>2 DEF TeamRequests
    <2>3. /\ TeamIds'
          /\ \A k, i : TeamServed(k, i)' => TeamServed(k, i)
          /\ \A k, i : TeamServed(k, i) /\ k # "list" => TeamServed(k, i)'
      BY <1>1, <2>1, <2>2, TeamOver
    <2>4. CASE teamMissed
      BY <1>8, <1>9, <2>1, <2>3, <2>4
    <2>5. CASE ~teamMissed
      <3>1. \A p \in teamAsked' : p.kind # "list" /\ p.kind # "role"
        BY <1>1, <1>9, <2>1, <2>5 DEF TeamListed, TeamOrder, TeamBlank
      <3>2. TeamBlank' /\ TeamKnown'
        BY <3>1 DEF TeamBlank, TeamKnown
      <3>3. TeamInOrder' /\ TeamLost'
        BY <1>1, <2>1, <2>3, <2>5 DEF TeamListed, TeamOrder, TeamInOrder, TeamLost
      <3>4. TeamAgree(r.answer)
        BY <1>1, <1>9, <2>1, <2>5 DEF TeamListed, TeamOrder, TeamSynced
      <3>5. teamListed'.rows = r.answer /\ teamStored' = teamStored
        BY <2>1
      <3>6. TeamAgree(teamListed.rows)'
        BY <2>3, <3>4, <3>5 DEF TeamAgree
      <3>7. TeamSynced'
        BY <3>1, <3>6 DEF TeamSynced
      <3>8. QED
        BY <2>3, <3>2, <3>3, <3>7 DEF TeamListed, TeamOrder
    <2>6. QED
      BY <2>4, <2>5
  <1>11. ASSUME NEW r \in teamAsked, FinishInvite(r) PROVE TeamListed'
    <2> DEFINE e == Member(r.id, r.role)
    <2>1. /\ teamAsked' = teamAsked \ {r} /\ UNCHANGED <<teamServer, teamClicks>>
          /\ teamListed' = [rows |-> teamListed.rows \cup {e}, loading |-> teamListed.loading]
          /\ r.kind = "invite" /\ r.phase = "served"
      BY <1>2, <1>11 DEF FinishInvite, TeamAnswered
    <2>2. e \in Members /\ e.id = r.id
            /\ \A x \in Members : x.id = r.id /\ x.role = r.role => x = e
      BY <1>2 DEF TeamRequests, Member, Members
    <2>3. teamMissed' = (teamMissed \/ TeamOvertakes(r))
      BY <1>11 DEF FinishInvite
    <2> HIDE DEF e
    <2>4. TeamIds' /\ \A k, i : TeamServed(k, i) /\ (k # r.kind \/ i # r.id)
                                    => TeamServed(k, i)'
      BY <1>1, <1>2, <2>1, <2>2, TeamOver
    <2>5. CASE teamMissed'
      BY <1>8, <1>9, <2>1, <2>4, <2>5
    <2>6. CASE ~teamMissed'
      <3>1. /\ ~teamMissed /\ \A q \in teamAsked : q.kind # "list"
            /\ TeamBlank' /\ TeamInOrder' /\ TeamLost' /\ TeamAgree(teamListed.rows)
            /\ \/ TeamServed("delete", r.id)'
               \/ TeamServed("role", r.id)'
               \/ \A x \in teamStored : x.id = r.id => x.role = r.role
        BY <1>1, <2>1, <2>3, <2>6, TeamFinish
      <3>2. \/ TeamServed("delete", r.id)'
            \/ TeamServed("role", r.id)'
            \/ \A x \in teamStored : x.id = r.id => x = e
        BY <1>2, <2>2, <3>1
      <3>3. TeamServed("delete", r.id)' \/ \E y \in teamStored : y.id = r.id
        BY <1>1, <2>1, <2>4, <3>1 DEF TeamListed, TeamOrder, TeamLost
      <3>4. TeamKnown'
        BY <1>1, <2>1, <3>1 DEF TeamListed, TeamOrder, TeamKnown
      <3>5. \A x \in teamListed'.rows \ teamStored :
               \/ TeamServed("delete", x.id)'
               \/ TeamServed("role", x.id)' /\ \E y \in teamStored : y.id = x.id
        BY <2>1, <2>2, <2>4, <3>1, <3>2, <3>3 DEF TeamAgree
      <3>6. ASSUME NEW x \in teamStored \ teamListed'.rows
            PROVE  \/ TeamServed("role", x.id)'
                   \/ TeamServed("invite", x.id)' /\ \A y \in teamListed'.rows : y.id # x.id
        <4>1. CASE x.id # r.id
          BY <2>1, <2>2, <2>4, <3>1, <3>6, <4>1 DEF TeamAgree
        <4>2. CASE x.id = r.id
          <5>1. ~TeamServed("delete", x.id)'
            BY <2>1, <2>4 DEF TeamIds, TeamGone
          <5>2. QED
            BY <2>1, <3>2, <3>6, <4>2, <5>1
        <4>3. QED
          BY <4>1, <4>2
      <3>7. TeamAgree(teamListed.rows)'
        BY <2>1, <3>5, <3>6 DEF TeamAgree
      <3>8. TeamSynced'
        BY <2>1, <3>1, <3>7 DEF TeamSynced
      <3>9. QED
        BY <2>4, <3>1, <3>4, <3>8 DEF TeamListed, TeamOrder
    <2>7. QED
      BY <2>5, <2>6
  <1>12. ASSUME NEW r \in teamAsked, FinishRoleChange(r) PROVE TeamListed'
    <2> DEFINE e == Member(r.id, r.role)
               rows == {IF x.id = r.id THEN e ELSE x : x \in teamListed.rows}
    <2>1. /\ teamAsked' = teamAsked \ {r} /\ UNCHANGED <<teamServer, teamClicks>>
          /\ teamListed' = [rows |-> rows, loading |-> teamListed.loading]
          /\ r.kind = "role" /\ r.phase = "served"
      BY <1>2, <1>12 DEF FinishRoleChange, TeamAnswered
    <2>2. /\ e \in Members /\ e.id = r.id
          /\ \A x \in Members : x.id = r.id /\ x.role = r.role => x = e
      BY <1>2 DEF TeamRequests, Member, Members
    <2>3. teamMissed' = (teamMissed \/ TeamOvertakes(r))
      BY <1>12 DEF FinishRoleChange
    <2> HIDE DEF e
    <2>mapped. \A x \in teamListed.rows : (IF x.id = r.id THEN e ELSE x) \in rows
      OBVIOUS
    <2>from. \A y \in rows : \E x \in teamListed.rows : y = IF x.id = r.id THEN e ELSE x
      OBVIOUS
    <2> HIDE DEF rows
    <2>4. /\ rows \subseteq Members
          /\ \A x \in rows : \/ x \in teamListed.rows /\ x.id # r.id
                             \/ x = e /\ \E y \in teamListed.rows : y.id = r.id
          /\ \A x \in teamListed.rows : x.id # r.id => x \in rows
          /\ \A x \in teamListed.rows : x.id = r.id => e \in rows
      BY <1>2, <2>2, <2>mapped, <2>from
    <2>5. TeamIds' /\ \A k, i : TeamServed(k, i) /\ (k # r.kind \/ i # r.id)
                                    => TeamServed(k, i)'
      BY <1>1, <1>2, <2>1, <2>2, <2>4, TeamOver
    <2>6. CASE teamMissed'
      BY <1>8, <1>9, <2>1, <2>5, <2>6
    <2>7. CASE ~teamMissed'
      <3>1. /\ ~teamMissed /\ \A q \in teamAsked : q.kind # "list"
            /\ TeamBlank' /\ TeamInOrder' /\ TeamLost' /\ TeamAgree(teamListed.rows)
            /\ \/ TeamServed("delete", r.id)'
               \/ TeamServed("role", r.id)'
               \/ \A x \in teamStored : x.id = r.id => x.role = r.role
        BY <1>1, <2>1, <2>3, <2>7, TeamFinish
      <3>2. \/ TeamServed("delete", r.id)'
            \/ TeamServed("role", r.id)'
            \/ \A x \in teamStored : x.id = r.id => x = e
        BY <1>2, <2>2, <3>1
      <3>3. /\ teamListed'.rows = rows /\ teamStored' = teamStored
            /\ teamAsked' \subseteq teamAsked
        BY <2>1
      <3>4. \A x \in teamListed.rows : \E y \in rows : y.id = x.id
        BY <2>2, <2>4
      <3>5. TeamKnown'
        BY <1>1, <3>1, <3>3, <3>4 DEF TeamListed, TeamOrder, TeamKnown
      <3>6. ASSUME NEW x \in rows \ teamStored
            PROVE  \/ TeamServed("delete", x.id)'
                   \/ TeamServed("role", x.id)' /\ \E y \in teamStored : y.id = x.id
        <4>1. CASE x.id # r.id
          BY <2>2, <2>4, <2>5, <3>1, <3>6, <4>1 DEF TeamAgree
        <4>2. CASE x.id = r.id /\ \E z \in teamStored : z.id = r.id
          BY <2>2, <2>4, <3>2, <3>6, <4>2
        <4>3. CASE x.id = r.id /\ \A z \in teamStored : z.id # r.id
          <5>1. PICK y \in teamListed.rows : y.id = r.id
            BY <2>2, <2>4, <4>3
          <5>2. TeamServed("delete", r.id)
            BY <3>1, <4>3, <5>1 DEF TeamAgree
          <5>3. QED
            BY <2>1, <2>5, <4>3, <5>2
        <4>4. QED
          BY <4>1, <4>2, <4>3
      <3>7. ASSUME NEW x \in teamStored \ rows
            PROVE  \/ TeamServed("role", x.id)'
                   \/ TeamServed("invite", x.id)' /\ \A y \in rows : y.id # x.id
        <4>1. CASE x.id # r.id
          BY <2>2, <2>4, <2>5, <3>1, <3>7, <4>1 DEF TeamAgree
        <4>2. CASE x.id = r.id
          <5>1. ~TeamServed("delete", x.id)'
            BY <2>1, <2>5 DEF TeamIds, TeamGone
          <5>2. \E y \in teamListed.rows : y.id = r.id
            BY <1>1, <2>1, <3>1, <4>2 DEF TeamListed, TeamOrder, TeamKnown
          <5>3. QED
            BY <2>4, <3>2, <3>7, <4>2, <5>1, <5>2
        <4>3. QED
          BY <4>1, <4>2
      <3>8. TeamAgree(teamListed.rows)'
        BY <3>3, <3>6, <3>7 DEF TeamAgree
      <3>9. TeamSynced'
        BY <3>1, <3>3, <3>8 DEF TeamSynced
      <3>10. QED
        BY <2>5, <3>1, <3>5, <3>9 DEF TeamListed, TeamOrder
    <2>8. QED
      BY <2>6, <2>7
  <1>13. ASSUME NEW r \in teamAsked, FinishDeleteUser(r) PROVE TeamListed'
    <2>1. /\ teamAsked' = teamAsked \ {r} /\ UNCHANGED <<teamServer, teamClicks>>
          /\ teamListed' = [rows |-> {x \in teamListed.rows : x.id # r.id},
                            loading |-> teamListed.loading]
          /\ r.kind = "delete" /\ r.phase = "served"
      BY <1>2, <1>13 DEF FinishDeleteUser, TeamAnswered
    <2>2. teamMissed' = (teamMissed \/ TeamOvertakes(r))
      BY <1>13 DEF FinishDeleteUser
    <2>3. TeamIds' /\ \A k, i : TeamServed(k, i) /\ (k # r.kind \/ i # r.id)
                                    => TeamServed(k, i)'
      BY <1>1, <1>2, <2>1, TeamOver
    <2>4. CASE teamMissed'
      BY <1>8, <1>9, <2>1, <2>3, <2>4
    <2>5. CASE ~teamMissed'
      <3>1. /\ ~teamMissed /\ \A q \in teamAsked : q.kind # "list"
            /\ TeamBlank' /\ TeamInOrder' /\ TeamLost' /\ TeamAgree(teamListed.rows)
        BY <1>1, <2>1, <2>2, <2>5, TeamFinish
      <3>2. \A x \in teamStored : x.id # r.id
        BY <1>1, <2>1 DEF TeamListed, TeamIds, TeamGone, TeamServed
      <3>3. TeamKnown'
        BY <1>1, <2>1, <3>1, <3>2 DEF TeamListed, TeamOrder, TeamKnown
      <3>4. TeamAgree(teamListed.rows)'
        BY <2>1, <2>3, <3>1, <3>2 DEF TeamAgree
      <3>5. TeamSynced'
        BY <2>1, <3>1, <3>4 DEF TeamSynced
      <3>6. QED
        BY <2>3, <3>1, <3>3, <3>5 DEF TeamListed, TeamOrder
    <2>6. QED
      BY <2>4, <2>5
  <1>14. ASSUME NEW r \in teamAsked, FailTeamRequest(r) PROVE TeamListed'
    <2>1. /\ teamAsked' = teamAsked \ {r} /\ UNCHANGED <<teamServer, teamClicks>>
          /\ teamListed' = [teamListed EXCEPT !.loading = @ /\ r.kind # "list"]
          /\ teamMissed' = (teamMissed \/ r.kind = "list" \/ r.phase = "served")
      BY <1>14 DEF FailTeamRequest
    <2>2. teamListed' \in [rows : SUBSET Members, loading : BOOLEAN]
            /\ teamListed'.rows = teamListed.rows
      BY <1>2, <2>1
    <2>3. /\ TeamIds'
          /\ \A k, i : TeamServed(k, i)' => TeamServed(k, i)
          /\ \A k, i : TeamServed(k, i) /\ (k # r.kind \/ i # r.id \/ r.phase # "served")
                          => TeamServed(k, i)'
      BY <1>1, <2>1, <2>2, TeamOver
    <2>4. CASE teamMissed'
      BY <1>8, <1>9, <2>1, <2>3, <2>4
    <2>5. CASE ~teamMissed'
      <3>1. ~teamMissed /\ r.kind # "list" /\ r.phase # "served"
        BY <2>1, <2>5
      <3>2. \A k, i : TeamServed(k, i) <=> TeamServed(k, i)'
        BY <2>3, <3>1
      <3>3. TeamBlank' /\ TeamKnown'
        BY <1>1, <2>1, <2>2, <3>1 DEF TeamListed, TeamOrder, TeamBlank, TeamKnown
      <3>4. ~r.old
        BY <1>1, <3>1 DEF TeamListed, TeamIds, TeamTypes
      <3>5. TeamInOrder'
        BY <1>1, <2>1, <3>1 DEF TeamListed, TeamOrder, TeamInOrder
      <3>6. TeamLost'
        BY <1>1, <2>1, <3>1, <3>2 DEF TeamListed, TeamOrder, TeamLost
      <3>7. \A rows : TeamAgree(rows) => TeamAgree(rows)'
        BY <2>1, <3>2 DEF TeamAgree
      <3>8. TeamSynced'
        <4>1. CASE \E p \in teamAsked : p.kind = "list" /\ p.phase = "sent"
          BY <2>1, <3>1, <4>1 DEF TeamSynced
        <4>2. CASE /\ \A p \in teamAsked : p.kind = "list" => TeamAgree(p.answer)
                   /\ (\A p \in teamAsked : p.kind # "list") => TeamAgree(teamListed.rows)
          <5>1. (\A p \in teamAsked' : p.kind # "list") => TeamAgree(teamListed.rows)'
            BY <2>1, <2>2, <3>1, <3>2, <4>2 DEF TeamAgree
          <5>2. QED
            BY <2>1, <3>7, <4>2, <5>1 DEF TeamSynced
        <4>3. QED
          BY <1>1, <3>1, <4>1, <4>2 DEF TeamListed, TeamOrder, TeamSynced
      <3>9. QED
        BY <2>3, <3>3, <3>5, <3>6, <3>8 DEF TeamListed, TeamOrder
    <2>6. QED
      BY <2>4, <2>5
  <1>15. QED
    BY <1>1, <1>3, <1>4, <1>5, <1>6, <1>7, <1>10, <1>11, <1>12, <1>13, <1>14 DEF TeamTabNext

-----------------------------------------------------------------------------
(* AgentsPage.  As TeamTab, with a drawer that keeps the agent it edits.   *)

AgentToCome(i) ==
    \E c \in agentsAsked : c.kind = "create" /\ c.phase = "sent" /\ c.id = i

AgentServed(kind, i) ==
    \E r \in agentsAsked : r.kind = kind /\ r.phase = "served" /\ r.id = i

AgentGiven(i) == i \in agentsUsed /\ ~AgentToCome(i)

AgentsFresh ==
    /\ \A x \in agentsListed.rows \cup agentsStored : AgentGiven(x.id)
    /\ editor.agent # Blank => AgentGiven(editor.agent.id)
    /\ agentConfirm # NoAgent => AgentGiven(agentConfirm)
    /\ \A q \in agentsAsked :
          /\ q.old => q.phase = "served"
          /\ \A x \in q.answer : AgentGiven(x.id)
          /\ q.kind \in {"update", "delete"} => AgentGiven(q.id)
          /\ q.kind = "create" => q.id \in agentsUsed
          /\ \A c \in agentsAsked :
                q.kind = "create" /\ c.kind = "create" /\ q.id = c.id => q = c

AgentsGone == \A x \in agentsStored : ~AgentServed("delete", x.id)

\* An agent whose last change is not answered is stored as that change left it.
AgentsLast ==
    \A c \in agentsAsked : c.phase = "served" /\ ~c.old =>
        /\ c.kind \in {"create", "update"} =>
              \A x \in agentsStored : x.id = c.id => x.of = c.of
        /\ c.kind = "create" => \E x \in agentsStored : x.id = c.id

AgentsIds == AgentsFresh /\ AgentsGone /\ AgentsLast

\* Until the list has come there are no cards, and nothing is asked about one.
AgentsBlank ==
    /\ \A p, q \in agentsAsked : p.kind = "list" /\ q.kind = "list" => p = q
    /\ ~agentsMissed => \A p \in agentsAsked : p.kind = "list" =>
          /\ agentsListed.rows = {} /\ editor.agent = Blank /\ agentConfirm = NoAgent
          /\ \A q \in agentsAsked : q.kind \notin {"update", "delete"}

\* The change that made another one old is not answered before it.
AgentsInOrder ==
    ~agentsMissed => \A q \in agentsAsked : q.old /\ q.kind # "list" =>
        \E d \in agentsAsked : /\ d.kind \in {"update", "delete"} /\ d.phase = "served"
                               /\ ~d.old /\ d.id = q.id

AgentsLost ==
    ~agentsMissed => \A q \in agentsAsked : q.kind = "create" /\ q.phase = "served" =>
        AgentServed("delete", q.id) \/ \E x \in agentsStored : x.id = q.id

\* An agent that is edited or saved is listed, or there is none any more.
AgentIsKnown(i) ==
    \/ \E x \in agentsListed.rows : x.id = i
    \/ \A x \in agentsStored : x.id # i

AgentsKnown ==
    ~agentsMissed =>
        /\ editor.agent # Blank => AgentIsKnown(editor.agent.id)
        /\ \A q \in agentsAsked : q.kind = "update" => AgentIsKnown(q.id)

AgentsAgree(rows) ==
    /\ \A x \in rows \ agentsStored :
          \/ AgentServed("delete", x.id)
          \/ AgentServed("update", x.id) /\ \E y \in agentsStored : y.id = x.id
    /\ \A x \in agentsStored \ rows :
          \/ AgentServed("update", x.id)
          \/ AgentServed("create", x.id) /\ \A y \in rows : y.id # x.id

AgentsSynced ==
    \/ agentsMissed
    \/ \E r \in agentsAsked : r.kind = "list" /\ r.phase = "sent"
    \/ /\ \A r \in agentsAsked : r.kind = "list" => AgentsAgree(r.answer)
       /\ (\A r \in agentsAsked : r.kind # "list") => AgentsAgree(agentsListed.rows)

AgentsOrder == AgentsBlank /\ AgentsInOrder /\ AgentsLost /\ AgentsKnown /\ AgentsSynced

AgentsCards == AgentsInv /\ AgentsIds /\ AgentsOrder

LEMMA AgentsListStarts == AgentsPageInit => AgentsCards
  <1>1. SUFFICES ASSUME AgentsPageInit PROVE AgentsIds /\ AgentsOrder
    BY AgentsInit DEF AgentsCards
  <1>2. AgentsFresh
    BY <1>1, AgentsPageAssumption
       DEF AgentsPageInit, AgentsFresh, AgentGiven, AgentToCome, AgentRequest, Agent
  <1>3. AgentsGone /\ AgentsLast
    BY <1>1 DEF AgentsPageInit, AgentsGone, AgentsLast, AgentServed, AgentRequest, Agent
  <1>4. AgentsOrder
    BY <1>1 DEF AgentsPageInit, AgentsOrder, AgentsBlank, AgentsInOrder, AgentsLost,
                AgentsKnown, AgentsSynced, AgentRequest
  <1>5. QED
    BY <1>2, <1>3, <1>4 DEF AgentsIds

\* A click that asks for nothing: it may put a listed agent into the drawer or
\* the dialog.
LEMMA AgentsClick ==
  ASSUME AgentsCards, UNCHANGED <<agentsListed, agentsAsked, agentsServer, agentsMissed>>,
         editor'.agent \in agentsListed.rows \cup {editor.agent, Blank},
         agentConfirm' \in {x.id : x \in agentsListed.rows} \cup {agentConfirm, NoAgent}
  PROVE  AgentsIds' /\ AgentsOrder'
  <1> USE DEF AgentsCards, AgentsIds, AgentsOrder, agentsServer
  <1>1. AgentsFresh'
    BY DEF AgentsFresh, AgentGiven, AgentToCome
  <1>2. AgentsGone' /\ AgentsLast' /\ AgentsInOrder' /\ AgentsLost' /\ AgentsSynced'
    BY DEF AgentsGone, AgentsLast, AgentsInOrder, AgentsLost, AgentsSynced, AgentsAgree,
           AgentServed
  <1>3. AgentsKnown'
    BY DEF AgentsKnown, AgentIsKnown
  <1>4. AgentsBlank'
    BY DEF AgentsBlank
  <1>5. QED
    BY <1>1, <1>2, <1>3, <1>4

\* What the user asks for: a new agent, or something about one that is known.
LEMMA AgentsAsks ==
  ASSUME AgentsCards, NEW kind \in {"create", "update", "delete"}, NEW a, NEW of,
         AgentAsk(kind, a, of), UNCHANGED <<agentsPage, agentsStored, agentsMissed>>,
         \/ kind = "create" /\ a \notin agentsUsed /\ agentsUsed' = agentsUsed \cup {a}
         \/ kind # "create" /\ agentsUsed' = agentsUsed /\ AgentGiven(a),
         kind = "update" => editor.agent # Blank /\ a = editor.agent.id,
         kind = "delete" => agentConfirm # NoAgent
  PROVE  AgentsIds' /\ AgentsOrder'
  <1> USE DEF AgentsCards, AgentsIds, AgentsOrder, agentsPage
  <1> DEFINE q == AgentRequest(kind, a, of)
  <1>1. /\ q.kind = kind /\ q.phase = "sent" /\ q.id = a /\ q.answer = {} /\ ~q.old
        /\ agentsAsked' = agentsAsked \cup {q}
    BY DEF AgentRequest, AgentAsk
  <1> HIDE DEF q
  <1>2. \A i : AgentGiven(i) => AgentGiven(i)'
    BY <1>1 DEF AgentGiven, AgentToCome
  <1>3. \A k, i : AgentServed(k, i)' <=> AgentServed(k, i)
    BY <1>1 DEF AgentServed
  <1>4. \A x \in agentsListed'.rows \cup agentsStored' : AgentGiven(x.id)'
    BY <1>2 DEF AgentsFresh
  <1>5. /\ (editor.agent # Blank => AgentGiven(editor.agent.id))'
        /\ (agentConfirm # NoAgent => AgentGiven(agentConfirm))'
    BY <1>2 DEF AgentsFresh
  <1>6. \A p \in agentsAsked' :
          /\ p.old => p.phase = "served"
          /\ \A x \in p.answer : AgentGiven(x.id)'
          /\ p.kind \in {"update", "delete"} => AgentGiven(p.id)'
    BY <1>1, <1>2 DEF AgentsFresh
  <1>7. \A p \in agentsAsked' :
          /\ p.kind = "create" => p.id \in agentsUsed'
          /\ \A c \in agentsAsked' :
                p.kind = "create" /\ c.kind = "create" /\ p.id = c.id => p = c
    BY <1>1 DEF AgentsFresh
  <1>8. AgentsFresh'
    BY <1>4, <1>5, <1>6, <1>7 DEF AgentsFresh
  <1>9. AgentsGone' /\ AgentsLast'
    BY <1>1, <1>3 DEF AgentsGone, AgentsLast
  <1>10. AgentsBlank'
    BY <1>1 DEF AgentsBlank
  <1>11. AgentsInOrder' /\ AgentsLost'
    BY <1>1, <1>3 DEF AgentsInOrder, AgentsLost
  <1>12. AgentsKnown'
    BY <1>1 DEF AgentsKnown, AgentIsKnown
  <1>13. \A rows : AgentsAgree(rows) => AgentsAgree(rows)'
    BY <1>3 DEF AgentsAgree
  <1>14. AgentsSynced'
    BY <1>1, <1>13 DEF AgentsSynced, AgentsAgree
  <1>15. QED
    BY <1>8, <1>9, <1>10, <1>11, <1>12, <1>14

LEMMA AgentsReads ==
  ASSUME AgentsCards, NEW r \in agentsAsked, AgentsServe(r), r.kind = "list"
  PROVE  AgentsIds' /\ AgentsOrder'
  <1> USE DEF AgentsCards, AgentsIds, AgentsOrder
  <1> DEFINE q == [r EXCEPT !.phase = "served", !.answer = agentsStored]
  <1>1. /\ agentsAsked' = (agentsAsked \ {r}) \cup {q} /\ r.phase = "sent"
        /\ UNCHANGED <<agentsListed, editor, agentConfirm, agentsStored, agentsUsed,
                       agentsMissed>>
    BY DEF AgentsServe, agentsPage, agentsHistory
  <1>2. /\ q \in AgentRequests /\ q.kind = "list" /\ q.phase = "served"
        /\ q.answer = agentsStored
    BY DEF AgentsInv, AgentTypes, AgentRequests
  <1> HIDE DEF q
  <1>4. \A k, i : k # "list" => (AgentServed(k, i)' <=> AgentServed(k, i))
    BY <1>1, <1>2 DEF AgentServed
  <1>5. \A i : AgentGiven(i) => AgentGiven(i)'
    BY <1>1, <1>2 DEF AgentGiven, AgentToCome
  <1>6. AgentsFresh'
    <2>1. /\ \A x \in agentsListed'.rows \cup agentsStored' : AgentGiven(x.id)'
          /\ (editor.agent # Blank => AgentGiven(editor.agent.id))'
          /\ (agentConfirm # NoAgent => AgentGiven(agentConfirm))'
      BY <1>1, <1>5 DEF AgentsFresh
    <2>2. QED
      BY <1>1, <1>2, <1>5, <2>1 DEF AgentsFresh
  <1>7. AgentsGone' /\ AgentsLast'
    BY <1>1, <1>2, <1>4 DEF AgentsGone, AgentsLast
  <1>8. AgentsBlank'
    BY <1>1, <1>2 DEF AgentsBlank
  <1>9. AgentsInOrder' /\ AgentsLost' /\ AgentsKnown'
    BY <1>1, <1>2, <1>4 DEF AgentsInOrder, AgentsLost, AgentsKnown, AgentIsKnown
  <1>10. \A p \in agentsAsked' : p.kind = "list" => p = q
    BY <1>1, <1>2 DEF AgentsBlank
  <1>11. ASSUME NEW p \in agentsAsked', p.kind = "list" PROVE AgentsAgree(p.answer)'
    <2>1. p.answer = agentsStored'
      BY <1>1, <1>2, <1>10, <1>11
    <2>2. QED
      BY <2>1 DEF AgentsAgree
  <1>12. AgentsSynced'
    BY <1>1, <1>2, <1>11 DEF AgentsSynced
  <1>13. QED
    BY <1>6, <1>7, <1>8, <1>9, <1>12

LEMMA AgentsServes ==
  ASSUME AgentsCards, NEW r \in agentsAsked, AgentsServe(r), r.kind # "list"
  PROVE  AgentsIds' /\ AgentsOrder'
  <1> USE DEF AgentsCards, AgentsIds, AgentsOrder
  <1> DEFINE q == [r EXCEPT !.phase = "served"]
             e == Agent(r.id, r.of)
             Old(p) == IF p.id = r.id /\ p.phase = "served"
                       THEN [p EXCEPT !.old = TRUE] ELSE p
  <1>1. /\ agentsAsked' = {Old(p) : p \in agentsAsked \ {r}} \cup {q} /\ r.phase = "sent"
        /\ UNCHANGED <<agentsListed, editor, agentConfirm, agentsUsed, agentsMissed>>
    BY DEF AgentsServe, AgentsChanged, agentsPage, agentsHistory
  <1>2. /\ q \in AgentRequests /\ q.kind = r.kind /\ q.phase = "served" /\ q.id = r.id
        /\ q.answer = r.answer /\ q.of = r.of /\ ~q.old
        /\ e.id = r.id /\ e.of = r.of
        /\ r.kind \in {"create", "update", "delete"}
    <2>1. ~r.old
      BY <1>1 DEF AgentsFresh
    <2>2. /\ q \in AgentRequests /\ q.kind = r.kind /\ q.phase = "served" /\ q.id = r.id
          /\ q.answer = r.answer /\ q.of = r.of /\ ~q.old
      BY <2>1 DEF AgentsInv, AgentTypes, AgentRequests
    <2>3. e.id = r.id /\ e.of = r.of
      BY DEF Agent
    <2>4. r.kind \in {"create", "update", "delete"}
      BY DEF AgentsServe
    <2>5. QED
      BY <2>2, <2>3, <2>4
  <1>3. \A p \in agentsAsked :
           /\ Old(p) \in AgentRequests /\ Old(p).kind = p.kind /\ Old(p).phase = p.phase
           /\ Old(p).id = p.id /\ Old(p).of = p.of /\ Old(p).answer = p.answer
           /\ p.id # r.id => Old(p) = p
           /\ p.phase # "served" => Old(p) = p
           /\ p.id = r.id /\ p.phase = "served" => Old(p).old
    <2> SUFFICES ASSUME NEW p \in agentsAsked
                 PROVE  /\ Old(p) \in AgentRequests /\ Old(p).kind = p.kind
                        /\ Old(p).phase = p.phase
                        /\ Old(p).id = p.id /\ Old(p).of = p.of
                        /\ Old(p).answer = p.answer
                        /\ p.id # r.id => Old(p) = p
                        /\ p.phase # "served" => Old(p) = p
                        /\ p.id = r.id /\ p.phase = "served" => Old(p).old
      OBVIOUS
    <2>1. CASE p.id = r.id /\ p.phase = "served"
      BY <2>1 DEF AgentsInv, AgentTypes, AgentRequests
    <2>2. CASE ~(p.id = r.id /\ p.phase = "served")
      BY <2>2 DEF AgentsInv, AgentTypes
    <2>3. QED
      BY <2>1, <2>2
  <1>4. \/ r.kind = "create" /\ agentsStored' = agentsStored \cup {e}
        \/ /\ r.kind = "update"
           /\ agentsStored' = {IF x.id = r.id THEN e ELSE x : x \in agentsStored}
        \/ r.kind = "delete" /\ agentsStored' = {x \in agentsStored : x.id # r.id}
    BY <1>2 DEF AgentsServe
  <1> HIDE DEF q, e, Old
  <1>5. /\ \A x \in agentsStored' : x \in agentsStored \/ (x = e /\ r.kind # "delete")
        /\ \A x : x.id # r.id => (x \in agentsStored <=> x \in agentsStored')
        /\ r.kind \in {"create", "update"} => \A x \in agentsStored' : x.id = r.id => x = e
        /\ r.kind = "update" => \A x \in agentsStored' : \E y \in agentsStored : y.id = x.id
        /\ r.kind # "delete" => \A x \in agentsStored : \E y \in agentsStored' : y.id = x.id
        /\ r.kind = "delete" => \A x \in agentsStored' : x.id # r.id
        /\ r.kind = "create" => e \in agentsStored'
    <2>1. CASE r.kind = "create"
      <3>1. \A x \in agentsStored : x.id # r.id
        BY <1>1, <2>1 DEF AgentsFresh, AgentGiven, AgentToCome
      <3>2. QED
        BY <1>2, <1>4, <2>1, <3>1
    <2>2. CASE r.kind = "update"
      BY <1>2, <1>4, <2>2
    <2>3. CASE r.kind = "delete"
      BY <1>2, <1>4, <2>3
    <2>4. QED
      BY <1>2, <2>1, <2>2, <2>3
  <1>7. \A k, i : AgentServed(k, i)' <=> AgentServed(k, i) \/ (k = r.kind /\ i = r.id)
    <2>1. ASSUME NEW k, NEW i, AgentServed(k, i) PROVE AgentServed(k, i)'
      <3>1. PICK p \in agentsAsked : p.kind = k /\ p.phase = "served" /\ p.id = i
        BY <2>1 DEF AgentServed
      <3>2. Old(p) \in agentsAsked'
        BY <1>1, <3>1
      <3>3. QED
        BY <1>3, <3>1, <3>2 DEF AgentServed
    <2>2. ASSUME NEW k, NEW i, AgentServed(k, i)', ~(k = r.kind /\ i = r.id)
          PROVE  AgentServed(k, i)
      <3>1. PICK s \in agentsAsked' : s.kind = k /\ s.phase = "served" /\ s.id = i
        BY <2>2 DEF AgentServed
      <3>2. PICK p \in agentsAsked : s = Old(p)
        BY <1>1, <1>2, <2>2, <3>1
      <3>3. QED
        BY <1>3, <3>1, <3>2 DEF AgentServed
    <2>3. AgentServed(r.kind, r.id)'
      BY <1>1, <1>2 DEF AgentServed
    <2>4. QED
      BY <2>1, <2>2, <2>3
  <1>8. /\ \A i : AgentToCome(i)' => AgentToCome(i)
        /\ r.kind = "create" => ~AgentToCome(r.id)'
        /\ r.kind = "create" => AgentToCome(r.id)
    BY <1>1, <1>2, <1>3 DEF AgentToCome, AgentsFresh
  <1>9. \A i : AgentGiven(i) => AgentGiven(i)'
    BY <1>1, <1>8 DEF AgentGiven
  <1>10. AgentGiven(r.id)'
    BY <1>1, <1>2, <1>8, <1>9 DEF AgentsFresh, AgentGiven
  \* Nobody has heard of an agent before it is created.
  <1>11. r.kind = "create" => /\ \A x \in agentsListed.rows \cup agentsStored : x.id # r.id
                              /\ \A p \in agentsAsked : \A x \in p.answer : x.id # r.id
                              /\ \A p \in agentsAsked \ {r} : p.kind # "list" => p.id # r.id
    BY <1>8 DEF AgentsFresh, AgentGiven, AgentsInv, AgentTypes,
                AgentRequests
  <1>12. AgentsFresh'
    <2>1. \A x \in agentsListed'.rows \cup agentsStored' : AgentGiven(x.id)'
      BY <1>1, <1>2, <1>5, <1>9, <1>10 DEF AgentsFresh
    <2>2. \A p \in agentsAsked' :
             (p.old => p.phase = "served") /\ \A x \in p.answer : AgentGiven(x.id)'
      BY <1>1, <1>2, <1>3, <1>9 DEF AgentsFresh
    <2>3. \A p \in agentsAsked' : p.kind \in {"update", "delete"} => AgentGiven(p.id)'
      BY <1>1, <1>2, <1>3, <1>9 DEF AgentsFresh
    <2>4. \A p \in agentsAsked' : p.kind = "create" => p.id \in agentsUsed'
      BY <1>1, <1>2, <1>3 DEF AgentsFresh
    <2>5. \A p, c \in agentsAsked' : p.kind = "create" /\ c.kind = "create" /\ p.id = c.id
                                     => p = c
      BY <1>1, <1>2, <1>3 DEF AgentsFresh
    <2>6. /\ (editor.agent # Blank => AgentGiven(editor.agent.id))'
          /\ (agentConfirm # NoAgent => AgentGiven(agentConfirm))'
      BY <1>1, <1>9 DEF AgentsFresh
    <2>7. QED
      BY <2>1, <2>2, <2>3, <2>4, <2>5, <2>6 DEF AgentsFresh
  <1>13. AgentsGone'
    <2>1. ASSUME NEW x \in agentsStored', AgentServed("delete", x.id)' PROVE FALSE
      <3>1. CASE r.kind = "delete" /\ x.id = r.id
        BY <1>5, <3>1
      <3>2. CASE AgentServed("delete", x.id)
        <4>1. \A y \in agentsStored : y.id # x.id
          BY <3>2 DEF AgentsGone
        <4>2. r.kind = "create" /\ x.id = r.id
          BY <1>2, <1>5, <2>1, <4>1
        <4>3. QED
          BY <1>1, <1>11, <3>2, <4>2 DEF AgentServed
      <3>3. QED
        BY <1>7, <2>1, <3>1, <3>2
    <2>2. QED
      BY <2>1 DEF AgentsGone
  <1>14. AgentsLast'
    <2> SUFFICES ASSUME NEW c \in agentsAsked', c.phase = "served", ~c.old
                 PROVE  /\ c.kind \in {"create", "update"} =>
                              \A x \in agentsStored' : x.id = c.id => x.of = c.of
                        /\ c.kind = "create" => \E x \in agentsStored' : x.id = c.id
      BY DEF AgentsLast
    <2>1. CASE c = q
      BY <1>2, <1>5, <2>1
    <2>2. CASE c # q
      <3>1. PICK p \in agentsAsked : c = Old(p)
        BY <1>1, <2>2
      <3>2. p.id # r.id /\ c = p
        BY <1>3, <3>1
      <3>3. QED
        BY <1>5, <3>2 DEF AgentsLast
    <2>3. QED
      BY <2>1, <2>2
  <1>15. AgentsBlank'
    <2>1. \A p, c \in agentsAsked' : p.kind = "list" /\ c.kind = "list" => p = c
      BY <1>1, <1>2, <1>3 DEF AgentsBlank
    <2>2. ASSUME ~agentsMissed', NEW p \in agentsAsked', p.kind = "list"
          PROVE  /\ agentsListed'.rows = {} /\ editor'.agent = Blank /\ agentConfirm' = NoAgent
                 /\ \A c \in agentsAsked' : c.kind \notin {"update", "delete"}
      <3>1. PICK s \in agentsAsked : p = Old(s) /\ s.kind = "list"
        BY <1>1, <1>2, <1>3, <2>2
      <3>2. /\ agentsListed.rows = {} /\ editor.agent = Blank /\ agentConfirm = NoAgent
            /\ \A c \in agentsAsked : c.kind \notin {"update", "delete"}
        BY <1>1, <2>2, <3>1 DEF AgentsBlank
      <3>3. QED
        BY <1>1, <1>2, <1>3, <3>2
    <2>3. QED
      BY <2>1, <2>2 DEF AgentsBlank
  <1>16. AgentsInOrder'
    <2> SUFFICES ASSUME ~agentsMissed, NEW s \in agentsAsked', s.old, s.kind # "list"
                 PROVE  \E d \in agentsAsked' :
                            /\ d.kind \in {"update", "delete"} /\ d.phase = "served"
                            /\ ~d.old /\ d.id = s.id
      BY <1>1 DEF AgentsInOrder
    <2>1. PICK p \in agentsAsked \ {r} : s = Old(p)
      BY <1>1, <1>2
    <2>2. CASE p.id = r.id
      <3>1. r.kind \in {"update", "delete"}
        BY <1>2, <1>3, <1>11, <2>1, <2>2
      <3>2. QED
        BY <1>1, <1>2, <1>3, <2>1, <2>2, <3>1
    <2>3. CASE p.id # r.id
      <3>1. s = p
        BY <1>3, <2>1, <2>3
      <3>2. PICK d \in agentsAsked : /\ d.kind \in {"update", "delete"} /\ d.phase = "served"
                                   /\ ~d.old /\ d.id = s.id
        BY <3>1 DEF AgentsInOrder
      <3>3. d # r /\ Old(d) = d
        BY <1>1, <1>3, <2>3, <3>1, <3>2
      <3>4. QED
        BY <1>1, <3>2, <3>3
    <2>4. QED
      BY <2>2, <2>3
  <1>17. AgentsLost'
    <2> SUFFICES ASSUME ~agentsMissed, NEW s \in agentsAsked', s.kind = "create",
                        s.phase = "served"
                 PROVE  AgentServed("delete", s.id)' \/ \E x \in agentsStored' : x.id = s.id
      BY <1>1 DEF AgentsLost
    <2>1. CASE s = q
      BY <1>2, <1>5, <2>1
    <2>2. CASE s # q
      <3>1. PICK p \in agentsAsked : s = Old(p)
        BY <1>1, <2>2
      <3>2. AgentServed("delete", s.id) \/ \E x \in agentsStored : x.id = s.id
        BY <1>3, <3>1 DEF AgentsLost
      <3>3. CASE r.kind = "delete" /\ s.id = r.id
        BY <1>7, <3>3
      <3>4. CASE ~(r.kind = "delete" /\ s.id = r.id)
        BY <1>5, <1>7, <3>2, <3>4
      <3>5. QED
        BY <3>3, <3>4
    <2>3. QED
      BY <2>1, <2>2
  <1>18. AgentsKnown'
    <2>1. ASSUME NEW i, AgentIsKnown(i), r.kind = "create" => i # r.id
          PROVE  AgentIsKnown(i)'
      BY <1>1, <1>2, <1>5, <2>1 DEF AgentIsKnown
    <2>2. ASSUME ~agentsMissed, editor.agent # Blank, NEW i, i = editor.agent.id
          PROVE  AgentIsKnown(i)'
      <3>1. r.kind = "create" => i # r.id
        BY <1>8, <2>2 DEF AgentsFresh, AgentGiven
      <3>2. AgentIsKnown(i)
        BY <2>2 DEF AgentsKnown
      <3>3. QED
        BY <2>1, <3>1, <3>2
    <2>3. ASSUME ~agentsMissed, NEW s \in agentsAsked', s.kind = "update"
          PROVE  AgentIsKnown(s.id)'
      <3>1. PICK p \in agentsAsked : p.kind = "update" /\ p.id = s.id
        BY <1>1, <1>2, <1>3, <2>3
      <3>2. r.kind = "create" => s.id # r.id
        BY <1>11, <3>1
      <3>3. AgentIsKnown(s.id)
        BY <2>3, <3>1 DEF AgentsKnown
      <3>4. QED
        BY <2>1, <3>2, <3>3
    <2>4. (editor.agent # Blank => AgentIsKnown(editor.agent.id))' \/ agentsMissed
      BY <1>1, <2>2 DEF AgentIsKnown
    <2>5. QED
      BY <1>1, <2>3, <2>4 DEF AgentsKnown
  <1>19. ASSUME NEW rows, AgentsAgree(rows), r.kind = "create" => \A x \in rows : x.id # r.id
         PROVE  AgentsAgree(rows)'
    <2>1. ASSUME NEW x \in rows \ agentsStored'
          PROVE  \/ AgentServed("delete", x.id)'
                 \/ AgentServed("update", x.id)' /\ \E y \in agentsStored' : y.id = x.id
      <3>1. CASE x.id # r.id
        BY <1>5, <1>7, <1>19, <2>1, <3>1 DEF AgentsAgree
      <3>2. CASE x.id = r.id /\ r.kind = "delete"
        BY <1>7, <3>2
      <3>3. CASE x.id = r.id /\ r.kind = "update"
        <4>1. CASE \E y \in agentsStored : y.id = x.id
          BY <1>5, <1>7, <3>3, <4>1
        <4>2. CASE ~\E y \in agentsStored : y.id = x.id
          BY <1>7, <1>19, <2>1, <4>2 DEF AgentsAgree
        <4>3. QED
          BY <4>1, <4>2
      <3>4. QED
        BY <1>2, <1>19, <2>1, <3>1, <3>2, <3>3
    <2>2. ASSUME NEW x \in agentsStored' \ rows
          PROVE  \/ AgentServed("update", x.id)'
                 \/ AgentServed("create", x.id)' /\ \A y \in rows : y.id # x.id
      <3>1. CASE x.id # r.id
        BY <1>5, <1>7, <1>19, <2>2, <3>1 DEF AgentsAgree
      <3>2. CASE x.id = r.id
        BY <1>2, <1>5, <1>7, <1>19, <2>2, <3>2
      <3>3. QED
        BY <3>1, <3>2
    <2>3. QED
      BY <2>1, <2>2 DEF AgentsAgree
  <1>20. AgentsSynced'
    <2>1. CASE agentsMissed
      BY <1>1, <2>1 DEF AgentsSynced
    <2>2. CASE \E p \in agentsAsked : p.kind = "list" /\ p.phase = "sent"
      <3>1. PICK p \in agentsAsked : p.kind = "list" /\ p.phase = "sent"
        BY <2>2
      <3>2. p \in agentsAsked'
        BY <1>1, <1>3, <3>1
      <3>3. QED
        BY <3>1, <3>2 DEF AgentsSynced
    <2>3. CASE /\ \A p \in agentsAsked : p.kind = "list" => AgentsAgree(p.answer)
               /\ (\A p \in agentsAsked : p.kind # "list") => AgentsAgree(agentsListed.rows)
      <3>1. ASSUME NEW s \in agentsAsked', s.kind = "list" PROVE AgentsAgree(s.answer)'
        <4>1. PICK p \in agentsAsked : s = Old(p)
          BY <1>1, <1>2, <3>1
        <4>2. p.kind = "list" /\ s.answer = p.answer
          BY <1>3, <3>1, <4>1
        <4>3. AgentsAgree(p.answer)
          BY <2>3, <4>2
        <4>4. AgentsAgree(p.answer)'
          BY <1>11, <1>19, <4>3
        <4>5. QED
          BY <4>2, <4>4 DEF AgentsAgree
      <3>2. ASSUME \A s \in agentsAsked' : s.kind # "list" PROVE AgentsAgree(agentsListed.rows)'
        <4>1. \A p \in agentsAsked : p.kind # "list"
          BY <1>1, <1>3, <3>2
        <4>2. AgentsAgree(agentsListed.rows)
          BY <2>3, <4>1
        <4>3. agentsListed' = agentsListed
          BY <1>1
        <4> DEFINE rows == agentsListed.rows
        <4>4. AgentsAgree(rows)
          BY <4>2
        <4>5. rows' = rows
          BY <4>3
        <4>6. r.kind = "create" => \A x \in rows : x.id # r.id
          BY <1>11
        <4> HIDE DEF rows
        <4>7. ASSUME NEW R, R = rows PROVE AgentsAgree(R)'
          BY <1>19, <4>4, <4>6, <4>7
        <4>8. AgentsAgree(rows)'
          BY <4>5, <4>7 DEF AgentsAgree
        <4>9. QED
          BY <4>8 DEF rows
      <3>3. QED
        BY <3>1, <3>2 DEF AgentsSynced
    <2>4. QED
      BY <2>1, <2>2, <2>3 DEF AgentsSynced
  <1>21. QED
    BY <1>12, <1>13, <1>14, <1>15, <1>16, <1>17, <1>18, <1>20

\* The answer to a change that overtakes no other.
LEMMA AgentsFinish ==
  ASSUME AgentsCards, NEW r \in agentsAsked, r.kind # "list", r.phase = "served",
         agentsAsked' = agentsAsked \ {r}, UNCHANGED agentsStored,
         agentsMissed' = (agentsMissed \/ AgentsOvertakes(r)), ~agentsMissed'
  PROVE  /\ ~agentsMissed /\ \A q \in agentsAsked : q.kind # "list"
         /\ AgentsBlank' /\ AgentsInOrder' /\ AgentsLost' /\ AgentsAgree(agentsListed.rows)
         /\ r.kind \in {"create", "update"} =>
               \/ AgentServed("delete", r.id)'
               \/ AgentServed("update", r.id)'
               \/ \A x \in agentsStored : x.id = r.id => x.of = r.of
  <1> USE DEF AgentsCards, AgentsIds, AgentsOrder
  <1>1. ~agentsMissed /\ ~AgentsOvertakes(r)
    OBVIOUS
  <1>2. /\ \A q \in agentsAsked : q.kind # "list"
        /\ \A q \in agentsAsked \ {r} : q.old => q.id # r.id
    BY <1>1 DEF AgentsOvertakes
  <1>3. AgentsBlank'
    BY <1>2 DEF AgentsBlank
  <1>4. AgentsInOrder'
    BY <1>1, <1>2 DEF AgentsInOrder
  <1>5. AgentsLost'
    <2> SUFFICES ASSUME NEW q \in agentsAsked \ {r}, q.kind = "create", q.phase = "served"
                 PROVE  AgentServed("delete", q.id)' \/ \E x \in agentsStored : x.id = q.id
      BY DEF AgentsLost
    <2>1. CASE q.old
      <3>1. q.id # r.id
        BY <1>2, <2>1
      <3>2. AgentServed("delete", q.id) \/ \E x \in agentsStored : x.id = q.id
        BY <1>1 DEF AgentsLost
      <3>3. QED
        BY <3>1, <3>2 DEF AgentServed
    <2>2. CASE ~q.old
      BY <2>2 DEF AgentsLast
    <2>3. QED
      BY <2>1, <2>2
  <1>6. AgentsAgree(agentsListed.rows)
    BY <1>1, <1>2 DEF AgentsSynced
  <1>7. ASSUME r.kind \in {"create", "update"}
        PROVE  \/ AgentServed("delete", r.id)'
               \/ AgentServed("update", r.id)'
               \/ \A x \in agentsStored : x.id = r.id => x.of = r.of
    <2>1. CASE r.old
      <3>1. PICK d \in agentsAsked : /\ d.kind \in {"update", "delete"} /\ d.phase = "served"
                                   /\ ~d.old /\ d.id = r.id
        BY <1>1, <2>1 DEF AgentsInOrder
      <3>2. d \in agentsAsked'
        BY <2>1, <3>1
      <3>3. QED
        BY <3>1, <3>2 DEF AgentServed
    <2>2. CASE ~r.old
      BY <1>7, <2>2 DEF AgentsLast
    <2>3. QED
      BY <2>1, <2>2
  <1>8. QED
    BY <1>1, <1>2, <1>3, <1>4, <1>5, <1>6, <1>7

\* An answer changes what is shown, and nothing else.
LEMMA AgentsOver ==
  ASSUME AgentsCards, NEW r \in agentsAsked, agentsAsked' = agentsAsked \ {r},
         \A x \in agentsListed'.rows :
             \/ x \in agentsListed.rows \cup r.answer
             \/ r.kind \in {"create", "update"} /\ r.phase = "served" /\ x.id = r.id,
         editor'.agent = editor.agent, agentConfirm' \in {agentConfirm, NoAgent},
         UNCHANGED agentsServer
  PROVE  /\ AgentsIds'
         /\ \A k, i : AgentServed(k, i)' => AgentServed(k, i)
         /\ \A k, i : AgentServed(k, i) /\ (k # r.kind \/ i # r.id \/ r.phase # "served")
                         => AgentServed(k, i)'
  <1> USE DEF AgentsCards, AgentsIds, agentsServer
  <1>1. \A i : AgentGiven(i) => AgentGiven(i)'
    BY DEF AgentGiven, AgentToCome
  <1>2. r.kind \in {"create", "update"} /\ r.phase = "served" => AgentGiven(r.id)
    <2>1. CASE r.kind = "update"
      BY <2>1 DEF AgentsFresh
    <2>2. CASE r.kind = "create" /\ r.phase = "served"
      BY <2>2 DEF AgentsFresh, AgentGiven, AgentToCome
    <2>3. QED
      BY <2>1, <2>2
  <1>3. \A x \in agentsListed'.rows \cup agentsStored' : AgentGiven(x.id)'
    BY <1>1, <1>2 DEF AgentsFresh
  <1>4. /\ (editor.agent # Blank => AgentGiven(editor.agent.id))'
        /\ (agentConfirm # NoAgent => AgentGiven(agentConfirm))'
    BY <1>1 DEF AgentsFresh
  <1>5. AgentsFresh'
    BY <1>1, <1>3, <1>4 DEF AgentsFresh
  <1>6. \A k, i : AgentServed(k, i)' => AgentServed(k, i)
    BY DEF AgentServed
  <1>7. \A k, i : AgentServed(k, i) /\ (k # r.kind \/ i # r.id \/ r.phase # "served")
                         => AgentServed(k, i)'
    BY DEF AgentServed
  <1>8. AgentsGone' /\ AgentsLast'
    BY <1>6 DEF AgentsGone, AgentsLast
  <1>9. QED
    BY <1>5, <1>6, <1>7, <1>8

\* What was saved, shown.
LEMMA AgentsSaved ==
  ASSUME AgentsCards, NEW r \in agentsAsked, FinishSaveAgent(r)
  PROVE  /\ AgentsIds'
         /\ ~agentsMissed' => AgentsOrder'
  <1> USE DEF AgentsCards, AgentsIds, AgentsOrder
  <1> DEFINE e == Agent(r.id, r.of)
             rows == {IF x.id = r.id THEN e ELSE x : x \in agentsListed.rows}
  <1>1. /\ agentsAsked' = agentsAsked \ {r} /\ UNCHANGED <<agentsStored, agentsUsed>>
        /\ agentConfirm' = agentConfirm /\ r.phase = "served"
        /\ editor'.agent = editor.agent
    BY DEF FinishSaveAgent, AgentAnswered, AgentsInv, AgentTypes, agentsServer
  <1>2. \/ r.kind = "update" /\ agentsListed'.rows = rows
        \/ r.kind = "create" /\ agentsListed'.rows = agentsListed.rows \cup {e}
    BY DEF FinishSaveAgent, AgentAnswered, AgentsInv, AgentTypes
  <1>3. /\ e.id = r.id
        /\ \A x \in AgentRecords : x.id = r.id /\ x.of = r.of => x = e
        /\ agentsStored \subseteq AgentRecords
    BY DEF Agent, AgentRecords, AgentsInv, AgentTypes
  <1>missed. agentsMissed' = (agentsMissed \/ AgentsOvertakes(r))
    BY DEF FinishSaveAgent
  <1> HIDE DEF e
  <1>4. /\ \A x \in agentsListed.rows : (IF x.id = r.id THEN e ELSE x) \in rows
        /\ \A y \in rows : \E x \in agentsListed.rows : y = IF x.id = r.id THEN e ELSE x
    OBVIOUS
  <1> HIDE DEF rows
  <1>5. /\ \A y \in agentsListed'.rows : y \in agentsListed.rows \/ y = e
        /\ \A y \in agentsListed.rows : y.id # r.id => y \in agentsListed'.rows
        /\ \A y \in agentsListed.rows : y.id = r.id => e \in agentsListed'.rows
        /\ r.kind = "create" => /\ e \in agentsListed'.rows
                                /\ agentsListed.rows \subseteq agentsListed'.rows
        /\ r.kind = "update" =>
              \A y \in agentsListed'.rows :
                  /\ y.id = r.id => y = e
                  /\ \E x \in agentsListed.rows : x.id = y.id
    BY <1>2, <1>3, <1>4
  <1>6. AgentsIds' /\ \A k, i : AgentServed(k, i) /\ (k # r.kind \/ i # r.id)
                                    => AgentServed(k, i)'
    BY <1>1, <1>2, <1>3, <1>5, AgentsOver DEF agentsServer
  <1>7. ASSUME ~agentsMissed' PROVE AgentsOrder'
    <2>1. /\ ~agentsMissed /\ \A q \in agentsAsked : q.kind # "list"
          /\ AgentsBlank' /\ AgentsInOrder' /\ AgentsLost' /\ AgentsAgree(agentsListed.rows)
          /\ \/ AgentServed("delete", r.id)'
             \/ AgentServed("update", r.id)'
             \/ \A x \in agentsStored : x.id = r.id => x.of = r.of
      BY <1>1, <1>2, <1>missed, <1>7, AgentsFinish
    <2>2. \/ AgentServed("delete", r.id)'
          \/ AgentServed("update", r.id)'
          \/ \A x \in agentsStored : x.id = r.id => x = e
      BY <1>3, <2>1
    <2>3. AgentsKnown'
      <3>1. \A x \in agentsListed.rows : \E y \in agentsListed'.rows : y.id = x.id
        BY <1>3, <1>5
      <3>2. \A i : AgentIsKnown(i) => AgentIsKnown(i)'
        BY <1>1, <3>1 DEF AgentIsKnown
      <3>3. (editor.agent # Blank => AgentIsKnown(editor.agent.id))'
        BY <1>1, <2>1, <3>2 DEF AgentsKnown, AgentIsKnown
      <3>4. QED
        BY <1>1, <2>1, <3>2, <3>3 DEF AgentsKnown
    <2>4. ASSUME NEW x \in agentsListed'.rows \ agentsStored
          PROVE  \/ AgentServed("delete", x.id)'
                 \/ AgentServed("update", x.id)' /\ \E y \in agentsStored : y.id = x.id
      <3>1. CASE x.id # r.id
        BY <1>3, <1>5, <1>6, <2>1, <2>4, <3>1 DEF AgentsAgree
      <3>2. CASE x.id = r.id /\ r.kind = "create"
        <4>1. CASE x = e
          <5>1. AgentServed("delete", r.id) \/ \E y \in agentsStored : y.id = r.id
            BY <1>1, <2>1, <3>2 DEF AgentsLost
          <5>2. AgentServed("delete", r.id)' \/ \E y \in agentsStored : y.id = r.id
            BY <1>6, <3>2, <5>1
          <5>3. QED
            BY <2>2, <2>4, <3>2, <4>1, <5>2
        <4>2. CASE x # e
          BY <1>5, <1>6, <2>1, <2>4, <3>2, <4>2 DEF AgentsAgree
        <4>3. QED
          BY <4>1, <4>2
      <3>3. CASE x.id = r.id /\ r.kind = "update" /\ \E z \in agentsStored : z.id = r.id
        BY <1>3, <1>5, <2>2, <2>4, <3>3
      <3>4. CASE x.id = r.id /\ r.kind = "update" /\ \A z \in agentsStored : z.id # r.id
        <4>1. PICK y \in agentsListed.rows : y.id = r.id
          BY <1>5, <2>4, <3>4
        <4>2. AgentServed("delete", r.id)
          BY <2>1, <3>4, <4>1 DEF AgentsAgree
        <4>3. QED
          BY <1>6, <3>4, <4>2
      <3>5. QED
        BY <1>2, <3>1, <3>2, <3>3, <3>4
    <2>5. ASSUME NEW x \in agentsStored \ agentsListed'.rows
          PROVE  \/ AgentServed("update", x.id)'
                 \/ AgentServed("create", x.id)' /\ \A y \in agentsListed'.rows : y.id # x.id
      <3>1. CASE x.id # r.id
        BY <1>3, <1>5, <1>6, <2>1, <2>5, <3>1 DEF AgentsAgree
      <3>2. CASE x.id = r.id
        <4>1. ~AgentServed("delete", x.id)'
          BY <1>1, <1>6 DEF AgentsGone
        <4>2. r.kind = "update" => \E y \in agentsListed.rows : y.id = r.id
          BY <1>1, <2>1, <3>2 DEF AgentsKnown, AgentIsKnown
        <4>3. e \in agentsListed'.rows
          BY <1>2, <1>5, <4>2
        <4>4. QED
          BY <2>2, <2>5, <3>2, <4>1, <4>3
      <3>3. QED
        BY <3>1, <3>2
    <2>6. AgentsAgree(agentsListed.rows)'
      BY <1>1, <2>4, <2>5 DEF AgentsAgree
    <2>7. AgentsSynced'
      BY <1>1, <2>1, <2>6 DEF AgentsSynced
    <2>8. QED
      BY <2>1, <2>3, <2>7
  <1>8. QED
    BY <1>6, <1>7

LEMMA AgentsListStep == AgentsCards /\ [AgentsPageNext]_agentsVars => AgentsCards'
  <1>1. SUFFICES ASSUME AgentsCards, [AgentsPageNext]_agentsVars
                 PROVE  AgentsIds' /\ AgentsOrder'
    BY AgentsNext DEF AgentsCards
  <1>2. /\ agentsListed \in [rows : SUBSET AgentRecords, loading : BOOLEAN]
        /\ editor \in [open : BOOLEAN, slid : BOOLEAN, agent : AgentRecords \cup {Blank}]
        /\ agentsAsked \subseteq AgentRequests
    BY <1>1 DEF AgentsCards, AgentsInv, AgentTypes
  <1>3. ASSUME NEW x \in agentsListed.rows \cup {Blank}, OpenEditor(x)
        PROVE  AgentsIds' /\ AgentsOrder'
    <2>1. editor'.agent = x /\ agentConfirm' = agentConfirm
            /\ UNCHANGED <<agentsListed, agentsAsked, agentsServer, agentsMissed>>
      BY <1>3 DEF OpenEditor, agentsHistory
    <2>2. QED
      BY <1>1, <2>1, AgentsClick
  <1>4. CASE HandleOpen \/ CloseEditor \/ CloseAgentConfirm \/ UNCHANGED agentsVars
    <2>1. editor'.agent = editor.agent /\ agentConfirm' \in {agentConfirm, NoAgent}
            /\ UNCHANGED <<agentsListed, agentsAsked, agentsServer, agentsMissed>>
      BY <1>2, <1>4 DEF HandleOpen, CloseEditor, CloseAgentConfirm, agentsVars, agentsPage,
                        agentsHistory
    <2>2. QED
      BY <1>1, <2>1, AgentsClick
  <1>5. ASSUME NEW x \in agentsListed.rows, HandleDeleteAgent(x)
        PROVE  AgentsIds' /\ AgentsOrder'
    <2>1. editor' = editor /\ agentConfirm' = x.id
            /\ UNCHANGED <<agentsListed, agentsAsked, agentsServer, agentsMissed>>
      BY <1>5 DEF HandleDeleteAgent, agentsHistory
    <2>2. QED
      BY <1>1, <2>1, AgentsClick
  <1>6. CASE HandleSaveAgent
    <2>1. UNCHANGED <<agentsPage, agentsStored, agentsMissed>>
      BY <1>6 DEF HandleSaveAgent
    <2>2. CASE editor.agent # Blank
      <3>1. AgentAsk("update", editor.agent.id, editorForm) /\ agentsUsed' = agentsUsed
        BY <1>6, <2>2 DEF HandleSaveAgent
      <3>2. AgentGiven(editor.agent.id)
        BY <1>1, <2>2 DEF AgentsCards, AgentsIds, AgentsFresh
      <3>3. QED
        BY <1>1, <2>1, <2>2, <3>1, <3>2, AgentsAsks
    <2>3. CASE editor.agent = Blank
      <3>1. PICK a \in Agents \ agentsUsed :
               AgentAsk("create", a, editorForm) /\ agentsUsed' = agentsUsed \cup {a}
        BY <1>6, <2>3 DEF HandleSaveAgent
      <3>2. QED
        BY <1>1, <2>1, <3>1, AgentsAsks
    <2>4. QED
      BY <2>2, <2>3
  <1>7. CASE ConfirmDeleteAgent
    <2>1. /\ AgentAsk("delete", agentConfirm, NoAgent) /\ agentConfirm # NoAgent
          /\ UNCHANGED <<agentsPage, agentsServer, agentsMissed>>
      BY <1>7 DEF ConfirmDeleteAgent, agentsHistory
    <2>2. AgentGiven(agentConfirm)
      BY <1>1, <2>1 DEF AgentsCards, AgentsIds, AgentsFresh
    <2>3. QED
      BY <1>1, <2>1, <2>2, AgentsAsks DEF agentsServer
  <1>8. ASSUME NEW r \in agentsAsked, AgentsServe(r)
        PROVE  AgentsIds' /\ AgentsOrder'
    BY <1>1, <1>8, AgentsReads, AgentsServes
  \* Nothing is claimed of the order once an answer was missed.
  <1>9. ASSUME agentsMissed',
               \A p, q \in agentsAsked' : p.kind = "list" /\ q.kind = "list" => p = q
        PROVE  AgentsOrder'
    BY <1>9 DEF AgentsOrder, AgentsBlank, AgentsInOrder, AgentsLost, AgentsKnown,
                AgentsSynced
  <1>10. \A p, q \in agentsAsked : p.kind = "list" /\ q.kind = "list" => p = q
    BY <1>1 DEF AgentsCards, AgentsOrder, AgentsBlank
  <1>11. ASSUME NEW r \in agentsAsked, FinishLoadAgents(r)
        PROVE  AgentsIds' /\ AgentsOrder'
    <2>1. /\ agentsAsked' = agentsAsked \ {r} /\ UNCHANGED agentsServer
          /\ agentsListed' = [rows |-> r.answer, loading |-> FALSE]
          /\ r.kind = "list" /\ r.phase = "served"
          /\ UNCHANGED <<editor, agentConfirm, agentsMissed>>
      BY <1>11 DEF FinishLoadAgents, AgentAnswered
    <2>2. /\ AgentsIds'
          /\ \A k, i : AgentServed(k, i)' => AgentServed(k, i)
          /\ \A k, i : AgentServed(k, i) /\ k # "list" => AgentServed(k, i)'
      BY <1>1, <2>1, AgentsOver
    <2>3. CASE agentsMissed
      BY <1>9, <1>10, <2>1, <2>2, <2>3
    <2>4. CASE ~agentsMissed
      <3>1. /\ \A p \in agentsAsked' : p.kind # "list" /\ p.kind # "update"
            /\ editor.agent = Blank
        BY <1>1, <1>10, <2>1, <2>4 DEF AgentsCards, AgentsOrder, AgentsBlank
      <3>2. AgentsBlank' /\ AgentsKnown'
        BY <2>1, <3>1 DEF AgentsBlank, AgentsKnown
      <3>3. AgentsInOrder' /\ AgentsLost'
        BY <1>1, <2>1, <2>2, <2>4
           DEF AgentsCards, AgentsOrder, AgentsInOrder, AgentsLost, agentsServer
      <3>4. AgentsAgree(r.answer)
        BY <1>1, <1>10, <2>1, <2>4 DEF AgentsCards, AgentsOrder, AgentsSynced
      <3>5. agentsListed'.rows = r.answer /\ agentsStored' = agentsStored
        BY <2>1 DEF agentsServer
      <3>6. AgentsAgree(agentsListed.rows)'
        BY <2>2, <3>4, <3>5 DEF AgentsAgree
      <3>7. AgentsSynced'
        BY <3>1, <3>6 DEF AgentsSynced
      <3>8. QED
        BY <2>2, <3>2, <3>3, <3>7 DEF AgentsOrder
    <2>5. QED
      BY <2>3, <2>4
  <1>12. ASSUME NEW r \in agentsAsked, FinishSaveAgent(r)
         PROVE  AgentsIds' /\ AgentsOrder'
    <2>1. agentsAsked' = agentsAsked \ {r}
      BY <1>12 DEF FinishSaveAgent, AgentAnswered
    <2>2. QED
      BY <1>1, <1>9, <1>10, <1>12, <2>1, AgentsSaved
  <1>13. ASSUME NEW r \in agentsAsked, FinishDeleteAgent(r)
         PROVE  AgentsIds' /\ AgentsOrder'
    <2>1. /\ agentsAsked' = agentsAsked \ {r} /\ UNCHANGED agentsServer
          /\ agentsListed'.rows = {x \in agentsListed.rows : x.id # r.id}
          /\ r.kind = "delete" /\ r.phase = "served"
          /\ editor' = editor /\ agentConfirm' \in {agentConfirm, NoAgent}
      BY <1>2, <1>13 DEF FinishDeleteAgent, AgentAnswered
    <2>2. agentsMissed' = (agentsMissed \/ AgentsOvertakes(r)) /\ agentsStored' = agentsStored
      BY <1>13, <2>1 DEF FinishDeleteAgent, agentsServer
    <2>3. AgentsIds' /\ \A k, i : AgentServed(k, i) /\ (k # r.kind \/ i # r.id)
                                      => AgentServed(k, i)'
      BY <1>1, <2>1, AgentsOver
    <2>4. CASE agentsMissed'
      BY <1>9, <1>10, <2>1, <2>3, <2>4
    <2>5. CASE ~agentsMissed'
      <3>1. /\ ~agentsMissed /\ \A q \in agentsAsked : q.kind # "list"
            /\ AgentsBlank' /\ AgentsInOrder' /\ AgentsLost'
            /\ AgentsAgree(agentsListed.rows)
        BY <1>1, <2>1, <2>2, <2>5, AgentsFinish
      <3>2. \A x \in agentsStored : x.id # r.id
        BY <1>1, <2>1 DEF AgentsCards, AgentsIds, AgentsGone, AgentServed
      <3>3. \A i : AgentIsKnown(i) => AgentIsKnown(i)'
        BY <2>1, <2>2, <3>2 DEF AgentIsKnown
      <3>4. AgentsKnown'
        BY <1>1, <2>1, <3>1, <3>3 DEF AgentsCards, AgentsOrder, AgentsKnown
      <3>5. AgentsAgree(agentsListed.rows)'
        BY <2>1, <2>2, <2>3, <3>1, <3>2 DEF AgentsAgree
      <3>6. AgentsSynced'
        BY <2>1, <3>1, <3>5 DEF AgentsSynced
      <3>7. QED
        BY <2>3, <3>1, <3>4, <3>6 DEF AgentsOrder
    <2>6. QED
      BY <2>4, <2>5
  <1>14. ASSUME NEW r \in agentsAsked, FailAgentRequest(r)
         PROVE  AgentsIds' /\ AgentsOrder'
    <2>1. /\ agentsAsked' = agentsAsked \ {r} /\ UNCHANGED agentsServer
          /\ agentsListed' = [agentsListed EXCEPT !.loading = @ /\ r.kind # "list"]
          /\ agentsMissed' = (agentsMissed \/ r.kind = "list" \/ r.phase = "served")
          /\ editor' = editor /\ agentConfirm' \in {agentConfirm, NoAgent}
      BY <1>14 DEF FailAgentRequest
    <2>2. agentsListed'.rows = agentsListed.rows /\ agentsStored' = agentsStored
      BY <1>2, <2>1 DEF agentsServer
    <2>3. /\ AgentsIds'
          /\ \A k, i : AgentServed(k, i)' => AgentServed(k, i)
          /\ \A k, i : AgentServed(k, i)
                          /\ (k # r.kind \/ i # r.id \/ r.phase # "served")
                        => AgentServed(k, i)'
      BY <1>1, <2>1, <2>2, AgentsOver
    <2>4. CASE agentsMissed'
      BY <1>9, <1>10, <2>1, <2>3, <2>4
    <2>5. CASE ~agentsMissed'
      <3>1. ~agentsMissed /\ r.kind # "list" /\ r.phase # "served"
        BY <2>1, <2>5
      <3>2. \A k, i : AgentServed(k, i) <=> AgentServed(k, i)'
        BY <2>3, <3>1
      <3>3. AgentsBlank'
        BY <1>1, <2>1, <2>2, <3>1 DEF AgentsCards, AgentsOrder, AgentsBlank
      <3>4. AgentsKnown'
        BY <1>1, <2>1, <2>2, <3>1
           DEF AgentsCards, AgentsOrder, AgentsKnown, AgentIsKnown
      <3>5. ~r.old
        BY <1>1, <3>1 DEF AgentsCards, AgentsIds, AgentsFresh
      <3>6. AgentsInOrder'
        BY <1>1, <2>1, <3>1 DEF AgentsCards, AgentsOrder, AgentsInOrder
      <3>7. AgentsLost'
        BY <1>1, <2>1, <2>2, <3>1, <3>2 DEF AgentsCards, AgentsOrder, AgentsLost
      <3>8. \A rows : AgentsAgree(rows) => AgentsAgree(rows)'
        BY <2>2, <3>2 DEF AgentsAgree
      <3>9. AgentsSynced'
        <4>1. CASE \E p \in agentsAsked : p.kind = "list" /\ p.phase = "sent"
          BY <2>1, <3>1, <4>1 DEF AgentsSynced
        <4>2. CASE /\ \A p \in agentsAsked : p.kind = "list" => AgentsAgree(p.answer)
                   /\ (\A p \in agentsAsked : p.kind # "list") =>
                         AgentsAgree(agentsListed.rows)
          <5>1. (\A p \in agentsAsked' : p.kind # "list") => AgentsAgree(agentsListed.rows)'
            BY <2>1, <2>2, <3>1, <3>2, <4>2 DEF AgentsAgree
          <5>2. QED
            BY <2>1, <3>8, <4>2, <5>1 DEF AgentsSynced
        <4>3. QED
          BY <1>1, <3>1, <4>1, <4>2 DEF AgentsCards, AgentsOrder, AgentsSynced
      <3>10. QED
        BY <2>3, <3>3, <3>4, <3>6, <3>7, <3>9 DEF AgentsOrder
    <2>6. QED
      BY <2>4, <2>5
  <1>15. QED
    BY <1>1, <1>3, <1>4, <1>5, <1>6, <1>7, <1>8, <1>11, <1>12, <1>13, <1>14
       DEF AgentsPageNext

-----------------------------------------------------------------------------
(* McpPage.  The connectors of the cards; installing loads the list again, *)
(* adding and deleting edit what is shown, and a change may be committed   *)
(* after its answer.                                                       *)

AnyConnector == Connectors \cup {NoConnector}

McpKinds == {"list", "tools", "create", "install", "update", "delete", "test"}

McpChange(r) == r.kind \in {"create", "install", "delete"} /\ r.phase = "served"

McpRequests ==
    [n : Nat, kind : McpKinds, phase : {"sent", "served"}, id : AnyConnector,
     answer : SUBSET AnyConnector, old : BOOLEAN]

McpTypes ==
    /\ mcpListed \in [rows : SUBSET AnyConnector, loading : BOOLEAN]
    /\ mcpEditing \in AnyConnector /\ mcpConfirm \in AnyConnector
    /\ mcpAsked \subseteq McpRequests
    /\ \A r \in mcpAsked : r.old => r.kind \in {"list", "tools"}
    /\ \A r \in mcpAsked : r.old /\ r.kind = "list" => r.phase = "served"
    /\ mcpFlushed \subseteq McpRequests
    /\ \A c \in mcpFlushed : McpChange(c)
    /\ mcpStored \subseteq AnyConnector
    /\ mcpClicks \in Nat

Makes(r) == r.kind = "create" \/ r.kind = "install"

\* The creations that are not committed.
McpToCome ==
    {c \in mcpAsked : Makes(c) /\ c.phase = "sent"} \cup {c \in mcpFlushed : Makes(c)}

KnownConnector(i) == i \in mcpUsed /\ \A c \in McpToCome : c.id # i

\* A connector whose creation was answered is shown before it is committed.
SeenConnector(i) ==
    \/ KnownConnector(i)
    \/ \E c \in mcpFlushed \ mcpAsked : c.kind = "create" /\ c.id = i

\* An id that the page or the server has heard of was given out, and not for a
\* connector that is still to come.
McpFresh ==
    /\ \A c \in McpToCome :
          c.id \in mcpUsed /\ \A d \in McpToCome : d.id = c.id => d = c
    /\ \A x \in mcpStored : KnownConnector(x)
    /\ \A x \in mcpListed.rows : SeenConnector(x)
    /\ mcpConfirm # NoConnector => SeenConnector(mcpConfirm)
    /\ \A q \in mcpAsked : \A x \in q.answer : KnownConnector(x)

\* What is asked or flushed: a deletion waits until the creation is committed.
McpOrdered ==
    /\ \A q \in mcpAsked :
          /\ q.kind = "delete" => SeenConnector(q.id)
          /\ q.kind = "delete" /\ q.phase = "served" => KnownConnector(q.id)
    /\ \A q \in mcpAsked \ mcpFlushed :
          q.kind = "create" /\ q.phase = "served" => KnownConnector(q.id)
    /\ \A c \in mcpFlushed : c.kind = "delete" => KnownConnector(c.id)

\* A served deletion that is committed is about a connector that is gone.
McpGone ==
    \A r \in mcpAsked \ mcpFlushed :
        r.kind = "delete" /\ r.phase = "served" => r.id \notin mcpStored

McpServed(kind, i) == \E r \in mcpAsked : r.kind = kind /\ r.phase = "served" /\ r.id = i

\* A connector that was created and committed is stored, unless it was deleted.
McpKept ==
    \/ mcpMissed
    \/ \A q \in mcpAsked \ mcpFlushed : q.kind = "create" /\ q.phase = "served" =>
          q.id \in mcpStored \/ McpServed("delete", q.id)

\* What may differ: a change of it is not committed, or not answered.
McpChanging(i) == ConnectorFlushed(i) \/ McpServed("create", i) \/ McpServed("delete", i)

McpAgree(rows) ==
    \A x \in (rows \ mcpStored) \cup (mcpStored \ rows) : McpChanging(x)

\* The page will load the list again; and the list that was read last.
McpToRead(r) ==
    (r.kind = "list" /\ r.phase = "sent") \/ (r.kind = "install" /\ r.phase = "served")
McpLastRead(r) == r.kind = "list" /\ r.phase = "served" /\ ~r.old

\* No list was read after an edit was answered and before it was committed,
\* and the edit is shown.
McpTold ==
    \/ mcpMissed
    \/ \A c \in mcpFlushed \ mcpAsked : c.kind # "install" =>
          /\ \A r \in mcpAsked : r.kind = "list" => r.phase # "served"
          /\ c.kind = "create" <=> c.id \in mcpListed.rows
          /\ c.kind = "delete" => ~McpServed("create", c.id)

McpSynced ==
    \/ mcpMissed
    \/ \E r \in mcpAsked : McpToRead(r)
    \/ /\ \A c \in mcpFlushed \ mcpAsked : c.kind # "install"
       /\ \A r \in mcpAsked : McpLastRead(r) => McpAgree(r.answer)
       /\ (\A r \in mcpAsked : ~McpLastRead(r)) => McpAgree(mcpListed.rows)

McpHistory == McpGone /\ McpKept /\ McpTold /\ McpSynced

McpCardsListed == McpTypes /\ McpFresh /\ McpOrdered /\ McpHistory

LEMMA McpListStarts == McpPageInit => McpCardsListed
  <1>1. SUFFICES ASSUME McpPageInit PROVE McpCardsListed
    OBVIOUS
  <1>2. McpRequest("list", NoConnector) \in McpRequests
    BY <1>1 DEF McpPageInit, McpRequest, McpRequests, McpKinds, AnyConnector
  <1>3. McpTypes
    BY <1>1, <1>2, McpPageAssumption DEF McpPageInit, McpTypes, AnyConnector, McpRequest
  <1>4. McpFresh /\ McpOrdered
    BY <1>1 DEF McpPageInit, McpFresh, McpOrdered, KnownConnector, SeenConnector,
                McpToCome, Makes, McpRequest
  <1>5. McpHistory
    BY <1>1 DEF McpPageInit, McpHistory, McpGone, McpKept, McpTold, McpSynced, McpToRead,
                McpRequest
  <1>6. QED
    BY <1>3, <1>4, <1>5 DEF McpCardsListed

\* Nothing that matters is answered or served.
LEMMA McpHistoryKept ==
  ASSUME McpTypes, McpHistory, UNCHANGED <<mcpStored, mcpFlushed>>,
         mcpListed'.rows = mcpListed.rows, mcpMissed => mcpMissed',
         \A r \in mcpAsked : r.kind = "list" \/ McpChange(r) => r \in mcpAsked',
         \A r \in mcpAsked' : r.kind = "list" \/ McpChange(r) => r \in mcpAsked
  PROVE  McpHistory'
  <1>1. \A c \in mcpFlushed : c \in mcpAsked <=> c \in mcpAsked'
    BY DEF McpTypes
  <1>2. \A i : /\ McpServed("create", i)' <=> McpServed("create", i)
               /\ McpServed("delete", i)' <=> McpServed("delete", i)
    BY DEF McpServed, McpChange
  <1>3. McpGone'
    BY DEF McpHistory, McpGone, McpChange
  <1>4. McpKept'
    BY <1>2 DEF McpHistory, McpKept, McpChange
  <1>5. McpTold'
    BY <1>1, <1>2 DEF McpHistory, McpTold
  <1>6. \A i : McpChanging(i)' <=> McpChanging(i)
    BY <1>2 DEF McpChanging, ConnectorFlushed
  <1>7. CASE mcpMissed'
    BY <1>3, <1>4, <1>5, <1>7 DEF McpHistory, McpSynced
  <1>8. CASE ~mcpMissed' /\ \E r \in mcpAsked : McpToRead(r)
    <2>1. \E r \in mcpAsked' : McpToRead(r)
      BY <1>8 DEF McpToRead, McpChange
    <2>2. QED
      BY <1>3, <1>4, <1>5, <2>1 DEF McpHistory, McpSynced
  <1>9. CASE ~mcpMissed' /\ ~\E r \in mcpAsked : McpToRead(r)
    <2>1. /\ \A c \in mcpFlushed \ mcpAsked : c.kind # "install"
          /\ \A r \in mcpAsked : McpLastRead(r) => McpAgree(r.answer)
          /\ (\A r \in mcpAsked : ~McpLastRead(r)) => McpAgree(mcpListed.rows)
      BY <1>9 DEF McpHistory, McpSynced
    <2>2. \A rows : McpAgree(rows) => McpAgree(rows)'
      BY <1>6 DEF McpAgree
    <2>3. \A r : McpLastRead(r) => (r \in mcpAsked <=> r \in mcpAsked')
      BY DEF McpLastRead
    <2>4. (\A r \in mcpAsked' : ~McpLastRead(r)) => McpAgree(mcpListed.rows)'
      BY <1>6, <2>1, <2>3 DEF McpAgree
    <2>5. McpSynced'
      BY <1>1, <2>1, <2>2, <2>3, <2>4 DEF McpSynced, McpLastRead
    <2>6. QED
      BY <1>3, <1>4, <1>5, <2>5 DEF McpHistory
  <1>10. QED
    BY <1>7, <1>8, <1>9

\* A click that asks for nothing: it may put a listed connector into a dialog.
LEMMA McpClicks ==
  ASSUME McpCardsListed, UNCHANGED <<mcpListed, mcpAsked, mcpServer, mcpMissed>>,
         mcpClicks' \in Nat, mcpEditing' \in AnyConnector, mcpConfirm' \in AnyConnector,
         mcpConfirm' \in mcpListed.rows \cup {mcpConfirm, NoConnector}
  PROVE  McpCardsListed'
  <1> USE DEF McpCardsListed, mcpServer
  <1>1. McpTypes'
    BY DEF McpTypes
  <1>2. \A i : (KnownConnector(i) => KnownConnector(i)')
               /\ (SeenConnector(i) => SeenConnector(i)')
    BY DEF KnownConnector, SeenConnector, McpToCome
  <1>3. (mcpConfirm # NoConnector => SeenConnector(mcpConfirm))'
    BY <1>2 DEF McpFresh
  <1>4. McpFresh'
    BY <1>2, <1>3 DEF McpFresh, McpToCome
  <1>5. McpOrdered'
    BY <1>2 DEF McpOrdered
  <1>6. McpHistory'
    BY McpHistoryKept
  <1>7. QED
    BY <1>1, <1>4, <1>5, <1>6

\* What the user asks for: a new connector, or something about another one.
LEMMA McpAsks ==
  ASSUME McpCardsListed, NEW kind \in {"create", "install", "update", "delete", "test"},
         NEW c \in AnyConnector, McpClick, McpAsk(kind, c),
         UNCHANGED <<mcpListed, mcpEditing, mcpConfirm, mcpStored, mcpFlushed, mcpMissed>>,
         \/ /\ kind = "create" \/ kind = "install"
            /\ c \notin mcpUsed /\ mcpUsed' = mcpUsed \cup {c}
         \/ /\ kind # "create" /\ kind # "install" /\ mcpUsed' = mcpUsed
            /\ kind = "delete" => SeenConnector(c)
  PROVE  McpCardsListed'
  <1> USE DEF McpCardsListed
  <1> DEFINE q == McpRequest(kind, c)
  <1>1. /\ q \in McpRequests /\ q.kind = kind /\ q.phase = "sent" /\ q.id = c
        /\ q.answer = {} /\ ~q.old /\ mcpAsked' = mcpAsked \cup {q}
    BY DEF McpTypes, McpRequest, McpRequests, McpKinds, McpAsk
  <1> HIDE DEF q
  <1>2. McpTypes'
    BY <1>1 DEF McpTypes, McpClick
  <1>3. q \notin mcpFlushed
    BY <1>1 DEF McpTypes, McpChange
  <1>4. \/ McpToCome' = McpToCome /\ mcpUsed' = mcpUsed
        \/ McpToCome' = McpToCome \cup {q} /\ c \notin mcpUsed /\ mcpUsed' = mcpUsed \cup {c}
    BY <1>1 DEF McpToCome, Makes
  <1>5. \A i : (KnownConnector(i) => KnownConnector(i)')
               /\ (SeenConnector(i) => SeenConnector(i)')
    BY <1>1, <1>3, <1>4 DEF KnownConnector, SeenConnector
  <1>6. \A d \in McpToCome' :
          d.id \in mcpUsed' /\ \A b \in McpToCome' : b.id = d.id => b = d
    BY <1>1, <1>4 DEF McpFresh
  <1>7. (mcpConfirm # NoConnector => SeenConnector(mcpConfirm))'
    BY <1>5 DEF McpFresh
  <1>8. McpFresh'
    BY <1>1, <1>5, <1>6, <1>7 DEF McpFresh
  <1>9. McpOrdered'
    BY <1>1, <1>5 DEF McpOrdered
  <1>10. McpHistory'
    BY <1>1, McpHistoryKept DEF McpChange
  <1>11. QED
    BY <1>2, <1>8, <1>9, <1>10

LEMMA McpReads ==
  ASSUME McpCardsListed, NEW r \in mcpAsked, McpServeList(r)
  PROVE  McpCardsListed'
  <1> USE DEF McpCardsListed, mcpPage, mcpDialogs, mcpServer
  <1> DEFINE q == [r EXCEPT !.phase = "served", !.answer = mcpStored]
             Old(x) == IF x.kind = "list" /\ x.phase = "served"
                       THEN [x EXCEPT !.old = TRUE] ELSE x
  <1>1. /\ mcpAsked' = {Old(x) : x \in mcpAsked \ {r}} \cup {q}
        /\ UNCHANGED <<mcpPage, mcpServer, mcpClicks>>
        /\ r.kind = "list" /\ r.phase = "sent"
    BY DEF McpServeList
  <1>2. /\ q \in McpRequests /\ q.kind = "list" /\ q.phase = "served" /\ q.id = r.id
        /\ q.answer = mcpStored /\ ~q.old
    BY <1>1 DEF McpTypes, McpRequests
  <1>3. \A x \in mcpAsked :
           /\ Old(x) \in McpRequests /\ Old(x).kind = x.kind /\ Old(x).phase = x.phase
           /\ Old(x).answer = x.answer /\ Old(x).id = x.id
           /\ Old(x).old => x.old \/ (x.kind = "list" /\ x.phase = "served")
           /\ x.kind = "list" /\ x.phase = "served" => Old(x).old
           /\ x.kind # "list" => Old(x) = x
    <2> SUFFICES ASSUME NEW x \in mcpAsked
                 PROVE  /\ Old(x) \in McpRequests /\ Old(x).kind = x.kind
                        /\ Old(x).phase = x.phase
                        /\ Old(x).answer = x.answer /\ Old(x).id = x.id
                        /\ Old(x).old => x.old \/ (x.kind = "list" /\ x.phase = "served")
                        /\ x.kind = "list" /\ x.phase = "served" => Old(x).old
                        /\ x.kind # "list" => Old(x) = x
      OBVIOUS
    <2>1. CASE x.kind = "list" /\ x.phase = "served"
      BY <2>1 DEF McpTypes, McpRequests
    <2>2. CASE ~(x.kind = "list" /\ x.phase = "served")
      BY <2>2 DEF McpTypes, McpRequests
    <2>3. QED
      BY <2>1, <2>2
  <1> HIDE DEF q, Old
  <1>4. McpTypes'
    BY <1>1, <1>2, <1>3 DEF McpTypes
  <1>5. McpToCome' = McpToCome
    BY <1>1, <1>2, <1>3 DEF McpToCome, Makes
  <1>6. \A c \in mcpFlushed : c \in mcpAsked <=> c \in mcpAsked'
    BY <1>1, <1>2, <1>3 DEF McpTypes, McpChange
  <1>7. \A i : (KnownConnector(i) => KnownConnector(i)')
               /\ (SeenConnector(i) => SeenConnector(i)')
    BY <1>1, <1>5, <1>6 DEF KnownConnector, SeenConnector
  <1>8. McpFresh'
    <2>1. (mcpConfirm # NoConnector => SeenConnector(mcpConfirm))'
      BY <1>1, <1>7 DEF McpFresh
    <2>2. \A x \in mcpAsked' : \A y \in x.answer : KnownConnector(y)'
      BY <1>1, <1>2, <1>3, <1>7 DEF McpFresh
    <2>3. QED
      BY <1>1, <1>5, <1>7, <2>1, <2>2 DEF McpFresh
  <1>9. McpOrdered'
    BY <1>1, <1>2, <1>3, <1>7 DEF McpOrdered
  <1>10. \A k, i : k # "list" => (McpServed(k, i)' <=> McpServed(k, i))
    BY <1>1, <1>2, <1>3 DEF McpServed
  <1>11. McpGone'
    BY <1>1, <1>2, <1>3 DEF McpHistory, McpGone
  <1>12. mcpMissed => mcpMissed'
    BY DEF McpServeList
  <1>13. McpKept'
    BY <1>1, <1>2, <1>3, <1>10, <1>12 DEF McpHistory, McpKept
  <1>14. CASE McpToldTooEarly
    <2>1. mcpMissed'
      BY <1>14 DEF McpServeList
    <2>2. QED
      BY <1>4, <1>8, <1>9, <1>11, <1>13, <2>1 DEF McpHistory, McpTold, McpSynced
  <1>15. CASE ~McpToldTooEarly
    <2>1. mcpFlushed' \ mcpAsked' = {}
      BY <1>1, <1>6, <1>15 DEF McpToldTooEarly
    <2>2. \A x \in mcpAsked' : McpLastRead(x) => x = q
      BY <1>1, <1>3 DEF McpLastRead
    <2>3. McpLastRead(q) /\ q \in mcpAsked' /\ q.answer = mcpStored'
      BY <1>1, <1>2 DEF McpLastRead
    <2>4. McpTold'
      BY <2>1 DEF McpTold
    <2>5. McpSynced'
      BY <2>1, <2>2, <2>3 DEF McpSynced, McpAgree, McpLastRead
    <2>6. QED
      BY <1>4, <1>8, <1>9, <1>11, <1>13, <2>4, <2>5 DEF McpHistory
  <1>16. QED
    BY <1>14, <1>15

LEMMA McpServes ==
  ASSUME McpCardsListed, NEW r \in mcpAsked, McpServe(r)
  PROVE  McpCardsListed'
  <1> USE DEF McpCardsListed, mcpPage, mcpDialogs
  <1> DEFINE q == [r EXCEPT !.phase = "served"]
  <1>1. /\ mcpAsked' = (mcpAsked \ {r}) \cup {q} /\ r.phase = "sent"
        /\ r.kind \in {"create", "install", "update", "delete", "test"}
        /\ \A f \in mcpFlushed : f.id # r.id
        /\ UNCHANGED <<mcpListed, mcpEditing, mcpConfirm, mcpStored, mcpUsed, mcpClicks,
                       mcpMissed>>
    BY DEF McpServe, ConnectorFlushed
  <1>2. /\ q \in McpRequests /\ q.kind = r.kind /\ q.phase = "served" /\ q.id = r.id
        /\ q.answer = r.answer /\ ~q.old
    BY <1>1 DEF McpTypes, McpRequests
  <1> HIDE DEF q
  <1>3. \/ mcpFlushed' = mcpFlushed /\ r.kind \in {"update", "test"}
        \/ mcpFlushed' = mcpFlushed \cup {q} /\ r.kind \in {"create", "install", "delete"}
    BY DEF McpServe, q
  <1>4. McpTypes'
    BY <1>1, <1>2, <1>3 DEF McpTypes, McpChange
  <1>5. \/ McpToCome' = McpToCome /\ ~Makes(r)
        \/ /\ McpToCome' = (McpToCome \ {r}) \cup {q}
           /\ r \in McpToCome /\ Makes(r)
    <2>1. CASE Makes(r)
      BY <1>1, <1>2, <1>3, <2>1 DEF McpToCome, Makes, McpTypes, McpChange
    <2>2. CASE ~Makes(r)
      BY <1>1, <1>2, <1>3, <2>2 DEF McpToCome, Makes
    <2>3. QED
      BY <2>1, <2>2
  <1>6. mcpFlushed' \ mcpAsked' = mcpFlushed \ mcpAsked
    BY <1>1, <1>2, <1>3 DEF McpTypes, McpChange
  <1>7. \A i : (KnownConnector(i) => KnownConnector(i)')
               /\ (SeenConnector(i) => SeenConnector(i)')
    BY <1>1, <1>2, <1>5, <1>6 DEF KnownConnector, SeenConnector
  <1>8. McpFresh'
    <2>1. (mcpConfirm # NoConnector => SeenConnector(mcpConfirm))'
      BY <1>1, <1>7 DEF McpFresh
    <2>2. \A c \in McpToCome' :
            c.id \in mcpUsed' /\ \A d \in McpToCome' : d.id = c.id => d = c
      BY <1>1, <1>2, <1>5 DEF McpFresh
    <2>3. QED
      BY <1>1, <1>2, <1>7, <2>1, <2>2 DEF McpFresh
  <1>9. r.kind = "delete" => KnownConnector(r.id)
    BY <1>1 DEF McpOrdered, SeenConnector
  <1>10. McpOrdered'
    <2>1. \A p \in mcpAsked' :
            /\ p.kind = "delete" => SeenConnector(p.id)'
            /\ p.kind = "delete" /\ p.phase = "served" => KnownConnector(p.id)'
      BY <1>1, <1>2, <1>7, <1>9 DEF McpOrdered
    <2>2. \A p \in mcpAsked' \ mcpFlushed' :
            p.kind = "create" /\ p.phase = "served" => KnownConnector(p.id)'
      BY <1>1, <1>2, <1>3, <1>7 DEF McpOrdered
    <2>3. \A c \in mcpFlushed' : c.kind = "delete" => KnownConnector(c.id)'
      BY <1>2, <1>3, <1>7, <1>9 DEF McpOrdered
    <2>4. QED
      BY <2>1, <2>2, <2>3 DEF McpOrdered
  <1>11. \A k, i : McpServed(k, i)' <=> McpServed(k, i) \/ (k = r.kind /\ i = r.id)
    BY <1>1, <1>2 DEF McpServed
  <1>12. McpGone'
    BY <1>1, <1>2, <1>3 DEF McpHistory, McpGone
  <1>13. McpKept'
    BY <1>1, <1>2, <1>3, <1>11 DEF McpHistory, McpKept
  <1>14. McpTold'
    <2> SUFFICES ASSUME ~mcpMissed, NEW c \in mcpFlushed \ mcpAsked, c.kind # "install"
                 PROVE  /\ \A p \in mcpAsked' : p.kind = "list" => p.phase # "served"
                        /\ c.kind = "create" <=> c.id \in mcpListed.rows
                        /\ c.kind = "delete" => ~McpServed("create", c.id)'
      BY <1>1, <1>6 DEF McpTold
    <2>1. /\ \A p \in mcpAsked : p.kind = "list" => p.phase # "served"
          /\ c.kind = "create" <=> c.id \in mcpListed.rows
          /\ c.kind = "delete" => ~McpServed("create", c.id)
      BY DEF McpHistory, McpTold
    <2>2. c.id # r.id
      BY <1>1
    <2>3. QED
      BY <1>1, <1>2, <1>11, <2>1, <2>2
  <1>15. \A i : McpChanging(i) => McpChanging(i)'
    BY <1>3, <1>11 DEF McpChanging, ConnectorFlushed
  <1>16. \A rows : McpAgree(rows) => McpAgree(rows)'
    BY <1>1, <1>15 DEF McpAgree
  <1>17. McpSynced'
    <2>1. CASE mcpMissed
      BY <1>1, <2>1 DEF McpSynced
    <2>2. CASE ~mcpMissed /\ \E p \in mcpAsked : McpToRead(p)
      <3>1. \E p \in mcpAsked' : McpToRead(p)
        BY <1>1, <2>2 DEF McpToRead
      <3>2. QED
        BY <3>1 DEF McpSynced
    <2>3. CASE ~mcpMissed /\ ~\E p \in mcpAsked : McpToRead(p)
      <3>1. /\ \A c \in mcpFlushed \ mcpAsked : c.kind # "install"
            /\ \A p \in mcpAsked : McpLastRead(p) => McpAgree(p.answer)
            /\ (\A p \in mcpAsked : ~McpLastRead(p)) => McpAgree(mcpListed.rows)
        BY <2>3 DEF McpHistory, McpSynced
      <3>2. \A p : McpLastRead(p) => (p \in mcpAsked <=> p \in mcpAsked')
        BY <1>1, <1>2 DEF McpLastRead
      <3>3. (\A p \in mcpAsked' : ~McpLastRead(p)) => McpAgree(mcpListed.rows)'
        BY <1>1, <1>15, <3>1, <3>2 DEF McpAgree
      <3>4. QED
        BY <1>6, <1>16, <3>1, <3>2, <3>3 DEF McpSynced, McpLastRead
    <2>4. QED
      BY <2>1, <2>2, <2>3
  <1>18. QED
    BY <1>4, <1>8, <1>10, <1>12, <1>13, <1>14, <1>17 DEF McpHistory

LEMMA McpCommits ==
  ASSUME McpCardsListed, NEW c \in mcpFlushed, McpCommit(c)
  PROVE  McpCardsListed'
  <1> USE DEF McpCardsListed, mcpPage, mcpDialogs
  <1>1. /\ mcpFlushed' = mcpFlushed \ {c}
        /\ UNCHANGED <<mcpListed, mcpEditing, mcpConfirm, mcpAsked, mcpUsed, mcpClicks,
                       mcpMissed>>
    BY DEF McpCommit
  <1>2. /\ c \in McpRequests /\ c.kind \in {"create", "install", "delete"}
        /\ c.phase = "served" /\ c.id \in AnyConnector
    BY DEF McpTypes, McpChange, McpRequests
  <1>3. \/ Makes(c) /\ c.kind # "delete" /\ mcpStored' = mcpStored \cup {c.id}
        \/ ~Makes(c) /\ c.kind = "delete" /\ mcpStored' = mcpStored \ {c.id}
    BY <1>2 DEF McpCommit, Makes
  <1>4. McpTypes'
    BY <1>1, <1>2, <1>3 DEF McpTypes
  <1>5. /\ McpToCome' \subseteq McpToCome
        /\ Makes(c) => McpToCome' = McpToCome \ {c} /\ c \in McpToCome
    BY <1>1, <1>2 DEF McpToCome
  <1>6. \A i : KnownConnector(i) => KnownConnector(i)'
    BY <1>1, <1>5 DEF KnownConnector
  <1>7. Makes(c) => KnownConnector(c.id)'
    BY <1>1, <1>5 DEF KnownConnector, McpFresh
  <1>8. \A i : SeenConnector(i) => SeenConnector(i)'
    BY <1>1, <1>6, <1>7 DEF SeenConnector, Makes
  <1>9. \A x \in mcpStored' : KnownConnector(x)'
    BY <1>3, <1>6, <1>7 DEF McpFresh
  <1>10. (mcpConfirm # NoConnector => SeenConnector(mcpConfirm))'
    BY <1>1, <1>8 DEF McpFresh
  <1>11. McpFresh'
    BY <1>1, <1>5, <1>6, <1>8, <1>9, <1>10 DEF McpFresh
  <1>12. McpOrdered'
    BY <1>1, <1>6, <1>7, <1>8 DEF McpOrdered, Makes
  <1>13. McpGone'
    <2> SUFFICES ASSUME NEW r \in mcpAsked, r \notin mcpFlushed', r.kind = "delete",
                        r.phase = "served", r.id \in mcpStored'
                 PROVE  FALSE
      BY <1>1 DEF McpGone
    <2>1. CASE r = c
      BY <1>3, <2>1
    <2>2. CASE r # c
      <3>1. r.id \notin mcpStored
        BY <1>1, <2>2 DEF McpHistory, McpGone
      <3>2. Makes(c) /\ c.id = r.id
        BY <1>3, <3>1
      <3>3. QED
        BY <1>5, <3>2 DEF McpOrdered, KnownConnector
    <2>3. QED
      BY <2>1, <2>2
  <1>14. \A k, i : McpServed(k, i)' <=> McpServed(k, i)
    BY <1>1 DEF McpServed
  <1>15. McpTold'
    BY <1>1, <1>14 DEF McpHistory, McpTold
  <1>16. McpKept'
    <2> SUFFICES ASSUME ~mcpMissed, NEW p \in mcpAsked, p \notin mcpFlushed',
                        p.kind = "create", p.phase = "served"
                 PROVE  p.id \in mcpStored' \/ McpServed("delete", p.id)
      BY <1>1, <1>14 DEF McpKept
    <2>1. CASE p = c
      BY <1>3, <2>1 DEF Makes
    <2>2. CASE p # c
      <3>1. p.id \in mcpStored \/ McpServed("delete", p.id)
        BY <1>1, <2>2 DEF McpHistory, McpKept
      <3>2. CASE c.kind = "delete" /\ c.id = p.id
        <4>1. c \in mcpAsked
          BY <3>2 DEF McpHistory, McpTold, McpServed
        <4>2. QED
          BY <1>2, <3>2, <4>1 DEF McpServed
      <3>3. CASE ~(c.kind = "delete" /\ c.id = p.id)
        BY <1>3, <3>1, <3>3
      <3>4. QED
        BY <3>2, <3>3
    <2>3. QED
      BY <2>1, <2>2
  \* A list that shows the change, or that the answer will bring up to date.
  <1>17. ASSUME NEW rows, McpAgree(rows),
                \/ c \in mcpAsked /\ c.kind # "install"
                \/ c.kind = "create" /\ c.id \in rows
                \/ c.kind = "delete" /\ c.id \notin rows
         PROVE  McpAgree(rows)'
    <2> SUFFICES ASSUME NEW x \in (rows \ mcpStored') \cup (mcpStored' \ rows)
                 PROVE  McpChanging(x)'
      BY DEF McpAgree
    <2>1. CASE x = c.id
      <3>1. c \in mcpAsked /\ c.kind # "install"
        BY <1>3, <1>17, <2>1
      <3>2. QED
        BY <1>1, <1>2, <2>1, <3>1 DEF McpChanging, McpServed
    <2>2. CASE x # c.id
      <3>1. McpChanging(x)
        BY <1>3, <1>17, <2>2 DEF McpAgree
      <3>2. QED
        BY <1>1, <1>14, <2>2, <3>1 DEF McpChanging, ConnectorFlushed
    <2>3. QED
      BY <2>1, <2>2
  <1>18. McpSynced'
    <2>1. CASE mcpMissed \/ \E r \in mcpAsked : McpToRead(r)
      BY <1>1, <2>1 DEF McpSynced
    <2>2. CASE ~mcpMissed /\ \A r \in mcpAsked : ~McpToRead(r)
      <3>1. /\ \A d \in mcpFlushed \ mcpAsked : d.kind # "install"
            /\ \A r \in mcpAsked : McpLastRead(r) => McpAgree(r.answer)
            /\ (\A r \in mcpAsked : ~McpLastRead(r)) => McpAgree(mcpListed.rows)
        BY <2>2 DEF McpHistory, McpSynced
      <3>2. c.kind # "install"
        BY <1>2, <2>2, <3>1 DEF McpToRead
      <3>3. CASE c \in mcpAsked
        <4>1. \A rows : McpAgree(rows) => McpAgree(rows)'
          BY <1>17, <3>2, <3>3
        <4>2. (\A r \in mcpAsked' : ~McpLastRead(r)) => McpAgree(mcpListed.rows)'
          <5>1. SUFFICES ASSUME \A r \in mcpAsked : ~McpLastRead(r)
                         PROVE  McpAgree(mcpListed.rows)'
            BY <1>1
          <5>2. McpAgree(mcpListed.rows)
            BY <3>1, <5>1
          <5>3. ASSUME NEW rows, rows = mcpListed.rows PROVE McpAgree(rows)'
            BY <4>1, <5>2, <5>3
          <5>4. QED
            BY <1>1, <5>3 DEF McpAgree
        <4>3. QED
          BY <1>1, <3>1, <4>1, <4>2 DEF McpSynced
      <3>4. CASE c \notin mcpAsked
        <4>1. /\ \A r \in mcpAsked : r.kind = "list" => r.phase # "served"
              /\ c.kind = "create" <=> c.id \in mcpListed.rows
          BY <2>2, <3>2, <3>4 DEF McpHistory, McpTold
        <4>2. \A r \in mcpAsked : ~McpLastRead(r)
          BY <4>1 DEF McpLastRead
        <4>3. McpAgree(mcpListed.rows)
          BY <3>1, <4>2
        <4>4. ASSUME NEW rows, rows = mcpListed.rows PROVE McpAgree(rows)'
          BY <1>2, <1>17, <3>2, <4>1, <4>3, <4>4
        <4>5. McpAgree(mcpListed.rows)'
          BY <1>1, <4>4 DEF McpAgree
        <4>6. QED
          BY <1>1, <3>1, <4>2, <4>5 DEF McpSynced
      <3>5. QED
        BY <3>3, <3>4
    <2>3. QED
      BY <2>1, <2>2
  <1>19. QED
    BY <1>4, <1>11, <1>12, <1>13, <1>15, <1>16, <1>18 DEF McpHistory

\* A request that is over, or whose answer makes the page ask for a list or the
\* tools of what is listed.
LEMMA McpEnds ==
  ASSUME McpCardsListed, NEW r \in mcpAsked,
         mcpAsked \ {r} \subseteq mcpAsked', mcpAsked' \subseteq McpRequests,
         \A q \in mcpAsked' :
             \/ q \in mcpAsked \ {r}
             \/ /\ q.kind = "tools" \/ (q.kind = "list" /\ q.phase = "sent" /\ ~q.old)
                /\ q.answer = r.answer,
         mcpListed' \in [rows : SUBSET AnyConnector, loading : BOOLEAN],
         \A x \in mcpListed'.rows :
             \/ x \in mcpListed.rows
             \/ x \in r.answer
             \/ x = r.id /\ r.kind = "create" /\ r.phase = "served",
         mcpEditing' \in AnyConnector, mcpConfirm' \in {mcpConfirm, NoConnector},
         UNCHANGED <<mcpServer, mcpClicks>>
  PROVE  /\ McpTypes' /\ McpFresh' /\ McpOrdered' /\ McpGone'
         /\ \A k, i : (McpServed(k, i) /\ (k # r.kind \/ i # r.id)) => McpServed(k, i)'
         /\ \A k, i : McpServed(k, i)' => (McpServed(k, i) \/ k = "tools")
         /\ mcpFlushed' = mcpFlushed
         /\ \A c \in mcpFlushed : c \in mcpAsked' <=> c \in mcpAsked \ {r}
  <1> USE DEF McpCardsListed, mcpServer
  <1>1. McpTypes'
    BY DEF McpTypes, AnyConnector
  <1>2. McpToCome' \subseteq McpToCome
    BY DEF McpToCome, Makes
  <1>3. \A c \in mcpFlushed : c \in mcpAsked' <=> c \in mcpAsked \ {r}
    BY DEF McpTypes, McpChange
  <1>4. \A i : KnownConnector(i) => KnownConnector(i)'
    BY <1>2 DEF KnownConnector
  <1>5. \A i : SeenConnector(i) => SeenConnector(i)'
    BY <1>3, <1>4 DEF SeenConnector
  <1>6. (r.kind = "create" /\ r.phase = "served") => SeenConnector(r.id)'
    BY <1>3, <1>4 DEF McpOrdered, SeenConnector
  <1>7. \A x \in mcpListed'.rows : SeenConnector(x)'
    <2>1. \A x \in r.answer : SeenConnector(x)'
      BY <1>4 DEF McpFresh, SeenConnector
    <2>2. QED
      BY <1>5, <1>6, <2>1 DEF McpFresh
  <1>8. (mcpConfirm # NoConnector => SeenConnector(mcpConfirm))'
    BY <1>5 DEF McpFresh
  <1>9. McpFresh'
    BY <1>2, <1>4, <1>7, <1>8 DEF McpFresh
  <1>10. McpOrdered'
    BY <1>4, <1>5 DEF McpOrdered
  <1>11. McpGone'
    BY DEF McpHistory, McpGone
  <1>12. \A k, i : (McpServed(k, i) /\ (k # r.kind \/ i # r.id)) => McpServed(k, i)'
    BY DEF McpServed
  <1>13. \A k, i : McpServed(k, i)' => (McpServed(k, i) \/ k = "tools")
    BY DEF McpServed
  <1>14. QED
    BY <1>1, <1>3, <1>9, <1>10, <1>11, <1>12, <1>13

LEMMA McpListStep == McpCardsListed /\ [McpPageNext]_mcpVars => McpCardsListed'
  <1>1. SUFFICES ASSUME McpCardsListed, [McpPageNext]_mcpVars PROVE McpCardsListed'
    OBVIOUS
  <1> USE DEF mcpPage, mcpDialogs
  <1>2. /\ mcpListed \in [rows : SUBSET AnyConnector, loading : BOOLEAN]
        /\ mcpEditing \in AnyConnector /\ mcpConfirm \in AnyConnector
        /\ mcpAsked \subseteq McpRequests /\ mcpClicks \in Nat
        /\ \A r \in mcpAsked : r.old => r.kind \in {"list", "tools"}
        /\ \A c \in mcpFlushed : McpChange(c)
    BY <1>1 DEF McpCardsListed, McpTypes
  <1>3. CASE OpenAdd \/ HandleInstall \/ CancelMcpDialog \/ CloseMcpConfirm
             \/ UNCHANGED mcpVars
    <2>1. /\ UNCHANGED <<mcpListed, mcpAsked, mcpServer, mcpMissed>> /\ mcpClicks' \in Nat
          /\ mcpEditing' \in {mcpEditing, NoConnector}
          /\ mcpConfirm' \in {mcpConfirm, NoConnector}
      BY <1>2, <1>3 DEF OpenAdd, HandleInstall, CancelMcpDialog, CloseMcpConfirm, McpClick,
                        mcpVars
    <2>2. QED
      BY <1>1, <1>2, <2>1, McpClicks DEF AnyConnector
  <1>4. ASSUME NEW c \in Connectors, HandleEditConnector(c) \/ HandleDeleteConnector(c)
        PROVE  McpCardsListed'
    <2>1. /\ UNCHANGED <<mcpListed, mcpAsked, mcpServer, mcpMissed>> /\ mcpClicks' \in Nat
          /\ mcpEditing' \in {mcpEditing, c} /\ mcpConfirm' \in {mcpConfirm, c}
          /\ c \in mcpListed.rows
      BY <1>2, <1>4 DEF HandleEditConnector, HandleDeleteConnector, McpClick, McpCards
    <2>2. QED
      BY <1>1, <1>2, <2>1, McpClicks DEF AnyConnector
  <1>5. ASSUME NEW kind \in {"create", "install"}, McpClick, AskForConnector(kind),
               UNCHANGED <<mcpPage, mcpStored, mcpFlushed, mcpMissed>>
        PROVE  McpCardsListed'
    <2>1. PICK c \in Connectors \ mcpUsed : McpAsk(kind, c) /\ mcpUsed' = mcpUsed \cup {c}
      BY <1>5 DEF AskForConnector
    <2>2. QED
      BY <1>1, <1>5, <2>1, McpAsks DEF AnyConnector
  <1>6. CASE HandleAdd
    <2>1. CASE McpAsk("update", mcpEditing) /\ UNCHANGED mcpUsed
      BY <1>1, <1>2, <1>6, <2>1, McpAsks DEF HandleAdd
    <2>2. CASE AskForConnector("create")
      BY <1>5, <1>6, <2>2 DEF HandleAdd
    <2>3. QED
      BY <1>6, <2>1, <2>2 DEF HandleAdd
  <1>7. CASE HandleInstallSubmit
    BY <1>5, <1>7 DEF HandleInstallSubmit
  <1>8. CASE ConfirmDeleteConnector
    <2>1. SeenConnector(mcpConfirm)
      BY <1>1, <1>8 DEF ConfirmDeleteConnector, McpCardsListed, McpFresh
    <2>2. QED
      BY <1>1, <1>2, <1>8, <2>1, McpAsks DEF ConfirmDeleteConnector, mcpServer
  <1>9. ASSUME NEW c \in Connectors, HandleTest(c) PROVE McpCardsListed'
    BY <1>1, <1>9, McpAsks DEF HandleTest, mcpServer, AnyConnector
  <1>10. ASSUME NEW r \in mcpAsked, McpServeList(r) \/ McpServe(r) PROVE McpCardsListed'
    BY <1>1, <1>10, McpReads, McpServes
  <1>11. ASSUME NEW c \in mcpFlushed, McpCommit(c) PROVE McpCardsListed'
    BY <1>1, <1>11, McpCommits
  <1>12. ASSUME NEW r \in mcpAsked, FinishListConnectors(r) PROVE McpCardsListed'
    <2> DEFINE q == [r EXCEPT !.kind = "tools", !.phase = "sent"]
    <2>1. /\ mcpAsked' = (mcpAsked \ {r}) \cup {q} /\ UNCHANGED <<mcpServer, mcpClicks>>
          /\ mcpListed' = [rows |-> r.answer, loading |-> mcpListed.loading]
          /\ UNCHANGED mcpDialogs
          /\ r.kind = "list" /\ r.phase = "served"
      BY <1>2, <1>12 DEF FinishListConnectors, McpAnswered
    <2>2. /\ q \in McpRequests /\ q.kind = "tools" /\ q.phase = "sent"
          /\ q.answer = r.answer /\ r.answer \subseteq AnyConnector
      BY <1>2 DEF McpRequests, McpKinds
    <2> HIDE DEF q
    <2>3. /\ McpTypes' /\ McpFresh' /\ McpOrdered' /\ McpGone' /\ mcpFlushed' = mcpFlushed
          /\ \A c \in mcpFlushed : c \in mcpAsked' <=> c \in mcpAsked \ {r}
      BY <1>1, <1>2, <2>1, <2>2, McpEnds
    <2>4. CASE mcpMissed \/ r.old
      <3>1. mcpMissed'
        BY <1>12, <2>4 DEF FinishListConnectors
      <3>2. QED
        BY <2>3, <3>1 DEF McpCardsListed, McpHistory, McpKept, McpTold, McpSynced
    <2>5. CASE ~mcpMissed /\ ~r.old
      <3>1. \A k, i : k # "list" => (McpServed(k, i)' <=> McpServed(k, i))
        BY <2>1, <2>2 DEF McpServed
      <3>2. mcpFlushed' \ mcpAsked' = mcpFlushed \ mcpAsked
        BY <1>2, <2>1, <2>3 DEF McpChange
      <3>3. McpKept'
        BY <1>1, <2>1, <2>2, <2>5, <3>1 DEF McpCardsListed, McpHistory, McpKept, mcpServer
      <3>4. \A c \in mcpFlushed \ mcpAsked : c.kind = "install"
        BY <1>1, <2>1, <2>5 DEF McpCardsListed, McpHistory, McpTold
      <3>5. McpTold'
        BY <3>2, <3>4 DEF McpTold
      <3>6. \A rows : McpAgree(rows) => McpAgree(rows)'
        BY <2>1, <3>1 DEF McpAgree, McpChanging, ConnectorFlushed, mcpServer
      <3>7. CASE \E p \in mcpAsked : McpToRead(p)
        <4>1. \E p \in mcpAsked' : McpToRead(p)
          BY <2>1, <3>7 DEF McpToRead
        <4>2. QED
          BY <2>3, <3>3, <3>5, <4>1 DEF McpCardsListed, McpHistory, McpSynced
      <3>8. CASE ~\E p \in mcpAsked : McpToRead(p)
        <4>1. /\ \A c \in mcpFlushed \ mcpAsked : c.kind # "install"
              /\ \A p \in mcpAsked : McpLastRead(p) => McpAgree(p.answer)
          BY <1>1, <2>5, <3>8 DEF McpCardsListed, McpHistory, McpSynced
        <4>2. McpAgree(r.answer)' /\ mcpListed'.rows = r.answer
          BY <2>1, <2>5, <3>6, <4>1 DEF McpLastRead
        <4>3. McpAgree(mcpListed.rows)'
          BY <4>2 DEF McpAgree
        <4>4. McpSynced'
          BY <2>1, <2>2, <3>2, <3>6, <4>1, <4>3 DEF McpSynced, McpLastRead
        <4>5. QED
          BY <2>3, <3>3, <3>5, <4>4 DEF McpCardsListed, McpHistory
      <3>9. QED
        BY <3>7, <3>8
    <2>6. QED
      BY <2>4, <2>5
  \* Tools that have come, an edit or a test that is over, a request that fails
  \* before it is served.
  <1>13. ASSUME NEW r \in mcpAsked, mcpAsked' = mcpAsked \ {r}, r.kind # "list", ~McpChange(r),
                mcpListed' \in [rows : SUBSET AnyConnector, loading : BOOLEAN],
                mcpListed'.rows = mcpListed.rows,
                mcpEditing' \in AnyConnector, mcpConfirm' \in {mcpConfirm, NoConnector},
                mcpMissed => mcpMissed', UNCHANGED <<mcpServer, mcpClicks>>
         PROVE  McpCardsListed'
    <2>1. McpTypes' /\ McpFresh' /\ McpOrdered'
      BY <1>1, <1>2, <1>13, McpEnds
    <2>2. McpHistory'
      BY <1>1, <1>13, McpHistoryKept DEF McpCardsListed, mcpServer
    <2>3. QED
      BY <2>1, <2>2 DEF McpCardsListed
  <1>14. ASSUME NEW r \in mcpAsked, FinishTools(r) PROVE McpCardsListed'
    BY <1>2, <1>13, <1>14 DEF FinishTools, McpOver, McpChange
  <1>15. ASSUME NEW r \in mcpAsked, FinishTest(r) PROVE McpCardsListed'
    BY <1>2, <1>13, <1>15 DEF FinishTest, McpOver, McpAnswered, McpChange
  <1>16. ASSUME NEW r \in mcpAsked, FinishAdd(r), r.kind = "update" PROVE McpCardsListed'
    BY <1>2, <1>13, <1>16 DEF FinishAdd, McpOver, McpAnswered, McpChange, AnyConnector
  <1>17. ASSUME NEW r \in mcpAsked, FinishAdd(r), r.kind = "create" PROVE McpCardsListed'
    <2>1. /\ mcpAsked' = mcpAsked \ {r} /\ UNCHANGED <<mcpServer, mcpClicks>>
          /\ mcpEditing' = NoConnector /\ mcpConfirm' = mcpConfirm /\ r.phase = "served"
          /\ mcpListed' = [rows |-> mcpListed.rows \cup {r.id}, loading |-> mcpListed.loading]
          /\ r.id \in AnyConnector
      BY <1>2, <1>17 DEF FinishAdd, McpOver, McpAnswered, McpRequests
    <2>2. /\ McpTypes' /\ McpFresh' /\ McpOrdered' /\ McpGone' /\ mcpFlushed' = mcpFlushed
          /\ \A k, i : (McpServed(k, i) /\ (k # r.kind \/ i # r.id)) => McpServed(k, i)'
          /\ \A k, i : McpServed(k, i)' => (McpServed(k, i) \/ k = "tools")
          /\ \A c \in mcpFlushed : c \in mcpAsked' <=> c \in mcpAsked \ {r}
      BY <1>1, <1>2, <1>17, <2>1, McpEnds DEF AnyConnector
    <2>3. CASE mcpMissed \/ ListOnItsWay
      <3>1. mcpMissed'
        BY <1>17, <2>3 DEF FinishAdd, McpAnswered
      <3>2. QED
        BY <2>2, <3>1 DEF McpCardsListed, McpHistory, McpKept, McpTold, McpSynced
    <2>4. CASE ~mcpMissed /\ ~ListOnItsWay
      <3>1. McpKept'
        BY <1>1, <1>17, <2>1, <2>2, <2>4
           DEF McpCardsListed, McpHistory, McpKept, mcpServer
      <3>2. \A c \in mcpFlushed : c.kind = "delete" => c.id # r.id \/ c \in mcpAsked
        BY <1>1, <1>17, <2>1, <2>4 DEF McpCardsListed, McpHistory, McpTold, McpServed
      <3>3. McpTold'
        <4> SUFFICES ASSUME NEW c \in mcpFlushed, c \notin mcpAsked', c.kind # "install"
                     PROVE  /\ c.kind = "create" <=> c.id \in mcpListed'.rows
                            /\ c.kind = "delete" => ~McpServed("create", c.id)'
          BY <2>1, <2>2, <2>4 DEF McpTold, ListOnItsWay
        <4>1. CASE c = r
          BY <1>17, <2>1, <4>1
        <4>2. CASE c # r
          <5>1. /\ c \notin mcpAsked
                /\ c.kind = "create" <=> c.id \in mcpListed.rows
                /\ c.kind = "delete" => ~McpServed("create", c.id)
            BY <1>1, <2>2, <2>4, <4>2 DEF McpCardsListed, McpHistory, McpTold
          <5>2. c.kind \in {"create", "delete"}
            BY <1>2 DEF McpChange
          <5>3. QED
            BY <2>1, <2>2, <3>2, <5>1, <5>2
        <4>3. QED
          BY <4>1, <4>2
      <3>4. CASE \E p \in mcpAsked : McpToRead(p)
        <4>1. \E p \in mcpAsked' : McpToRead(p)
          BY <1>17, <2>1, <3>4 DEF McpToRead
        <4>2. QED
          BY <2>2, <3>1, <3>3, <4>1 DEF McpCardsListed, McpHistory, McpSynced
      <3>5. CASE ~\E p \in mcpAsked : McpToRead(p)
        <4>1. /\ \A c \in mcpFlushed \ mcpAsked : c.kind # "install"
              /\ McpAgree(mcpListed.rows)
          BY <1>1, <2>4, <3>5
             DEF McpCardsListed, McpHistory, McpSynced, McpLastRead, ListOnItsWay
        <4>2. McpAgree(mcpListed.rows)'
          <5> SUFFICES ASSUME NEW x \in (mcpListed'.rows \ mcpStored)
                                          \cup (mcpStored \ mcpListed'.rows)
                       PROVE  McpChanging(x)'
            BY <2>1 DEF McpAgree, mcpServer
          <5>1. CASE x = r.id
            <6>1. r \in mcpFlushed \/ McpServed("delete", r.id)
              BY <1>1, <1>17, <2>1, <2>4, <5>1
                 DEF McpCardsListed, McpHistory, McpKept
            <6>2. QED
              BY <1>17, <2>2, <5>1, <6>1 DEF McpChanging, ConnectorFlushed
          <5>2. CASE x # r.id
            <6>1. McpChanging(x)
              BY <2>1, <4>1, <5>2 DEF McpAgree
            <6>2. QED
              BY <2>2, <5>2, <6>1 DEF McpChanging, ConnectorFlushed
          <5>3. QED
            BY <5>1, <5>2
        <4>3. \A p \in mcpAsked' : ~McpLastRead(p)
          BY <2>1, <2>4 DEF McpLastRead, ListOnItsWay
        <4>4. \A c \in mcpFlushed' \ mcpAsked' : c.kind # "install"
          BY <1>17, <2>2, <4>1
        <4>5. McpSynced'
          BY <4>2, <4>3, <4>4 DEF McpSynced, McpLastRead
        <4>6. QED
          BY <2>2, <3>1, <3>3, <4>5 DEF McpCardsListed, McpHistory
      <3>6. QED
        BY <3>4, <3>5
    <2>5. QED
      BY <2>3, <2>4
  <1>18. ASSUME NEW r \in mcpAsked, FinishInstall(r) PROVE McpCardsListed'
    <2> DEFINE q == [r EXCEPT !.kind = "list", !.phase = "sent"]
    <2>1. /\ mcpAsked' = (mcpAsked \ {r}) \cup {q} /\ UNCHANGED <<mcpServer, mcpClicks>>
          /\ mcpListed' = [rows |-> mcpListed.rows, loading |-> TRUE]
          /\ UNCHANGED <<mcpEditing, mcpConfirm>> /\ mcpMissed' = mcpMissed
          /\ r.kind = "install" /\ r.phase = "served"
      BY <1>2, <1>18 DEF FinishInstall, McpAnswered
    <2>2. /\ q \in McpRequests /\ q.kind = "list" /\ q.phase = "sent" /\ ~q.old
          /\ q.answer = r.answer
      BY <1>2, <2>1 DEF McpRequests, McpKinds
    <2> HIDE DEF q
    <2>3. /\ McpTypes' /\ McpFresh' /\ McpOrdered' /\ McpGone' /\ mcpFlushed' = mcpFlushed
          /\ \A c \in mcpFlushed : c \in mcpAsked' <=> c \in mcpAsked \ {r}
      BY <1>1, <1>2, <2>1, <2>2, McpEnds
    <2>4. \A k, i : k # "install" => (McpServed(k, i)' <=> McpServed(k, i))
      BY <2>1, <2>2 DEF McpServed
    <2>5. McpKept'
      BY <1>1, <2>1, <2>2, <2>4 DEF McpCardsListed, McpHistory, McpKept, mcpServer
    <2>6. McpTold'
      BY <1>1, <2>1, <2>2, <2>3, <2>4 DEF McpCardsListed, McpHistory, McpTold
    <2>7. McpSynced'
      BY <2>1, <2>2 DEF McpSynced, McpToRead
    <2>8. QED
      BY <2>3, <2>5, <2>6, <2>7 DEF McpCardsListed, McpHistory
  <1>19. ASSUME NEW r \in mcpAsked, FinishDeleteConnector(r) PROVE McpCardsListed'
    <2>1. /\ mcpAsked' = mcpAsked \ {r} /\ UNCHANGED <<mcpServer, mcpClicks>>
          /\ mcpListed' = [rows |-> mcpListed.rows \ {r.id}, loading |-> mcpListed.loading]
          /\ r.kind = "delete" /\ r.phase = "served"
          /\ mcpEditing' = mcpEditing /\ mcpConfirm' \in {mcpConfirm, NoConnector}
      BY <1>2, <1>19 DEF FinishDeleteConnector, McpAnswered, McpOver
    <2>2. /\ McpTypes' /\ McpFresh' /\ McpOrdered' /\ McpGone' /\ mcpFlushed' = mcpFlushed
          /\ \A k, i : (McpServed(k, i) /\ (k # r.kind \/ i # r.id)) => McpServed(k, i)'
          /\ \A k, i : McpServed(k, i)' => (McpServed(k, i) \/ k = "tools")
          /\ \A c \in mcpFlushed : c \in mcpAsked' <=> c \in mcpAsked \ {r}
      BY <1>1, <1>2, <2>1, McpEnds
    <2>3. CASE mcpMissed \/ ListOnItsWay \/ AddUnanswered(r.id)
      <3>1. mcpMissed'
        BY <1>19, <2>3 DEF FinishDeleteConnector
      <3>2. QED
        BY <2>2, <3>1 DEF McpCardsListed, McpHistory, McpKept, McpTold, McpSynced
    <2>4. CASE ~mcpMissed /\ ~ListOnItsWay /\ ~AddUnanswered(r.id)
      <3>1. McpKept'
        BY <1>1, <2>1, <2>2, <2>4
           DEF McpCardsListed, McpHistory, McpKept, AddUnanswered, mcpServer
      <3>2. \A c \in mcpFlushed : c.kind = "create" => c.id # r.id
        BY <1>1, <2>1 DEF McpCardsListed, McpOrdered, KnownConnector, McpToCome, Makes
      <3>3. McpTold'
        <4> SUFFICES ASSUME NEW c \in mcpFlushed, c \notin mcpAsked', c.kind # "install"
                     PROVE  /\ c.kind = "create" <=> c.id \in mcpListed'.rows
                            /\ c.kind = "delete" => ~McpServed("create", c.id)'
          BY <2>1, <2>2, <2>4 DEF McpTold, ListOnItsWay
        <4>1. CASE c = r
          BY <2>1, <2>2, <2>4, <4>1 DEF AddUnanswered, McpServed
        <4>2. CASE c # r
          <5>1. /\ c \notin mcpAsked
                /\ c.kind = "create" <=> c.id \in mcpListed.rows
                /\ c.kind = "delete" => ~McpServed("create", c.id)
            BY <1>1, <2>2, <2>4, <4>2 DEF McpCardsListed, McpHistory, McpTold
          <5>2. QED
            BY <2>1, <2>2, <3>2, <5>1
        <4>3. QED
          BY <4>1, <4>2
      <3>4. CASE \E p \in mcpAsked : McpToRead(p)
        <4>1. \E p \in mcpAsked' : McpToRead(p)
          BY <2>1, <3>4 DEF McpToRead
        <4>2. QED
          BY <2>2, <3>1, <3>3, <4>1 DEF McpCardsListed, McpHistory, McpSynced
      <3>5. CASE ~\E p \in mcpAsked : McpToRead(p)
        <4>1. /\ \A c \in mcpFlushed \ mcpAsked : c.kind # "install"
              /\ McpAgree(mcpListed.rows)
          BY <1>1, <2>4, <3>5
             DEF McpCardsListed, McpHistory, McpSynced, McpLastRead, ListOnItsWay
        <4>2. McpAgree(mcpListed.rows)'
          <5> SUFFICES ASSUME NEW x \in (mcpListed'.rows \ mcpStored)
                                          \cup (mcpStored \ mcpListed'.rows)
                       PROVE  McpChanging(x)'
            BY <2>1 DEF McpAgree, mcpServer
          <5>1. CASE x = r.id
            <6>1. r \in mcpFlushed
              BY <1>1, <2>1, <5>1 DEF McpCardsListed, McpHistory, McpGone
            <6>2. QED
              BY <2>2, <5>1, <6>1 DEF McpChanging, ConnectorFlushed
          <5>2. CASE x # r.id
            <6>1. McpChanging(x)
              BY <2>1, <4>1, <5>2 DEF McpAgree
            <6>2. QED
              BY <2>2, <5>2, <6>1 DEF McpChanging, ConnectorFlushed
          <5>3. QED
            BY <5>1, <5>2
        <4>3. \A p \in mcpAsked' : ~McpLastRead(p)
          BY <2>1, <2>4 DEF McpLastRead, ListOnItsWay
        <4>4. \A c \in mcpFlushed' \ mcpAsked' : c.kind # "install"
          BY <2>1, <2>2, <4>1
        <4>5. McpSynced'
          BY <4>2, <4>3, <4>4 DEF McpSynced, McpLastRead
        <4>6. QED
          BY <2>2, <3>1, <3>3, <4>5 DEF McpCardsListed, McpHistory
      <3>6. QED
        BY <3>4, <3>5
    <2>5. QED
      BY <2>3, <2>4
  <1>20. ASSUME NEW r \in mcpAsked, FailMcpRequest(r) PROVE McpCardsListed'
    <2>1. /\ mcpAsked' = mcpAsked \ {r} /\ UNCHANGED <<mcpServer, mcpClicks>>
          /\ mcpListed' \in [rows : SUBSET AnyConnector, loading : BOOLEAN]
          /\ mcpListed'.rows = mcpListed.rows
          /\ mcpEditing' = mcpEditing /\ mcpConfirm' \in {mcpConfirm, NoConnector}
          /\ mcpMissed => mcpMissed'
      BY <1>2, <1>20 DEF FailMcpRequest, McpOver
    <2>2. CASE r.kind = "list" \/ r.phase = "served"
      <3>1. mcpMissed'
        BY <1>20, <2>2 DEF FailMcpRequest
      <3>2. McpTypes' /\ McpFresh' /\ McpOrdered' /\ McpGone'
        BY <1>1, <1>2, <2>1, McpEnds
      <3>3. QED
        BY <3>1, <3>2 DEF McpCardsListed, McpHistory, McpKept, McpTold, McpSynced
    <2>3. CASE ~(r.kind = "list" \/ r.phase = "served")
      BY <1>2, <1>13, <2>1, <2>3 DEF McpChange
    <2>4. QED
      BY <2>2, <2>3
  <1>21. QED
    BY <1>1, <1>3, <1>4, <1>6, <1>7, <1>8, <1>9, <1>10, <1>11, <1>12, <1>14, <1>15, <1>16,
       <1>17, <1>18, <1>19, <1>20 DEF McpPageNext, FinishAdd, McpAnswered

-----------------------------------------------------------------------------
(* WorkflowEditor.  A row may differ from the server's entry only until    *)
(* the answer to a deletion, a save or a creation is handled.              *)

RowTrue(x) == x.id \in wfStored /\ x.graph = wfGraph[x.id]

WfToCome(i) == \E c \in wfCreates : c.phase = "sent" /\ c.id = i

WfGiven(i) == i \in wfUsed /\ ~WfToCome(i)

WfCreated(i) == \E c \in wfCreates : c.phase = "served" /\ c.id = i

WfDeleted(i) == \E q \in wfDeletes : q.phase = "served" /\ q.id = i

WfSaved(i) == wfSave.phase = "served" /\ wfSave.id = i

WfShown(i) == \E x \in wfListed : x.id = i

WfFresh ==
    /\ \A i \in wfStored : WfGiven(i)
    /\ \A x \in wfListed : WfGiven(x.id)
    /\ \A x \in wfLoad.answer : WfGiven(x.id)
    /\ wfSave # NoSave => WfGiven(wfSave.id)
    /\ \A q \in wfDeletes : WfGiven(q.id)
    /\ \A q \in wfCreates : q.id \in wfUsed
    /\ \A q, c \in wfCreates : q.id = c.id => q = c

WfGone == \A i \in wfStored : ~WfDeleted(i)

WfWritten == wfSave.phase = "served" => wfGraph[wfSave.id] = wfSave.graph

WfKnown ==
    ~wfMissed /\ wfSave # NoSave => WfShown(wfSave.id) \/ wfSave.id \notin wfStored

\* A workflow whose creation is not answered is as it was made, or its deletion
\* or the save of its graph is not answered either.
WfNew ==
    ~wfMissed => \A c \in wfCreates : c.phase = "served" =>
        \/ WfDeleted(c.id)
        \/ c.id \in wfStored /\ (wfGraph[c.id] = EmptyGraph \/ WfSaved(c.id))

\* Until the list has come there are no rows, and nothing is asked about one.
WfBlank ==
    ~wfMissed /\ wfLoad.phase # "over" =>
        wfListed = {} /\ wfDeletes = {} /\ wfSave = NoSave

WfAgree(rows) ==
    /\ \A x \in rows :
          RowTrue(x) \/ WfDeleted(x.id) \/ (WfSaved(x.id) /\ x.id \in wfStored)
    /\ \A i \in wfStored :
          Entry(i, wfGraph[i]) \in rows \/ WfSaved(i) \/ WfCreated(i)

WfSynced ==
    ~wfMissed => /\ wfLoad.phase = "served" => WfAgree(wfLoad.answer)
                 /\ wfLoad.phase = "over" => WfAgree(wfListed)

WfHistory == WfNew /\ WfBlank /\ WfSynced

WfRows ==
    wfDeletes \subseteq Deletes /\ WfFresh /\ WfGone /\ WfWritten /\ WfKnown /\ WfHistory

LEMMA WfListStarts == WorkflowInit => WfRows
  BY DEF WorkflowInit, WfRows, WfFresh, WfGone, WfWritten, WfKnown, WfHistory, WfNew,
         WfBlank, WfSynced, WfGiven, WfToCome, WfDeleted, NoSave

LEMMA WfEntries ==
  ASSUME WfInv
  PROVE  /\ \A x \in StoredEntries : x.id \in wfStored /\ x = Entry(x.id, wfGraph[x.id])
         /\ \A i \in wfStored : Entry(i, wfGraph[i]) \in StoredEntries
         /\ \A x \in Entries : RowTrue(x) => x \in StoredEntries
  <1>1. \A x \in Entries : x = Entry(x.id, x.graph)
    BY DEF Entries, Entry
  <1>2. QED
    BY <1>1 DEF StoredEntries, Entry, RowTrue

\* A step on the canvas or in a dialog, and the selection of a workflow.
LEMMA WfDrawing ==
  ASSUME WfRows,
         UNCHANGED <<wfListed, wfLoad, wfSave, wfCreates, wfDeletes, wfServer, wfMissed>>
  PROVE  WfRows'
  <1> USE DEF wfServer
  <1>1. /\ \A i : WfGiven(i) <=> WfGiven(i)'
        /\ \A i : WfCreated(i) <=> WfCreated(i)'
        /\ \A i : WfDeleted(i) <=> WfDeleted(i)'
        /\ \A i : WfSaved(i) <=> WfSaved(i)'
        /\ \A i : WfShown(i) <=> WfShown(i)'
        /\ \A x : RowTrue(x) <=> RowTrue(x)'
    BY DEF WfGiven, WfToCome, WfCreated, WfDeleted, WfSaved, WfShown, RowTrue
  <1>2. wfDeletes' \subseteq Deletes
    BY DEF WfRows, Deletes
  <1>3. WfFresh'
    BY <1>1 DEF WfRows, WfFresh, NoSave, EmptyGraph
  <1>4. WfGone' /\ WfWritten'
    BY <1>1 DEF WfRows, WfGone, WfWritten
  <1>5. WfKnown'
    BY <1>1 DEF WfRows, WfKnown, NoSave, EmptyGraph
  <1>6. WfNew' /\ WfBlank'
    BY <1>1 DEF WfRows, WfHistory, WfNew, WfBlank, NoSave, EmptyGraph
  <1>7. WfSynced'
    BY <1>1 DEF WfRows, WfHistory, WfSynced, WfAgree, Entry
  <1>8. QED
    BY <1>2, <1>3, <1>4, <1>5, <1>6, <1>7 DEF WfRows, WfHistory

LEMMA WfLoading ==
  ASSUME WfInv, WfRows, ServeLoad \/ FinishLoad \/ FailLoad
  PROVE  WfRows'
  <1> USE DEF wfServer, wfPage
  <1>1. UNCHANGED <<wfSave, wfCreates, wfDeletes, wfServer>>
    BY DEF ServeLoad, FinishLoad, FailLoad
  <1>2. /\ \A i : WfGiven(i) <=> WfGiven(i)'
        /\ \A i : WfCreated(i) <=> WfCreated(i)'
        /\ \A i : WfDeleted(i) <=> WfDeleted(i)'
        /\ \A i : WfSaved(i) <=> WfSaved(i)'
        /\ \A x : RowTrue(x) <=> RowTrue(x)'
    BY <1>1 DEF WfGiven, WfToCome, WfCreated, WfDeleted, WfSaved, RowTrue
  <1>3. wfLoad \in Loads /\ wfListed' \subseteq wfListed \cup wfLoad.answer
          /\ wfLoad'.answer \subseteq wfLoad.answer \cup StoredEntries
    BY DEF ServeLoad, FinishLoad, FailLoad, WfInv, WfTypes, Loads
  <1>4. WfFresh'
    BY <1>1, <1>2, <1>3, WfEntries DEF WfRows, WfFresh, NoSave, EmptyGraph
  <1>5. WfGone' /\ WfWritten' /\ wfDeletes' \subseteq Deletes
    BY <1>1, <1>2 DEF WfRows, WfGone, WfWritten, Deletes
  <1>6. CASE ServeLoad
    <2>1. /\ wfListed' = wfListed /\ wfMissed' = wfMissed /\ wfLoad.phase # "over"
          /\ wfLoad'.phase = "served" /\ wfLoad'.answer = StoredEntries
      BY <1>6 DEF ServeLoad
    <2>2. WfKnown' /\ WfNew' /\ WfBlank'
      BY <1>1, <1>2, <2>1
         DEF WfRows, WfHistory, WfKnown, WfNew, WfBlank, WfShown, NoSave, EmptyGraph
    <2>3. ASSUME NEW x \in StoredEntries PROVE RowTrue(x)
      <3>1. x.id \in wfStored /\ x = Entry(x.id, wfGraph[x.id])
        BY <2>3, WfEntries
      <3>2. QED
        BY <3>1 DEF RowTrue, Entry
    <2>4. \A i \in wfStored : Entry(i, wfGraph[i]) \in StoredEntries
      BY WfEntries
    <2>5. WfAgree(wfLoad.answer)'
      BY <1>1, <1>2, <2>1, <2>3, <2>4 DEF WfAgree, Entry
    <2>6. WfSynced'
      BY <2>1, <2>5 DEF WfSynced
    <2>7. QED
      BY <1>4, <1>5, <2>2, <2>6 DEF WfRows, WfHistory
  <1>7. CASE FinishLoad
    <2>1. /\ wfListed' = wfLoad.answer /\ wfMissed' = wfMissed
          /\ wfLoad.phase = "served" /\ wfLoad'.phase = "over"
      BY <1>7 DEF FinishLoad, WfInv, WfTypes, Loads
    <2>2. WfKnown' /\ WfNew' /\ WfBlank'
      BY <1>1, <1>2, <2>1
         DEF WfRows, WfHistory, WfKnown, WfNew, WfBlank, NoSave, EmptyGraph
    <2>3. ~wfMissed => WfAgree(wfListed)'
      BY <1>1, <1>2, <2>1 DEF WfRows, WfHistory, WfSynced, WfAgree, Entry
    <2>4. WfSynced'
      BY <2>1, <2>3 DEF WfSynced
    <2>5. QED
      BY <1>4, <1>5, <2>2, <2>4 DEF WfRows, WfHistory
  <1>8. CASE FailLoad
    <2>1. WfKnown' /\ WfHistory'
      BY <1>8 DEF FailLoad, WfKnown, WfHistory, WfNew, WfBlank, WfSynced
    <2>2. QED
      BY <1>4, <1>5, <2>1 DEF WfRows
  <1>9. QED
    BY <1>6, <1>7, <1>8

\* Asking for a workflow: its id is new.
LEMMA WfAsks ==
  ASSUME WfInv, WfRows, NEW w \in Workflows, HandleCreate(w)
  PROVE  WfRows'
  <1> DEFINE q == [phase |-> "sent", id |-> w]
  <1>1. /\ UNCHANGED <<wfListed, wfLoad, wfSave, wfDeletes, wfStored, wfGraph, wfMissed>>
        /\ wfCreates' = wfCreates \cup {q} /\ wfUsed' = wfUsed \cup {w} /\ w \notin wfUsed
    BY DEF HandleCreate, wfPage
  <1>2. q.phase = "sent" /\ q.id = w
    OBVIOUS
  <1> HIDE DEF q
  <1>3. /\ \A i : WfGiven(i) => WfGiven(i)'
        /\ \A i : WfCreated(i) <=> WfCreated(i)'
        /\ \A i : WfDeleted(i) <=> WfDeleted(i)'
        /\ \A i : WfSaved(i) <=> WfSaved(i)'
        /\ \A i : WfShown(i) <=> WfShown(i)'
        /\ \A x : RowTrue(x) <=> RowTrue(x)'
    BY <1>1, <1>2 DEF WfGiven, WfToCome, WfCreated, WfDeleted, WfSaved, WfShown, RowTrue
  <1>4. WfFresh'
    BY <1>1, <1>2, <1>3 DEF WfRows, WfFresh, NoSave, EmptyGraph
  <1>5. WfGone' /\ WfWritten' /\ wfDeletes' \subseteq Deletes
    BY <1>1, <1>3 DEF WfRows, WfGone, WfWritten, Deletes
  <1>6. WfKnown'
    BY <1>1, <1>3 DEF WfRows, WfKnown, NoSave, EmptyGraph
  <1>7. WfNew' /\ WfBlank'
    BY <1>1, <1>2, <1>3 DEF WfRows, WfHistory, WfNew, WfBlank, NoSave, EmptyGraph
  <1>8. WfSynced'
    BY <1>1, <1>3 DEF WfRows, WfHistory, WfSynced, WfAgree, Entry
  <1>9. QED
    BY <1>4, <1>5, <1>6, <1>7, <1>8 DEF WfRows, WfHistory

\* The server makes it: nothing on the page has its id yet.
LEMMA WfMakes ==
  ASSUME WfInv, WfRows, NEW r \in wfCreates, ServeCreate(r)
  PROVE  WfRows'
  <1> DEFINE q == [r EXCEPT !.phase = "served"]
  <1>1. /\ UNCHANGED <<wfListed, wfLoad, wfSave, wfDeletes, wfUsed, wfMissed>>
        /\ wfCreates' = (wfCreates \ {r}) \cup {q} /\ wfStored' = wfStored \cup {r.id}
        /\ wfGraph' = [wfGraph EXCEPT ![r.id] = EmptyGraph] /\ r.phase = "sent"
    BY DEF ServeCreate, wfPage
  <1>2. r \in Creates /\ wfGraph \in [Workflows -> Graphs] /\ wfStored \subseteq Workflows
    BY DEF WfInv, WfTypes
  <1>3. q.phase = "served" /\ q.id = r.id /\ r.id \in Workflows
    BY <1>2 DEF Creates
  <1> HIDE DEF q
  <1>4. wfGraph'[r.id] = EmptyGraph
          /\ \A i \in Workflows \ {r.id} : wfGraph'[i] = wfGraph[i]
    BY <1>1, <1>2, <1>3
  <1>5. ~WfGiven(r.id) /\ r.id \in wfUsed
          /\ \A c \in wfCreates : c.id = r.id => c = r
    BY <1>1 DEF WfRows, WfFresh, WfGiven, WfToCome
  <1>6. /\ \A i : WfGiven(i) => WfGiven(i)'
        /\ \A i : WfCreated(i) => WfCreated(i)'
        /\ \A i : WfDeleted(i) <=> WfDeleted(i)'
        /\ \A i : WfSaved(i) <=> WfSaved(i)'
        /\ \A i : WfShown(i) <=> WfShown(i)'
        /\ WfGiven(r.id)' /\ WfCreated(r.id)'
    BY <1>1, <1>3, <1>5
       DEF WfGiven, WfToCome, WfCreated, WfDeleted, WfSaved, WfShown
  <1>7. WfFresh'
    <2>1. \A i \in wfStored' : WfGiven(i)'
      BY <1>1, <1>6 DEF WfRows, WfFresh
    <2>2. /\ \A c \in wfCreates' : c.id \in wfUsed'
          /\ \A c, d \in wfCreates' : c.id = d.id => c = d
      BY <1>1, <1>3, <1>5 DEF WfRows, WfFresh
    <2>3. QED
      BY <1>1, <1>6, <2>1, <2>2 DEF WfRows, WfFresh, NoSave, EmptyGraph
  <1>8. ~WfDeleted(r.id) /\ ~WfShown(r.id) /\ ~WfSaved(r.id)
    BY <1>5 DEF WfRows, WfFresh, WfDeleted, WfShown, WfSaved, NoSave
  <1>9. WfGone' /\ wfDeletes' \subseteq Deletes
    BY <1>1, <1>6, <1>8 DEF WfRows, WfGone, Deletes
  <1>10. WfWritten'
    <2>1. wfSave.phase = "served" => wfSave.id \in Workflows \ {r.id}
      BY <1>8 DEF WfSaved, WfInv, SaveOwn, NoSave
    <2>2. QED
      BY <1>1, <1>4, <2>1 DEF WfRows, WfWritten
  <1>11. WfKnown'
    BY <1>1, <1>5, <1>6 DEF WfRows, WfKnown, WfFresh, NoSave, EmptyGraph
  <1>12. WfNew'
    <2> SUFFICES ASSUME ~wfMissed, NEW c \in wfCreates', c.phase = "served"
                 PROVE  \/ WfDeleted(c.id)'
                        \/ /\ c.id \in wfStored'
                           /\ wfGraph'[c.id] = EmptyGraph \/ WfSaved(c.id)'
      BY <1>1 DEF WfNew
    <2>1. CASE c = q
      BY <1>1, <1>3, <1>4, <2>1
    <2>2. CASE c # q
      <3>1. c \in wfCreates /\ c.id # r.id /\ c.id \in Workflows
        BY <1>1, <1>5, <2>2 DEF WfInv, WfTypes, Creates
      <3>2. \/ WfDeleted(c.id)
            \/ c.id \in wfStored /\ (wfGraph[c.id] = EmptyGraph \/ WfSaved(c.id))
        BY <3>1 DEF WfRows, WfHistory, WfNew
      <3>3. QED
        BY <1>1, <1>4, <1>6, <3>1, <3>2
    <2>3. QED
      BY <2>1, <2>2
  <1>13. WfBlank'
    BY <1>1 DEF WfRows, WfHistory, WfBlank, NoSave, EmptyGraph
  <1>14. ASSUME NEW rows, WfAgree(rows), \A x \in rows : x.id # r.id
         PROVE  WfAgree(rows)'
    <2>1. ASSUME NEW x \in rows
          PROVE  (RowTrue(x) \/ WfDeleted(x.id) \/ (WfSaved(x.id) /\ x.id \in wfStored))'
      <3>1. RowTrue(x) => RowTrue(x)'
        BY <1>1, <1>2, <1>4, <1>14 DEF RowTrue
      <3>2. QED
        BY <1>1, <1>6, <1>14, <2>1, <3>1 DEF WfAgree
    <2>2. ASSUME NEW i \in wfStored'
          PROVE  (Entry(i, wfGraph[i]) \in rows \/ WfSaved(i) \/ WfCreated(i))'
      <3>1. CASE i = r.id
        BY <1>6, <3>1
      <3>2. CASE i # r.id
        BY <1>1, <1>2, <1>4, <1>6, <1>14, <2>2, <3>2 DEF WfAgree, Entry
      <3>3. QED
        BY <3>1, <3>2
    <2>3. QED
      BY <2>1, <2>2 DEF WfAgree
  <1>15. /\ \A x \in wfListed : x.id # r.id
         /\ \A x \in wfLoad.answer : x.id # r.id
    BY <1>5 DEF WfRows, WfFresh
  <1>16. WfSynced'
    <2>1. ASSUME NEW rows, rows \in {wfListed, wfLoad.answer}, WfAgree(rows)
          PROVE  WfAgree(rows)'
      BY <1>14, <1>15, <2>1
    <2>2. QED
      BY <1>1, <2>1 DEF WfRows, WfHistory, WfSynced, WfAgree
  <1>17. QED
    BY <1>7, <1>9, <1>10, <1>11, <1>12, <1>13, <1>16 DEF WfRows, WfHistory

\* The answer is handled, or lost.
LEMMA WfMade ==
  ASSUME WfInv, WfRows, NEW r \in wfCreates, FinishCreate(r) \/ FailCreate(r)
  PROVE  WfRows'
  <1> DEFINE e == Entry(r.id, EmptyGraph)
  <1>1. /\ UNCHANGED <<wfLoad, wfSave, wfDeletes, wfServer>> /\ wfCreates' = wfCreates \ {r}
        /\ wfListed' \subseteq wfListed \cup {e} /\ wfListed \subseteq wfListed'
        /\ r.phase # "sent" \/ wfListed' = wfListed
    BY DEF FinishCreate, FailCreate, wfPage
  <1>2. e.id = r.id /\ e.graph = EmptyGraph
    BY DEF Entry
  <1>3. r \in Creates /\ \A c \in wfCreates : c.id = r.id => c = r
    BY DEF WfInv, WfTypes, WfRows, WfFresh
  <1>4. /\ \A i : WfGiven(i) => WfGiven(i)'
        /\ \A i : WfCreated(i) /\ i # r.id => WfCreated(i)'
        /\ \A i : WfDeleted(i) <=> WfDeleted(i)'
        /\ \A i : WfSaved(i) <=> WfSaved(i)'
        /\ \A x : RowTrue(x) <=> RowTrue(x)'
        /\ \A i : WfShown(i) => WfShown(i)'
    BY <1>1 DEF wfServer, WfGiven, WfToCome, WfCreated, WfDeleted, WfSaved, RowTrue, WfShown
  <1>5. WfFresh'
    <2>1. r.phase # "sent" => WfGiven(r.id)
      BY <1>3 DEF WfRows, WfFresh, WfGiven, WfToCome
    <2>2. \A x \in wfListed' : WfGiven(x.id)'
      BY <1>1, <1>2, <1>4, <2>1 DEF WfRows, WfFresh
    <2>3. QED
      BY <1>1, <1>4, <2>2 DEF wfServer, WfRows, WfFresh, NoSave, EmptyGraph
  <1>6. WfGone' /\ WfWritten' /\ wfDeletes' \subseteq Deletes
    BY <1>1, <1>4 DEF wfServer, WfRows, WfGone, WfWritten, Deletes
  <1>7. ~wfMissed' => ~wfMissed
    BY DEF FinishCreate, FailCreate
  <1>8. WfKnown'
    BY <1>1, <1>4, <1>7 DEF wfServer, WfRows, WfKnown, NoSave, EmptyGraph
  <1>9. WfNew' /\ (wfLoad.phase = "over" \/ wfMissed' \/ FailCreate(r) => WfBlank')
    <2>1. WfNew'
      BY <1>1, <1>4, <1>7 DEF wfServer, WfRows, WfHistory, WfNew
    <2>2. FailCreate(r) => wfListed' = wfListed
      BY DEF FailCreate, wfPage
    <2>3. QED
      BY <1>1, <1>7, <2>1, <2>2 DEF WfRows, WfHistory, WfBlank, NoSave, EmptyGraph
  <1>10. CASE FinishCreate(r)
    <2>1. /\ wfListed' = wfListed \cup {e} /\ r.phase = "served"
          /\ wfLoad.phase # "over" => wfMissed'
      BY <1>10 DEF FinishCreate
    <2> HIDE DEF e
    <2>2. ASSUME ~wfMissed' PROVE WfAgree(wfListed)'
      <3>1. /\ WfAgree(wfListed)
            /\ \/ WfDeleted(r.id)
               \/ r.id \in wfStored /\ (wfGraph[r.id] = EmptyGraph \/ WfSaved(r.id))
        BY <1>7, <2>1, <2>2 DEF WfRows, WfHistory, WfNew, WfSynced
      <3>2. RowTrue(e) \/ WfDeleted(e.id) \/ (WfSaved(e.id) /\ e.id \in wfStored)
        BY <1>2, <3>1 DEF RowTrue
      <3>3. \A x \in wfListed' :
               (RowTrue(x) \/ WfDeleted(x.id) \/ (WfSaved(x.id) /\ x.id \in wfStored))'
        BY <1>1, <1>4, <2>1, <3>1, <3>2 DEF wfServer, WfAgree
      <3>4. ASSUME NEW i \in wfStored
            PROVE  (Entry(i, wfGraph[i]) \in wfListed \/ WfSaved(i) \/ WfCreated(i))'
        <4>1. Entry(i, wfGraph[i])' = Entry(i, wfGraph[i])
          BY <1>1 DEF wfServer, Entry
        <4>2. CASE i = r.id
          <5>1. wfGraph[i] = EmptyGraph \/ WfSaved(i)
            BY <3>1, <3>4, <4>2 DEF WfRows, WfGone
          <5>2. wfGraph[i] = EmptyGraph => Entry(i, wfGraph[i]) = e
            BY <4>2 DEF e
          <5>3. QED
            BY <1>4, <2>1, <4>1, <5>1, <5>2
        <4>3. CASE i # r.id
          BY <1>4, <2>1, <3>1, <3>4, <4>1, <4>3 DEF WfAgree
        <4>4. QED
          BY <4>2, <4>3
      <3>5. QED
        BY <1>1, <3>3, <3>4 DEF wfServer, WfAgree
    <2>3. WfSynced' /\ WfBlank'
      BY <1>1, <1>9, <2>1, <2>2 DEF WfSynced
    <2>4. QED
      BY <1>5, <1>6, <1>8, <1>9, <2>3 DEF WfRows, WfHistory
  <1>11. CASE FailCreate(r)
    <2>1. wfListed' = wfListed /\ (~wfMissed' => r.phase # "served")
      BY <1>11 DEF FailCreate, wfPage
    <2>2. ~wfMissed' => \A i : WfCreated(i) => WfCreated(i)'
      BY <1>1, <2>1 DEF WfCreated
    <2>3. ASSUME ~wfMissed', NEW rows, WfAgree(rows) PROVE WfAgree(rows)'
      BY <1>1, <1>4, <2>2, <2>3 DEF wfServer, WfAgree, Entry
    <2>4. WfSynced'
      BY <1>1, <1>7, <2>1, <2>3 DEF WfRows, WfHistory, WfSynced, WfAgree
    <2>5. QED
      BY <1>5, <1>6, <1>8, <1>9, <1>11, <2>4 DEF WfRows, WfHistory
  <1>12. QED
    BY <1>10, <1>11

LEMMA WfDeletesAsked ==
  ASSUME WfInv, WfRows, NEW x \in wfListed, HandleDelete(x)
  PROVE  WfRows'
  <1> DEFINE q == [phase |-> "sent", id |-> x.id, selected |-> selectedId]
  <1>1. /\ UNCHANGED <<wfListed, wfLoad, wfSave, wfCreates, wfServer, wfMissed>>
        /\ wfDeletes' = wfDeletes \cup {q}
    BY DEF HandleDelete, wfPage
  <1>2. q \in Deletes /\ q.id = x.id /\ q.phase = "sent" /\ WfGiven(x.id)
    BY DEF WfRows, WfFresh, WfInv, WfTypes, Entries, Deletes
  <1> HIDE DEF q
  <1>3. /\ \A i : WfGiven(i) => WfGiven(i)'
        /\ \A i : WfCreated(i) <=> WfCreated(i)'
        /\ \A i : WfDeleted(i) <=> WfDeleted(i)'
        /\ \A i : WfSaved(i) <=> WfSaved(i)'
        /\ \A i : WfShown(i) <=> WfShown(i)'
        /\ \A y : RowTrue(y) <=> RowTrue(y)'
    BY <1>1, <1>2 DEF wfServer, WfGiven, WfToCome, WfCreated, WfDeleted, WfSaved, WfShown,
                      RowTrue
  <1>4. WfFresh'
    BY <1>1, <1>2, <1>3 DEF wfServer, WfRows, WfFresh, NoSave, EmptyGraph
  <1>5. WfGone' /\ WfWritten' /\ wfDeletes' \subseteq Deletes'
    BY <1>1, <1>2, <1>3 DEF wfServer, WfRows, WfGone, WfWritten, Deletes
  <1>6. WfKnown'
    BY <1>1, <1>3 DEF wfServer, WfRows, WfKnown, NoSave, EmptyGraph
  <1>7. WfNew' /\ WfBlank'
    BY <1>1, <1>3
       DEF wfServer, WfRows, WfHistory, WfNew, WfBlank, HandleDelete, ListShown
  <1>8. WfSynced'
    BY <1>1, <1>3 DEF wfServer, WfRows, WfHistory, WfSynced, WfAgree, Entry
  <1>9. QED
    BY <1>4, <1>5, <1>6, <1>7, <1>8 DEF WfRows, WfHistory

LEMMA WfDeletesServed ==
  ASSUME WfInv, WfRows, NEW r \in wfDeletes, ServeDelete(r)
  PROVE  WfRows'
  <1> DEFINE q == [r EXCEPT !.phase = "served"]
  <1>1. /\ UNCHANGED <<wfListed, wfLoad, wfSave, wfCreates, wfGraph, wfUsed, wfMissed>>
        /\ wfDeletes' = (wfDeletes \ {r}) \cup {q} /\ wfStored' = wfStored \ {r.id}
        /\ r.phase = "sent"
    BY DEF ServeDelete, wfPage
  <1>2. q \in Deletes /\ q.id = r.id /\ q.phase = "served"
    BY DEF WfRows, Deletes
  <1> HIDE DEF q
  <1>3. /\ \A i : WfGiven(i) => WfGiven(i)'
        /\ \A i : WfCreated(i) <=> WfCreated(i)'
        /\ \A i : WfDeleted(i)' <=> WfDeleted(i) \/ i = r.id
        /\ \A i : WfSaved(i) <=> WfSaved(i)'
        /\ \A i : WfShown(i) <=> WfShown(i)'
        /\ \A y : RowTrue(y)' <=> RowTrue(y) /\ y.id # r.id
    BY <1>1, <1>2 DEF WfGiven, WfToCome, WfCreated, WfDeleted, WfSaved, WfShown, RowTrue
  <1>4. WfFresh'
    BY <1>1, <1>2, <1>3 DEF WfRows, WfFresh, NoSave, EmptyGraph
  <1>5. WfGone' /\ WfWritten' /\ wfDeletes' \subseteq Deletes'
    BY <1>1, <1>2, <1>3 DEF WfRows, WfGone, WfWritten, Deletes
  <1>6. WfKnown'
    BY <1>1, <1>3 DEF WfRows, WfKnown, NoSave, EmptyGraph
  <1>7. WfNew' /\ WfBlank'
    BY <1>1, <1>3 DEF WfRows, WfHistory, WfNew, WfBlank, NoSave, EmptyGraph
  <1>8. \A rows : WfAgree(rows) => WfAgree(rows)'
    BY <1>1, <1>3 DEF WfAgree, Entry
  <1>9. WfSynced'
    BY <1>1, <1>8 DEF WfRows, WfHistory, WfSynced, WfAgree
  <1>10. QED
    BY <1>4, <1>5, <1>6, <1>7, <1>9 DEF WfRows, WfHistory

LEMMA WfDeletesOver ==
  ASSUME WfInv, WfRows, NEW r \in wfDeletes, FinishDelete(r) \/ FailDelete(r)
  PROVE  WfRows'
  <1>1. /\ UNCHANGED <<wfLoad, wfSave, wfCreates, wfServer>> /\ wfDeletes' = wfDeletes \ {r}
        /\ wfListed' \subseteq wfListed /\ (~wfMissed' => ~wfMissed)
    <2>1. CASE FinishDelete(r)
      BY <2>1 DEF FinishDelete
    <2>2. CASE FailDelete(r)
      BY <2>2 DEF FailDelete, wfPage
    <2>3. QED
      BY <2>1, <2>2
  <1>2. /\ \A i : WfGiven(i) => WfGiven(i)'
        /\ \A i : WfCreated(i) <=> WfCreated(i)'
        /\ \A i : i # r.id => (WfDeleted(i) <=> WfDeleted(i)')
        /\ \A i : WfDeleted(i)' => WfDeleted(i)
        /\ \A i : WfSaved(i) <=> WfSaved(i)'
        /\ \A i : WfShown(i)' => WfShown(i)
        /\ \A y : RowTrue(y)' <=> RowTrue(y)
    BY <1>1 DEF wfServer, WfGiven, WfToCome, WfCreated, WfDeleted, WfSaved, WfShown, RowTrue
  <1>3. WfFresh'
    BY <1>1, <1>2 DEF wfServer, WfRows, WfFresh, NoSave, EmptyGraph
  <1>4. WfGone' /\ WfWritten' /\ wfDeletes' \subseteq Deletes'
    BY <1>1, <1>2 DEF wfServer, WfRows, WfGone, WfWritten, Deletes
  <1>5. WfBlank'
    BY <1>1 DEF WfRows, WfHistory, WfBlank, NoSave, EmptyGraph
  <1>6. CASE FinishDelete(r)
    <2>1. /\ wfListed' = {x \in wfListed : x.id # r.id}
          /\ ~wfMissed' => \A c \in wfCreates : c.id # r.id
          /\ WfDeleted(r.id)
      BY <1>6 DEF FinishDelete, WfDeleted, CreateUnanswered
    <2>2. r.id \notin wfStored
      BY <2>1 DEF WfRows, WfGone
    <2>3. \A i \in wfStored : WfShown(i) <=> WfShown(i)'
      BY <2>1, <2>2 DEF WfShown
    <2>4. WfKnown'
      BY <1>1, <2>1, <2>3 DEF wfServer, WfRows, WfKnown, NoSave, EmptyGraph
    <2>5. WfNew'
      BY <1>1, <1>2, <2>1 DEF wfServer, WfRows, WfHistory, WfNew
    <2>6. ASSUME NEW i \in wfStored, WfAgree(wfListed)
          PROVE  (Entry(i, wfGraph[i]) \in wfListed \/ WfSaved(i) \/ WfCreated(i))'
      <3>1. Entry(i, wfGraph[i])' = Entry(i, wfGraph[i]) /\ Entry(i, wfGraph[i]).id = i
        BY <1>1 DEF wfServer, Entry
      <3>2. QED
        BY <1>2, <2>1, <2>2, <2>6, <3>1 DEF WfAgree
    <2>7. WfAgree(wfListed) => WfAgree(wfListed)'
      BY <1>1, <1>2, <2>1, <2>6 DEF wfServer, WfAgree
    <2>8. wfMissed' \/ wfLoad.phase = "over"
      BY <1>1 DEF WfRows, WfHistory, WfBlank
    <2>9. WfSynced'
      BY <1>1, <2>7, <2>8 DEF WfRows, WfHistory, WfSynced
    <2>10. QED
      BY <1>3, <1>4, <1>5, <2>4, <2>5, <2>9 DEF WfRows, WfHistory
  <1>7. CASE FailDelete(r)
    <2>1. ASSUME ~wfMissed' PROVE WfKnown' /\ WfNew' /\ WfSynced'
      <3>1. r.phase # "served" /\ wfListed' = wfListed
        BY <1>7, <2>1 DEF FailDelete, wfPage
      <3>2. (\A i : WfDeleted(i) <=> WfDeleted(i)') /\ \A i : WfShown(i) <=> WfShown(i)'
        BY <1>1, <3>1 DEF WfDeleted, WfShown
      <3>3. WfKnown' /\ WfNew'
        BY <1>1, <1>2, <2>1, <3>2
           DEF wfServer, WfRows, WfHistory, WfKnown, WfNew, NoSave, EmptyGraph
      <3>4. \A rows : WfAgree(rows) => WfAgree(rows)'
        BY <1>1, <1>2, <3>2 DEF wfServer, WfAgree, Entry
      <3>5. QED
        BY <1>1, <2>1, <3>1, <3>3, <3>4 DEF WfRows, WfHistory, WfSynced, WfAgree
    <2>2. QED
      BY <1>3, <1>4, <1>5, <2>1 DEF WfRows, WfHistory, WfKnown, WfNew, WfSynced
  <1>8. QED
    BY <1>6, <1>7

LEMMA WfSaveAsked ==
  ASSUME WfInv, WfRows, HandleSave
  PROVE  WfRows'
  <1>1. /\ UNCHANGED <<wfListed, wfLoad, wfCreates, wfDeletes, wfServer, wfMissed>>
        /\ wfSave.phase = "none" /\ wfSave'.phase = "sent" /\ wfSave'.id = selectedId
    BY DEF HandleSave, wfPage, NoSave
  <1>2. /\ \A i : WfGiven(i) <=> WfGiven(i)'
        /\ \A i : WfCreated(i) <=> WfCreated(i)'
        /\ \A i : WfDeleted(i) <=> WfDeleted(i)'
        /\ \A i : WfSaved(i) <=> WfSaved(i)'
        /\ \A i : WfShown(i) <=> WfShown(i)'
        /\ \A x : RowTrue(x) <=> RowTrue(x)'
    BY <1>1 DEF wfServer, WfGiven, WfToCome, WfCreated, WfDeleted, WfSaved, WfShown, RowTrue
  <1>3. PICK x \in wfListed : x.id = selectedId
    BY DEF HandleSave, EditorShown
  <1>4. WfFresh'
    BY <1>1, <1>2, <1>3 DEF wfServer, WfRows, WfFresh
  <1>5. WfGone' /\ WfWritten' /\ wfDeletes' \subseteq Deletes'
    BY <1>1, <1>2 DEF wfServer, WfRows, WfGone, WfWritten, Deletes
  <1>6. WfKnown'
    BY <1>1, <1>3 DEF WfKnown, WfShown
  <1>7. WfNew' /\ WfBlank'
    BY <1>1, <1>2, <1>3 DEF wfServer, WfRows, WfHistory, WfNew, WfBlank
  <1>8. WfSynced'
    BY <1>1, <1>2 DEF wfServer, WfRows, WfHistory, WfSynced, WfAgree, Entry
  <1>9. QED
    BY <1>4, <1>5, <1>6, <1>7, <1>8 DEF WfRows, WfHistory

LEMMA WfSaveServed ==
  ASSUME WfInv, WfRows, ServeSave
  PROVE  WfRows'
  <1>1. wfSave \in Saves /\ wfGraph \in [Workflows -> Graphs] /\ wfStored \subseteq Workflows
    BY DEF WfInv, WfTypes
  <1>2. /\ UNCHANGED <<wfListed, wfLoad, wfCreates, wfDeletes, wfStored, wfUsed, wfMissed>>
        /\ wfSave.phase = "sent" /\ wfSave # NoSave
        /\ wfSave'.phase = "served" /\ wfSave'.id = wfSave.id
        /\ wfSave'.graph = wfSave.graph
        /\ wfGraph' = [wfGraph EXCEPT ![wfSave.id] = wfSave.graph]
    BY <1>1 DEF ServeSave, wfPage, Saves, NoSave
  <1>3. wfGraph'[wfSave.id] = wfSave.graph
          /\ \A i \in Workflows \ {wfSave.id} : wfGraph'[i] = wfGraph[i]
    <2>1. wfSave.id \in Workflows
      BY <1>2 DEF WfInv, SaveOwn
    <2>2. QED
      BY <1>1, <1>2, <2>1
  <1>4. /\ \A i : WfGiven(i) <=> WfGiven(i)'
        /\ \A i : WfCreated(i) <=> WfCreated(i)'
        /\ \A i : WfDeleted(i) <=> WfDeleted(i)'
        /\ \A i : ~WfSaved(i)
        /\ \A i : WfSaved(i)' <=> i = wfSave.id
        /\ \A i : WfShown(i) <=> WfShown(i)'
        /\ \A x : RowTrue(x) /\ x.id # wfSave.id => RowTrue(x)'
    BY <1>1, <1>2, <1>3
       DEF WfGiven, WfToCome, WfCreated, WfDeleted, WfSaved, WfShown, RowTrue
  <1>5. WfFresh'
    BY <1>2, <1>4 DEF WfRows, WfFresh
  <1>6. WfGone' /\ WfWritten' /\ wfDeletes' \subseteq Deletes'
    BY <1>2, <1>3, <1>4 DEF WfRows, WfGone, WfWritten, Deletes
  <1>7. WfKnown'
    BY <1>2, <1>4 DEF WfRows, WfKnown
  <1>8. WfNew'
    <2> SUFFICES ASSUME ~wfMissed, NEW c \in wfCreates, c.phase = "served"
                 PROVE  \/ WfDeleted(c.id)'
                        \/ /\ c.id \in wfStored
                           /\ wfGraph'[c.id] = EmptyGraph \/ WfSaved(c.id)'
      BY <1>2 DEF WfNew
    <2>1. /\ c.id \in Workflows
          /\ \/ WfDeleted(c.id)
             \/ c.id \in wfStored /\ (wfGraph[c.id] = EmptyGraph \/ WfSaved(c.id))
      BY DEF WfRows, WfHistory, WfNew, WfInv, WfTypes, Creates
    <2>2. QED
      BY <1>3, <1>4, <2>1
  <1>9. WfBlank'
    BY <1>2 DEF WfRows, WfHistory, WfBlank
  <1>10. \A rows : WfAgree(rows) => WfAgree(rows)'
    <2>1. \A i \in wfStored \ {wfSave.id} :
             Entry(i, wfGraph[i])' = Entry(i, wfGraph[i])
      BY <1>1, <1>3 DEF Entry
    <2>2. \A x : RowTrue(x) => x.id \in wfStored
      BY DEF RowTrue
    <2>3. QED
      BY <1>2, <1>4, <2>1, <2>2 DEF WfAgree
  <1>11. WfSynced'
    BY <1>2, <1>10 DEF WfRows, WfHistory, WfSynced, WfAgree
  <1>12. QED
    BY <1>5, <1>6, <1>7, <1>8, <1>9, <1>11 DEF WfRows, WfHistory

\* The row takes the graph that was saved, if it is still listed.
LEMMA WfSaveOver ==
  ASSUME WfInv, WfRows, FinishSave \/ FailSave
  PROVE  WfRows'
  <1>1. /\ UNCHANGED <<wfLoad, wfCreates, wfDeletes, wfServer>> /\ wfSave' = NoSave
        /\ wfSave # NoSave /\ wfSave'.phase = "none" /\ (~wfMissed' => ~wfMissed)
        /\ wfMissed \/ wfLoad.phase = "over"
    <2>1. NoSave.phase = "none"
      BY DEF NoSave
    <2>2. /\ UNCHANGED <<wfLoad, wfCreates, wfDeletes, wfServer>> /\ wfSave' = NoSave
          /\ wfSave # NoSave /\ (~wfMissed' => ~wfMissed)
      <3>1. CASE FinishSave
        BY <2>1, <3>1 DEF FinishSave
      <3>2. CASE FailSave
        BY <3>2 DEF FailSave, wfPage
      <3>3. QED
        BY <3>1, <3>2
    <2>3. wfMissed \/ wfLoad.phase = "over"
      BY <2>2 DEF WfRows, WfHistory, WfBlank
    <2>4. QED
      BY <2>1, <2>2, <2>3
  <1>2. /\ \A i : WfGiven(i) <=> WfGiven(i)'
        /\ \A i : WfCreated(i) <=> WfCreated(i)'
        /\ \A i : WfDeleted(i) <=> WfDeleted(i)'
        /\ \A i : ~WfSaved(i)'
        /\ \A x : RowTrue(x) <=> RowTrue(x)'
    BY <1>1 DEF wfServer, WfGiven, WfToCome, WfCreated, WfDeleted, WfSaved, RowTrue
  <1>3. WfGone' /\ WfWritten' /\ WfKnown' /\ wfDeletes' \subseteq Deletes'
    BY <1>1, <1>2 DEF wfServer, WfRows, WfGone, WfWritten, WfKnown, Deletes, NoSave, EmptyGraph
  <1>b. WfBlank'
    BY <1>1 DEF WfBlank
  <1>4. CASE FinishSave
    <2> DEFINE i == wfSave.id
    <2> DEFINE e == Entry(i, wfSave.graph)
    <2> DEFINE now(x) == IF x.id = i THEN e ELSE x
    <2> DEFINE rows == {now(x) : x \in wfListed}
    <2>1. /\ wfListed' = rows /\ wfSave.phase = "served"
          /\ ~wfMissed' => \A c \in wfCreates : c.id # i
      BY <1>4 DEF FinishSave, ListedWith, CreateUnanswered
    <2>mapped. \A x \in wfListed : now(x) \in rows
      OBVIOUS
    <2>from. \A y \in rows : \E x \in wfListed : y = now(x)
      OBVIOUS
    <2>2. e.id = i /\ e.graph = wfSave.graph /\ wfGraph[i] = wfSave.graph
            /\ \A x : now(x).id = x.id
      BY <2>1 DEF Entry, WfRows, WfWritten
    <2>3. \A x : (x.id = i => now(x) = e) /\ (x.id # i => now(x) = x)
      OBVIOUS
    <2>i. i = wfSave.id
      OBVIOUS
    <2>e. e = Entry(i, wfGraph[i])
      BY <2>2
    <2> HIDE DEF rows, now, e, i
    <2>4. \A j : WfShown(j) <=> WfShown(j)'
      BY <2>1, <2>mapped, <2>from, <2>2 DEF WfShown
    <2>5. WfFresh'
      BY <1>1, <1>2, <2>1, <2>from, <2>2 DEF wfServer, WfRows, WfFresh
    <2>6. ASSUME ~wfMissed', ~wfMissed, WfAgree(wfListed) PROVE WfAgree(wfListed)'
      <3>1. ASSUME NEW y \in rows PROVE RowTrue(y) \/ WfDeleted(y.id)
        <4>1. PICK x \in wfListed : y = now(x)
          BY <2>from, <3>1
        <4>2. CASE x.id # i
          BY <2>3, <2>i, <2>6, <4>1, <4>2 DEF WfAgree, WfSaved
        <4>3. CASE x.id = i /\ i \in wfStored
          BY <2>2, <2>3, <4>1, <4>3 DEF RowTrue
        <4>4. CASE x.id = i /\ i \notin wfStored
          BY <2>2, <2>6, <4>1, <4>4 DEF WfAgree, RowTrue
        <4>5. QED
          BY <4>2, <4>3, <4>4
      <3>2. ASSUME NEW j \in wfStored
            PROVE  Entry(j, wfGraph[j]) \in rows \/ WfCreated(j)
        <4>1. CASE j = i
          <5>1. PICK x \in wfListed : x.id = i
            BY <1>1, <2>i, <2>6, <3>2, <4>1 DEF WfRows, WfKnown, WfShown
          <5>2. QED
            BY <2>mapped, <2>3, <2>e, <4>1, <5>1
        <4>2. CASE j # i
          <5>1. Entry(j, wfGraph[j]).id = j
            BY DEF Entry
          <5>2. QED
            BY <2>mapped, <2>3, <2>i, <2>6, <4>2, <5>1 DEF WfAgree, WfSaved
        <4>3. QED
          BY <4>1, <4>2
      <3>3. QED
        BY <1>1, <1>2, <2>1, <2>4, <3>1, <3>2 DEF wfServer, WfAgree, Entry
    <2>7. WfNew'
      BY <1>1, <1>2, <2>1, <2>i DEF wfServer, WfRows, WfHistory, WfNew, WfSaved
    <2>8. WfSynced'
      BY <1>1, <2>6 DEF WfRows, WfHistory, WfSynced
    <2>9. QED
      BY <1>3, <1>b, <2>5, <2>7, <2>8 DEF WfRows, WfHistory
  <1>5. CASE FailSave
    <2>1. wfListed' = wfListed /\ (~wfMissed' => wfSave.phase # "served")
      BY <1>5 DEF FailSave, wfPage
    <2>2. WfFresh'
      BY <1>1, <1>2, <2>1 DEF wfServer, WfRows, WfFresh
    <2>3. ASSUME ~wfMissed' PROVE WfNew' /\ WfSynced'
      <3>1. \A j : ~WfSaved(j)
        BY <2>1, <2>3 DEF WfSaved
      <3>2. WfNew'
        BY <1>1, <1>2, <2>3, <3>1 DEF wfServer, WfRows, WfHistory, WfNew
      <3>3. WfAgree(wfListed) => WfAgree(wfListed)'
        BY <1>1, <1>2, <2>1, <3>1 DEF wfServer, WfAgree, Entry
      <3>4. QED
        BY <1>1, <2>3, <3>2, <3>3 DEF WfRows, WfHistory, WfSynced
    <2>4. QED
      BY <1>3, <1>b, <2>2, <2>3 DEF WfRows, WfHistory, WfNew, WfSynced
  <1>6. QED
    BY <1>4, <1>5

LEMMA WfListStep == WfInv /\ WfRows /\ [WorkflowNext]_wfVars => WfRows'
  <1>1. SUFFICES ASSUME WfInv, WfRows, [WorkflowNext]_wfVars PROVE WfRows'
    OBVIOUS
  <1>2. CASE \/ OpenCreate \/ EditName \/ CancelCreate
             \/ OnPaneClick \/ HandleNodeDelete
             \/ OpenRun \/ HandleExecute \/ FinishExecute \/ CloseRun
    BY <1>1, <1>2, WfDrawing
       DEF OpenCreate, EditName, CancelCreate, OnPaneClick, HandleNodeDelete, EditCanvas,
           OpenRun, HandleExecute, FinishExecute, CloseRun, wfPage
  <1>3. ASSUME NEW m \in Nodes, NEW n \in Nodes, OnConnect(m, n) \/ OnDrop(n) \/ OnNodeClick(n)
        PROVE  WfRows'
    BY <1>1, <1>3, WfDrawing DEF OnConnect, OnDrop, OnNodeClick, EditCanvas
  <1>4. ASSUME NEW x \in wfListed, HandleSelect(x) PROVE WfRows'
    BY <1>1, <1>4, WfDrawing DEF HandleSelect
  <1>5. CASE ServeLoad \/ FinishLoad \/ FailLoad
    BY <1>1, <1>5, WfLoading
  <1>6. CASE UNCHANGED wfVars
    BY <1>1, <1>6, WfDrawing DEF wfVars, wfPage
  <1>7. QED
    BY <1>1, <1>2, <1>3, <1>4, <1>5, <1>6, WfAsks, WfMakes, WfMade, WfDeletesAsked,
       WfDeletesServed, WfDeletesOver, WfSaveAsked, WfSaveServed, WfSaveOver
       DEF WorkflowNext

LEMMA WorkflowListed == WfInv /\ WfRows => WorkflowListIsStored
  <1>1. SUFFICES ASSUME WfInv, WfRows, wfLoad.phase = "over", wfSave = NoSave,
                        wfCreates = {}, wfDeletes = {}, ~wfMissed
                 PROVE  wfListed = StoredEntries
    BY DEF WorkflowListIsStored
  <1>2. WfAgree(wfListed) /\ \A i : ~WfSaved(i) /\ ~WfCreated(i) /\ ~WfDeleted(i)
    BY <1>1 DEF WfRows, WfHistory, WfSynced, WfSaved, WfCreated, WfDeleted, NoSave
  <1>3. wfListed \subseteq StoredEntries
    BY <1>1, <1>2, WfEntries DEF WfAgree, WfInv, WfTypes
  <1>4. StoredEntries \subseteq wfListed
    BY <1>1, <1>2 DEF WfAgree, StoredEntries
  <1>5. QED
    BY <1>3, <1>4

-----------------------------------------------------------------------------
(* The client as a whole: a step of it is a step of one of these pages, or *)
(* leaves the page alone.                                                  *)

LEMMA ListsStart ==
  WebAppInit => /\ WorkflowInit /\ AgentsPageInit /\ McpPageInit
                /\ ApiKeysTabInit /\ TeamTabInit /\ PluginsPageInit
  BY DEF WebAppInit

LEMMA ListsSteps ==
  [WebAppNext]_webVars =>
      /\ [WorkflowNext]_wfVars /\ [AgentsPageNext]_agentsVars /\ [McpPageNext]_mcpVars
      /\ [ApiKeysTabNext]_keysVars /\ [TeamTabNext]_teamVars
      /\ [PluginsPageNext]_pluginsVars
  <1>1. CASE WebAppNext
    BY <1>1 DEF WebAppNext, OthersStay
  <1>2. CASE UNCHANGED webVars
    BY <1>2 DEF webVars
  <1>3. QED
    BY <1>1, <1>2

LEMMA OwnListsAreStored ==
  /\ PluginsListed => PluginsListIsStored
  /\ KeysListed => KeysListIsStored
  /\ TeamListed => TeamListIsStored
  /\ AgentsCards => AgentsListIsStored
  /\ McpCardsListed => ConnectorsListIsStored
  <1>1. PluginsListed => PluginsListIsStored
    BY DEF PluginsListed, PluginsSynced, PluginsListIsStored
  <1>2. KeysListed => KeysListIsStored
    <2>1. SUFFICES ASSUME KeysListed, keysAsked = {}, keysFlushed = {}, ~keysMissed
                   PROVE  keysListed.rows = keysStored
      BY DEF KeysListIsStored
    <2>2. \A x \in (keysListed.rows \ keysStored) \cup (keysStored \ keysListed.rows) : FALSE
      BY <2>1 DEF KeysListed, KeysSynced, KeysAgree, KeyChanging, KeyFlushed
    <2>3. QED
      BY <2>2
  <1>3. TeamListed => TeamListIsStored
    <2>1. SUFFICES ASSUME TeamListed, teamAsked = {}, ~teamMissed
                   PROVE  teamListed.rows = teamStored
      BY DEF TeamListIsStored
    <2>2. /\ \A x \in teamListed.rows \ teamStored : FALSE
          /\ \A x \in teamStored \ teamListed.rows : FALSE
      BY <2>1 DEF TeamListed, TeamOrder, TeamSynced, TeamAgree, TeamServed
    <2>3. QED
      BY <2>2
  <1>4. AgentsCards => AgentsListIsStored
    <2>1. SUFFICES ASSUME AgentsCards, agentsAsked = {}, ~agentsMissed
                   PROVE  agentsListed.rows = agentsStored
      BY DEF AgentsListIsStored
    <2>2. /\ \A x \in agentsListed.rows \ agentsStored : FALSE
          /\ \A x \in agentsStored \ agentsListed.rows : FALSE
      BY <2>1 DEF AgentsCards, AgentsOrder, AgentsSynced, AgentsAgree, AgentServed
    <2>3. QED
      BY <2>2
  <1>5. McpCardsListed => ConnectorsListIsStored
    <2>1. SUFFICES ASSUME McpCardsListed, mcpAsked = {}, mcpFlushed = {}, ~mcpMissed
                   PROVE  mcpListed.rows = mcpStored
      BY DEF ConnectorsListIsStored
    <2>2. \A x \in (mcpListed.rows \ mcpStored) \cup (mcpStored \ mcpListed.rows) : FALSE
      BY <2>1 DEF McpCardsListed, McpHistory, McpSynced, McpAgree, McpChanging,
                  ConnectorFlushed, McpServed
    <2>3. QED
      BY <2>2
  <1>6. QED
    BY <1>1, <1>2, <1>3, <1>4, <1>5

(* Whatever handlers overlap and whichever requests fail, a list that has  *)
(* missed nothing shows what the server has once nothing is in flight:     *)
(* what the pages splice into their lists after each answer adds up.       *)
THEOREM ListsAreTrue == WebAppSpec => []ListsAreStored
  <1> DEFINE Inv == /\ WfInv /\ WfRows /\ AgentsCards /\ McpCardsListed
                    /\ KeysListed /\ TeamListed /\ PluginsListed
  <1>1. WebAppInit => Inv
    BY ListsStart, WfStart, WfListStarts, AgentsListStarts, McpListStarts, KeysListStarts,
       TeamListStarts, PluginsListStarts
  <1>2. Inv /\ [WebAppNext]_webVars => Inv'
    BY ListsSteps, WfNext, WfListStep, AgentsListStep, McpListStep, KeysListStep,
       TeamListStep, PluginsListStep
  <1>3. Inv => ListsAreStored
    BY WorkflowListed, OwnListsAreStored DEF ListsAreStored
  <1>4. QED
    BY <1>1, <1>2, <1>3, PTL DEF WebAppSpec
===============================================================================
