------------------------------ MODULE ApiKeysTab ------------------------------
(***************************************************************************)
(* The tab of the settings page that lists, creates, revokes and deletes   *)
(* API keys.  handleCreate and handleRevoke read the list again and wait   *)
(* for it; handleDelete edits the list it shows.  Each request is sent,    *)
(* served and answered, and may fail before or after it is served.  What   *)
(* it changes is flushed when it is served, and committed at any time      *)
(* after that, also after its answer has arrived: until then it is hidden  *)
(* from other requests, and holds the lock of its row.                     *)
(*                                                                         *)
(* A key is an id and whether it is active; names, prefixes and dates are  *)
(* left out.  MaxKeyClicks bounds what the user does.                      *)
(***************************************************************************)
EXTENDS Naturals

CONSTANTS Keys, ExistingKeys, NoKey, MaxKeyClicks

ASSUME ApiKeysTabAssumption ==
    ExistingKeys \subseteq Keys /\ NoKey \notin Keys /\ MaxKeyClicks \in Nat

VARIABLES
    keysListed,  \* keys, and whether the table is dimmed (loading)
    keyDialog,   \* the dialog: closed, or open without or with a name typed in
    createdKey,  \* the key whose plain text the page shows
    keysAsked,   \* the requests in flight
    keysStored,  \* the server: its keys, as committed
    keysFlushed, \* the requests whose changes are not committed yet
    keysUsed,    \* the ids given out
    keyClicks,   \* what the user has done so far
    keysMissed   \* history: an answer was lost, out of order, or to a list read early

keysPage == <<keysListed, keyDialog, createdKey>>
keysServer == <<keysStored, keysFlushed, keysUsed>>
keysVars == <<keysPage, keysAsked, keysServer, keyClicks, keysMissed>>

ApiKey(k, active) == [id |-> k, active |-> active]
-----------------------------------------------------------------------------
(* What the tab offers: the dialog covers the table, which is dimmed while *)
(* it loads.                                                               *)

KeyRows == IF keyDialog = "closed" /\ ~keysListed.loading THEN keysListed.rows ELSE {}

KeyClick == keyClicks < MaxKeyClicks /\ keyClicks' = keyClicks + 1

KeyRequest(kind, k) ==
    [n |-> keyClicks, kind |-> kind, phase |-> "sent", id |-> k, answer |-> {},
     old |-> FALSE]

\* loadKeys dims the table; it answers r, or is called when the tab is mounted.
LoadKeys(r) ==
    /\ keysListed' = [keysListed EXCEPT !.loading = TRUE]
    /\ keysAsked' = (keysAsked \ {r}) \cup
            {[r EXCEPT !.kind = "list", !.phase = "sent"]}

OpenKeyDialog ==
    /\ KeyClick
    /\ keyDialog = "closed"
    /\ keyDialog' = "blank"
    /\ UNCHANGED <<keysListed, createdKey, keysAsked, keysServer, keysMissed>>

TypeKeyName ==
    /\ KeyClick
    /\ keyDialog = "blank"
    /\ keyDialog' = "named"
    /\ UNCHANGED <<keysListed, createdKey, keysAsked, keysServer, keysMissed>>

CloseKeyDialog ==
    /\ KeyClick
    /\ keyDialog # "closed"
    /\ keyDialog' = "closed"
    /\ UNCHANGED <<keysListed, createdKey, keysAsked, keysServer, keysMissed>>

DismissCreatedKey ==
    /\ KeyClick
    /\ keyDialog = "closed" /\ createdKey # NoKey
    /\ createdKey' = NoKey
    /\ UNCHANGED <<keysListed, keyDialog, keysAsked, keysServer, keysMissed>>

\* OK stays enabled, and the dialog open: clicking it again asks for another key.
HandleCreateKey(k) ==
    /\ KeyClick
    /\ keyDialog = "named"
    /\ k \notin keysUsed
    /\ keysUsed' = keysUsed \cup {k}
    /\ keysAsked' = keysAsked \cup {KeyRequest("create", k)}
    /\ UNCHANGED <<keysPage, keysStored, keysFlushed, keysMissed>>

HandleRevokeKey(x) ==
    /\ KeyClick
    /\ x \in KeyRows /\ x.active
    /\ keysAsked' = keysAsked \cup {KeyRequest("revoke", x.id)}
    /\ UNCHANGED <<keysPage, keysServer, keysMissed>>

HandleDeleteKey(x) ==
    /\ KeyClick
    /\ x \in KeyRows
    /\ keysAsked' = keysAsked \cup {KeyRequest("delete", x.id)}
    /\ UNCHANGED <<keysPage, keysServer, keysMissed>>
-----------------------------------------------------------------------------
(* The server.                                                             *)

KeyFlushed(k) == \E c \in keysFlushed : c.id = k

\* A change that was answered, and is not committed.
ToldTooEarly == \E c \in keysFlushed : c \notin keysAsked

\* A list makes those that were read before it old.
KeysServeList(r) ==
    /\ r.kind = "list" /\ r.phase = "sent"
    /\ keysAsked' =
          {IF q.kind = "list" /\ q.phase = "served" THEN [q EXCEPT !.old = TRUE] ELSE q :
              q \in keysAsked \ {r}}
            \cup {[r EXCEPT !.phase = "served", !.answer = keysStored]}
    /\ keysMissed' = (keysMissed \/ ToldTooEarly)
    /\ UNCHANGED <<keysPage, keysServer, keyClicks>>

\* A key is looked up before it is changed; it is not revoked twice.
KeysLookUp(r) ==
    /\ r.kind \in {"revoke", "delete"} /\ r.phase = "sent"
    /\ \E x \in keysStored : x.id = r.id /\ (r.kind = "revoke" => x.active)
    /\ keysAsked' = (keysAsked \ {r}) \cup {[r EXCEPT !.phase = "found"]}
    /\ UNCHANGED <<keysPage, keysServer, keyClicks, keysMissed>>

\* The change waits for the lock of its row.  Only a deletion may find it gone.
KeysFlush(r) ==
    /\ \/ r.kind = "create" /\ r.phase = "sent"
       \/ /\ r.kind \in {"revoke", "delete"} /\ r.phase = "found"
          /\ ~KeyFlushed(r.id)
          /\ r.kind = "revoke" => \E x \in keysStored : x.id = r.id
    /\ keysFlushed' = keysFlushed \cup {[r EXCEPT !.phase = "served"]}
    /\ keysAsked' = (keysAsked \ {r}) \cup {[r EXCEPT !.phase = "served"]}
    /\ UNCHANGED <<keysPage, keysStored, keysUsed, keyClicks, keysMissed>>

\* get_db, after the handler has returned.
KeysCommit(c) ==
    /\ keysFlushed' = keysFlushed \ {c}
    /\ keysStored' = CASE c.kind = "create" -> keysStored \cup {ApiKey(c.id, TRUE)}
                       [] c.kind = "revoke" ->
                            {IF x.id = c.id THEN ApiKey(c.id, FALSE) ELSE x :
                                x \in keysStored}
                       [] c.kind = "delete" -> {x \in keysStored : x.id # c.id}
    /\ UNCHANGED <<keysPage, keysAsked, keysUsed, keyClicks, keysMissed>>
-----------------------------------------------------------------------------
(* The handlers after their await.                                         *)

FinishLoadKeys(r) ==
    /\ r.kind = "list" /\ r.phase = "served"
    /\ keysAsked' = keysAsked \ {r}
    /\ keysListed' = [rows |-> r.answer, loading |-> FALSE]
    /\ keysMissed' = (keysMissed \/ r.old)
    /\ UNCHANGED <<keyDialog, createdKey, keysServer, keyClicks>>

FailLoadKeys(r) ==
    /\ r.kind = "list"
    /\ keysAsked' = keysAsked \ {r}
    /\ keysListed' = [keysListed EXCEPT !.loading = FALSE]
    /\ keysMissed' = TRUE
    /\ UNCHANGED <<keyDialog, createdKey, keysServer, keyClicks>>

\* The name typed in is cleared, also one that was typed since.
FinishCreateKey(r) ==
    /\ r.kind = "create" /\ r.phase = "served"
    /\ createdKey' = r.id
    /\ keyDialog' = IF keyDialog = "named" THEN "blank" ELSE keyDialog
    /\ LoadKeys(r)
    /\ UNCHANGED <<keysServer, keyClicks, keysMissed>>

FinishRevokeKey(r) ==
    /\ r.kind = "revoke" /\ r.phase = "served"
    /\ LoadKeys(r)
    /\ UNCHANGED <<keyDialog, createdKey, keysServer, keyClicks, keysMissed>>

FinishDeleteKey(r) ==
    /\ r.kind = "delete" /\ r.phase = "served"
    /\ keysAsked' = keysAsked \ {r}
    /\ keysListed' = [keysListed EXCEPT !.rows = {x \in @ : x.id # r.id}]
    /\ keysMissed' = (keysMissed \/ \E q \in keysAsked : q.kind = "list")
    /\ UNCHANGED <<keyDialog, createdKey, keysServer, keyClicks>>

FailKeyRequest(r) ==
    /\ r.kind # "list"
    /\ keysAsked' = keysAsked \ {r}
    /\ keysMissed' = (keysMissed \/ r.phase = "served")
    /\ UNCHANGED <<keysPage, keysServer, keyClicks>>
-----------------------------------------------------------------------------
ApiKeysTabInit ==
    /\ keysListed = [rows |-> {}, loading |-> TRUE]
    /\ keyDialog = "closed"
    /\ createdKey = NoKey
    /\ keysUsed = ExistingKeys
    /\ keysFlushed = {}
    /\ keysStored = {ApiKey(k, TRUE) : k \in ExistingKeys}
    /\ keyClicks = 0
    /\ keysAsked = {KeyRequest("list", NoKey)}
    /\ keysMissed = FALSE

ApiKeysTabNext ==
    \/ OpenKeyDialog \/ TypeKeyName \/ CloseKeyDialog \/ DismissCreatedKey
    \/ \E k \in Keys : HandleCreateKey(k)
    \/ \E x \in keysListed.rows : HandleRevokeKey(x) \/ HandleDeleteKey(x)
    \/ \E r \in keysAsked :
          \/ KeysServeList(r) \/ KeysLookUp(r) \/ KeysFlush(r)
          \/ FinishLoadKeys(r) \/ FailLoadKeys(r)
          \/ FinishCreateKey(r) \/ FinishRevokeKey(r) \/ FinishDeleteKey(r)
          \/ FailKeyRequest(r)
    \/ \E c \in keysFlushed : KeysCommit(c)

ApiKeysTabSpec == ApiKeysTabInit /\ [][ApiKeysTabNext]_keysVars
-----------------------------------------------------------------------------
(* When nothing is in flight the table shows the keys the server has, and  *)
(* which of them are active, unless a load failed or an answer was lost; a *)
(* list was read after a change was answered and before it was committed;  *)
(* a list was shown after one that was read later; or a deletion was       *)
(* answered while a list was on its way.                                   *)
KeysListIsStored ==
    keysAsked = {} /\ keysFlushed = {} /\ ~keysMissed => keysListed.rows = keysStored
=============================================================================
