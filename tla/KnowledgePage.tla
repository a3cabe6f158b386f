---------------------------- MODULE KnowledgePage ----------------------------
(***************************************************************************)
(* The knowledge page of the web client: the bases listed as cards, the    *)
(* documents of the selected one, a dialog that creates or edits a base,   *)
(* one that searches, and one that asks before a base is deleted.  A       *)
(* handler runs up to its await in one step and after it in another, with  *)
(* the closure of its click, kept in the request.  A request is sent,      *)
(* served and answered, and may fail before or after it is served.         *)
(*                                                                         *)
(* Bases and documents are ids: names, sizes, states and the text found by *)
(* a search are left out, as is the check of the form.  MaxKbClicks bounds *)
(* what the user does.                                                     *)
(***************************************************************************)
EXTENDS Naturals

CONSTANTS Bases, Docs, NoBase, ExistingBases, MaxKbClicks

ASSUME KnowledgePageAssumption ==
    /\ ExistingBases \subseteq Bases
    /\ NoBase \notin Bases \cup Docs
    /\ MaxKbClicks \in Nat

VARIABLES
    kbListed,     \* knowledgeBases, and whether they are hidden (loading)
    kbSelected,   \* selectedKb
    kbDocs,       \* documents, and whether they are dimmed (docsLoading)
    kbModal,      \* the create and edit dialog, and editingKb
    kbConfirm,    \* the base that is to be deleted if the user says so
    kbSearch,     \* the search dialog: open, and whose results it shows
    kbAsked,      \* the requests in flight
    kbStored,     \* the server: its bases
    kbUsed,       \* and the ids it has given out
    kbHome,       \* the base each document was sent to
    kbDocsStored, \* and the documents it has
    kbClicks,     \* what the user has done so far
    kbCrossed     \* history: the selection changed under a request or the dialog

kbDialogs == <<kbModal, kbConfirm, kbSearch>>
kbPage == <<kbListed, kbSelected, kbDocs, kbDialogs>>
kbServer == <<kbStored, kbUsed, kbHome, kbDocsStored>>
kbVars == <<kbPage, kbAsked, kbServer, kbClicks, kbCrossed>>

NoModal == [open |-> FALSE, editing |-> NoBase]
StoredDocs(kb) == {d \in kbDocsStored : kbHome[d] = kb}
-----------------------------------------------------------------------------
(* What the page offers.  A dialog covers it.                              *)

KbCovered == kbModal.open \/ kbSearch.open \/ kbConfirm # NoBase
CardsShown == IF kbListed.loading \/ KbCovered THEN {} ELSE kbListed.ids
PanelBase == IF KbCovered THEN NoBase ELSE kbSelected
RowsShown == IF PanelBase = NoBase \/ kbDocs.loading THEN {} ELSE kbDocs.ids

KbClick == kbClicks < MaxKbClicks /\ kbClicks' = kbClicks + 1

\* A request, and the selection its handler has seen.
Asking(kind, kb, doc) ==
    [n |-> kbClicks, kind |-> kind, phase |-> "sent", kb |-> kb, doc |-> doc,
     selected |-> kbSelected, answer |-> {}]

KbAsk(kind, kb, doc) == kbAsked' = kbAsked \cup {Asking(kind, kb, doc)}

\* The selection becomes kb, under the requests rs or the search dialog.
SelectBase(kb, rs) ==
    /\ kbSelected' = kb
    /\ kbCrossed' = (kbCrossed \/ (kb # kbSelected /\ (rs # {} \/ kbSearch.open)))
-----------------------------------------------------------------------------
(* The user's clicks.                                                      *)

HandleSelectKb(kb) ==
    /\ KbClick
    /\ kb \in CardsShown
    /\ SelectBase(kb, kbAsked)
    /\ kbDocs' = [kbDocs EXCEPT !.loading = TRUE]
    /\ KbAsk("documents", kb, NoBase)
    /\ UNCHANGED <<kbListed, kbDialogs, kbServer>>

HandleOpenCreateModal ==
    /\ KbClick
    /\ ~KbCovered
    /\ kbModal' = [open |-> TRUE, editing |-> NoBase]
    /\ UNCHANGED <<kbListed, kbSelected, kbDocs, kbConfirm, kbSearch, kbAsked, kbServer,
                   kbCrossed>>

HandleEditKb(kb) ==
    /\ KbClick
    /\ kb \in CardsShown
    /\ kbModal' = [open |-> TRUE, editing |-> kb]
    /\ UNCHANGED <<kbListed, kbSelected, kbDocs, kbConfirm, kbSearch, kbAsked, kbServer,
                   kbCrossed>>

\* OK stays enabled while a request is in flight: it may be clicked again.
HandleSubmitKb ==
    /\ KbClick
    /\ kbModal.open
    /\ \/ /\ kbModal.editing # NoBase
          /\ KbAsk("update", kbModal.editing, NoBase)
          /\ UNCHANGED kbServer
       \/ /\ kbModal.editing = NoBase
          /\ \E kb \in Bases \ kbUsed :
                KbAsk("create", kb, NoBase) /\ kbUsed' = kbUsed \cup {kb}
          /\ UNCHANGED <<kbStored, kbHome, kbDocsStored>>
    /\ UNCHANGED <<kbPage, kbCrossed>>

CancelModal ==
    /\ KbClick
    /\ kbModal.open
    /\ kbModal' = NoModal
    /\ UNCHANGED <<kbListed, kbSelected, kbDocs, kbConfirm, kbSearch, kbAsked, kbServer,
                   kbCrossed>>

HandleDeleteKb(kb) ==
    /\ KbClick
    /\ kb \in CardsShown
    /\ kbConfirm' = kb
    /\ UNCHANGED <<kbListed, kbSelected, kbDocs, kbModal, kbSearch, kbAsked, kbServer,
                   kbCrossed>>

\* The dialog waits for the answer unless the user closes it, and asks once.
ConfirmDeleteKb ==
    /\ KbClick
    /\ kbConfirm # NoBase
    /\ ~\E r \in kbAsked : r.kind = "delete" /\ r.kb = kbConfirm
    /\ KbAsk("delete", kbConfirm, NoBase)
    /\ UNCHANGED <<kbPage, kbServer, kbCrossed>>

CloseConfirm ==
    /\ KbClick
    /\ kbConfirm # NoBase
    /\ kbConfirm' = NoBase
    /\ UNCHANGED <<kbListed, kbSelected, kbDocs, kbModal, kbSearch, kbAsked, kbServer,
                   kbCrossed>>

HandleDeleteDoc(d) ==
    /\ KbClick
    /\ d \in RowsShown
    /\ KbAsk("remove", kbSelected, d)
    /\ UNCHANGED <<kbPage, kbServer, kbCrossed>>

UploadDoc(d) ==
    /\ KbClick
    /\ PanelBase # NoBase
    /\ kbHome[d] = NoBase
    /\ kbHome' = [kbHome EXCEPT ![d] = kbSelected]
    /\ KbAsk("upload", kbSelected, d)
    /\ UNCHANGED <<kbPage, kbStored, kbUsed, kbDocsStored, kbCrossed>>

OpenSearch ==
    /\ KbClick
    /\ PanelBase # NoBase
    /\ kbSearch' = [open |-> TRUE, results |-> NoBase]
    /\ UNCHANGED <<kbListed, kbSelected, kbDocs, kbModal, kbConfirm, kbAsked, kbServer,
                   kbCrossed>>

\* Enter searches again while a search is in flight, the button does not.
HandleSearch ==
    /\ KbClick
    /\ kbSearch.open /\ kbSelected # NoBase
    /\ KbAsk("search", kbSelected, NoBase)
    /\ UNCHANGED <<kbPage, kbServer, kbCrossed>>

CloseSearch ==
    /\ KbClick
    /\ kbSearch.open
    /\ kbSearch' = [kbSearch EXCEPT !.open = FALSE]
    /\ UNCHANGED <<kbListed, kbSelected, kbDocs, kbModal, kbConfirm, kbAsked, kbServer,
                   kbCrossed>>
-----------------------------------------------------------------------------
(* The server.  What is asked of a base or document it does not have is an *)
(* error.                                                                  *)

ServedAs(r, answer) ==
    kbAsked' = (kbAsked \ {r}) \cup {[r EXCEPT !.phase = "served", !.answer = answer]}

KbServe(r) ==
    /\ r.phase = "sent"
    /\ \/ /\ r.kind = "bases"
          /\ ServedAs(r, kbStored)
          /\ UNCHANGED <<kbStored, kbDocsStored>>
       \/ /\ r.kind \in {"documents", "search", "update"} /\ r.kb \in kbStored
          /\ ServedAs(r, StoredDocs(r.kb))
          /\ UNCHANGED <<kbStored, kbDocsStored>>
       \/ /\ r.kind = "create"
          /\ ServedAs(r, {})
          /\ kbStored' = kbStored \cup {r.kb}
          /\ UNCHANGED kbDocsStored
       \/ /\ r.kind = "delete" /\ r.kb \in kbStored
          /\ ServedAs(r, {})
          /\ kbStored' = kbStored \ {r.kb}
          /\ kbDocsStored' = kbDocsStored \ StoredDocs(r.kb)
       \/ /\ r.kind = "remove" /\ r.doc \in StoredDocs(r.kb)
          /\ ServedAs(r, {})
          /\ kbDocsStored' = kbDocsStored \ {r.doc}
          /\ UNCHANGED kbStored
       \/ /\ r.kind = "upload" /\ r.kb \in kbStored
          /\ ServedAs(r, {})
          /\ kbDocsStored' = kbDocsStored \cup {r.doc}
          /\ UNCHANGED kbStored
    /\ UNCHANGED <<kbPage, kbUsed, kbHome, kbClicks, kbCrossed>>
-----------------------------------------------------------------------------
(* The handlers after their await.                                         *)

KbOver(r, kind) ==
    /\ r.kind = kind
    /\ kbAsked' = kbAsked \ {r}
    /\ UNCHANGED <<kbServer, kbClicks>>

KbAnswered(r, kind) == r.phase = "served" /\ KbOver(r, kind)

\* loadKnowledgeBases
FinishBases(r) ==
    /\ KbAnswered(r, "bases")
    /\ kbListed' = [ids |-> r.answer, loading |-> FALSE]
    /\ UNCHANGED <<kbSelected, kbDocs, kbDialogs, kbCrossed>>

FailBases(r) ==
    /\ KbOver(r, "bases")
    /\ kbListed' = [kbListed EXCEPT !.loading = FALSE]
    /\ UNCHANGED <<kbSelected, kbDocs, kbDialogs, kbCrossed>>

\* loadDocuments, which does not look at what is selected by now.
FinishDocuments(r) ==
    /\ KbAnswered(r, "documents")
    /\ kbDocs' = [ids |-> r.answer, loading |-> FALSE]
    /\ UNCHANGED <<kbListed, kbSelected, kbDialogs, kbCrossed>>

\* A mutant: the documents shown before stay.
FailDocumentsKeeps(r) ==
    /\ KbOver(r, "documents")
    /\ kbDocs' = [kbDocs EXCEPT !.loading = FALSE]
    /\ UNCHANGED <<kbListed, kbSelected, kbDialogs, kbCrossed>>

FailDocuments(r) ==
    /\ KbOver(r, "documents")
    /\ kbDocs' = [ids |-> {}, loading |-> FALSE]
    /\ UNCHANGED <<kbListed, kbSelected, kbDialogs, kbCrossed>>

\* handleSubmitKb, which closes whatever dialog is open by now.
FinishCreateKb(r) ==
    /\ KbAnswered(r, "create")
    /\ kbListed' = [kbListed EXCEPT !.ids = @ \cup {r.kb}]
    /\ kbModal' = NoModal
    /\ UNCHANGED <<kbSelected, kbDocs, kbConfirm, kbSearch, kbCrossed>>

FinishUpdate(r) ==
    /\ KbAnswered(r, "update")
    /\ IF r.selected = r.kb
       THEN SelectBase(r.kb, kbAsked \ {r})
       ELSE UNCHANGED <<kbSelected, kbCrossed>>
    /\ kbModal' = NoModal
    /\ UNCHANGED <<kbListed, kbDocs, kbConfirm, kbSearch>>

\* handleDeleteKb.  An answer closes the dialog that asked.
FinishDeleteKb(r) ==
    /\ KbAnswered(r, "delete")
    /\ kbListed' = [kbListed EXCEPT !.ids = @ \ {r.kb}]
    /\ kbConfirm' = IF kbConfirm = r.kb THEN NoBase ELSE kbConfirm
    /\ IF r.selected = r.kb
       THEN SelectBase(NoBase, kbAsked \ {r}) /\ kbDocs' = [kbDocs EXCEPT !.ids = {}]
       ELSE UNCHANGED <<kbSelected, kbDocs, kbCrossed>>
    /\ UNCHANGED <<kbModal, kbSearch>>

FailDeleteKb(r) ==
    /\ KbOver(r, "delete")
    /\ kbConfirm' = IF kbConfirm = r.kb THEN NoBase ELSE kbConfirm
    /\ UNCHANGED <<kbListed, kbSelected, kbDocs, kbModal, kbSearch, kbCrossed>>

\* handleDeleteDoc, and the upload, change whatever documents are shown by now.
FinishDeleteDoc(r) ==
    /\ KbAnswered(r, "remove")
    /\ kbDocs' = [kbDocs EXCEPT !.ids = @ \ {r.doc}]
    /\ UNCHANGED <<kbListed, kbSelected, kbDialogs, kbCrossed>>

FinishUpload(r) ==
    /\ KbAnswered(r, "upload")
    /\ kbDocs' = [kbDocs EXCEPT !.ids = @ \cup {r.doc}]
    /\ UNCHANGED <<kbListed, kbSelected, kbDialogs, kbCrossed>>

FinishSearch(r) ==
    /\ KbAnswered(r, "search")
    /\ kbSearch' = [kbSearch EXCEPT !.results = r.kb]
    /\ UNCHANGED <<kbListed, kbSelected, kbDocs, kbModal, kbConfirm, kbCrossed>>

FailSearch(r) ==
    /\ KbOver(r, "search")
    /\ kbSearch' = [kbSearch EXCEPT !.results = NoBase]
    /\ UNCHANGED <<kbListed, kbSelected, kbDocs, kbModal, kbConfirm, kbCrossed>>

\* A failure that only shows a message.
FailKb(r) ==
    /\ \E kind \in {"create", "update", "remove", "upload"} : KbOver(r, kind)
    /\ UNCHANGED <<kbPage, kbCrossed>>
-----------------------------------------------------------------------------
KnowledgePageInit ==
    /\ kbListed = [ids |-> {}, loading |-> TRUE]
    /\ kbSelected = NoBase
    /\ kbDocs = [ids |-> {}, loading |-> FALSE]
    /\ kbModal = NoModal
    /\ kbConfirm = NoBase
    /\ kbSearch = [open |-> FALSE, results |-> NoBase]
    /\ kbStored = ExistingBases
    /\ kbUsed = ExistingBases
    /\ kbHome = [d \in Docs |-> NoBase]
    /\ kbDocsStored = {}
    /\ kbClicks = 0
    /\ kbAsked = {Asking("bases", NoBase, NoBase)}
    /\ kbCrossed = FALSE

KnowledgePageNext ==
    \/ \E kb \in Bases : HandleSelectKb(kb) \/ HandleEditKb(kb) \/ HandleDeleteKb(kb)
    \/ HandleOpenCreateModal \/ HandleSubmitKb \/ CancelModal
    \/ ConfirmDeleteKb \/ CloseConfirm
    \/ \E d \in Docs : HandleDeleteDoc(d) \/ UploadDoc(d)
    \/ OpenSearch \/ HandleSearch \/ CloseSearch
    \/ \E r \in kbAsked :
          \/ KbServe(r)
          \/ FinishBases(r) \/ FailBases(r)
          \/ FinishDocuments(r) \/ FailDocuments(r)
          \/ FinishCreateKb(r) \/ FinishUpdate(r)
          \/ FinishDeleteKb(r) \/ FailDeleteKb(r)
          \/ FinishDeleteDoc(r) \/ FinishUpload(r)
          \/ FinishSearch(r) \/ FailSearch(r) \/ FailKb(r)

KnowledgePageSpec == KnowledgePageInit /\ [][KnowledgePageNext]_kbVars
-----------------------------------------------------------------------------
(* Unless the selection changed while a request was in flight or the       *)
(* search dialog was open, the documents offered for deletion are those of *)
(* the selected base, and so are the results of the search dialog.         *)
ShownBelongToSelected ==
    ~kbCrossed =>
        /\ \A d \in RowsShown : kbHome[d] = kbSelected
        /\ kbSearch.open => kbSearch.results \in {NoBase, kbSelected}
=============================================================================
