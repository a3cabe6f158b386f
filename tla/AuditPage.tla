------------------------------- MODULE AuditPage -------------------------------
(***************************************************************************)
(* The audit log of the web client: a page of the log entries that match   *)
(* filters, loaded whenever page or filters change.  The table and its     *)
(* pages are covered while a load runs, the filters are not, and no answer *)
(* is compared with what is chosen by then.                                *)
(*                                                                         *)
(* A filter stands for a type, a status and dates; PagesOf gives the pages *)
(* of its entries, the size of a page is left out.  The server only reads, *)
(* so a request is answered or fails in one step.  MaxAuditSteps bounds    *)
(* what the user does.                                                     *)
(***************************************************************************)
EXTENDS Naturals

CONSTANTS Filters, NoFilter, PagesOf, MaxAuditSteps

ASSUME AuditPageAssumption ==
    NoFilter \in Filters /\ PagesOf \in [Filters -> Nat] /\ MaxAuditSteps \in Nat

VARIABLES
    auditQuery,   \* the filters and the page that are chosen
    auditShown,   \* the query whose entries are shown, and the spinner (loading)
    auditAsked,   \* the requests in flight
    auditSteps,   \* what the user has done so far
    auditCrossed  \* history: a load failed, or the choice changed under one

auditVars == <<auditQuery, auditShown, auditAsked, auditSteps, auditCrossed>>

Query(f, p) == [filter |-> f, page |-> p]

\* Page 0 stands for a table that never was filled.
NothingShown == Query(NoFilter, 0)

AuditStep == auditSteps < MaxAuditSteps /\ auditSteps' = auditSteps + 1

\* loadData, the effect of a changed choice and the handler of a button.
LoadAudit(q) ==
    /\ auditQuery' = q
    /\ auditShown' = [auditShown EXCEPT !.loading = TRUE]
    /\ auditAsked' = auditAsked \cup {[n |-> auditSteps, query |-> q]}
    /\ auditCrossed' = (auditCrossed \/ (q # auditQuery /\ auditAsked # {}))

\* handleTypeChange, handleStatusChange and handleDateChange.
ChangeFilter(f) ==
    /\ AuditStep
    /\ f # auditQuery.filter
    /\ LoadAudit(Query(f, 1))

ChangePage(p) ==
    /\ AuditStep
    /\ ~auditShown.loading
    /\ auditShown.query # NothingShown
    /\ p \in 1..PagesOf[auditShown.query.filter]
    /\ p # auditQuery.page
    /\ LoadAudit(Query(auditQuery.filter, p))

RefreshAudit ==
    /\ AuditStep
    /\ ~auditShown.loading
    /\ LoadAudit(auditQuery)

FinishAudit(r) ==
    /\ auditAsked' = auditAsked \ {r}
    /\ auditShown' = [query |-> r.query, loading |-> FALSE]
    /\ UNCHANGED <<auditQuery, auditSteps, auditCrossed>>

FailAudit(r) ==
    /\ auditAsked' = auditAsked \ {r}
    /\ auditShown' = [auditShown EXCEPT !.loading = FALSE]
    /\ auditCrossed' = TRUE
    /\ UNCHANGED <<auditQuery, auditSteps>>
-----------------------------------------------------------------------------
AuditPageInit ==
    /\ auditQuery = Query(NoFilter, 1)
    /\ auditShown = [query |-> NothingShown, loading |-> TRUE]
    /\ auditAsked = {[n |-> 0, query |-> auditQuery]}
    /\ auditSteps = 0
    /\ auditCrossed = FALSE

AuditPageNext ==
    \/ \E f \in Filters : ChangeFilter(f)
    \/ \E f \in Filters : \E p \in 1..PagesOf[f] : ChangePage(p)
    \/ RefreshAudit
    \/ \E r \in auditAsked : FinishAudit(r) \/ FailAudit(r)

AuditPageSpec == AuditPageInit /\ [][AuditPageNext]_auditVars
-----------------------------------------------------------------------------
(* Unless a load failed or the choice changed under it, the page that is   *)
(* chosen exists for the chosen filters, and what is shown when nothing is *)
(* in flight are the entries of both.                                      *)
RowsBelongToQuery ==
    ~auditCrossed =>
        /\ auditQuery.page > 1 => auditQuery.page <= PagesOf[auditQuery.filter]
        /\ auditAsked = {} => auditShown.query = auditQuery
=============================================================================
