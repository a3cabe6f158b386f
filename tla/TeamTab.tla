------------------------------- MODULE TeamTab -------------------------------
(***************************************************************************)
(* The tab of the settings page that lists the users of the tenant,        *)
(* invites one, changes a role and deletes one.  The list is read when the *)
(* tab is mounted; after that each handler edits what is shown, once the   *)
(* server has answered.  Each request is sent, served and answered, and    *)
(* may fail before or after it is served.                                  *)
(*                                                                         *)
(* A user is an id and a role.  The dialog for the temporary password of   *)
(* an invitation is left out: the answer does not hold one where the       *)
(* handler looks for it, so it never opens.  MaxTeamClicks bounds what the *)
(* user of the page does.                                                  *)
(***************************************************************************)
EXTENDS Naturals

CONSTANTS Users, Me, NoUser, MaxTeamClicks

ASSUME TeamTabAssumption ==
    Me \in Users /\ NoUser \notin Users /\ MaxTeamClicks \in Nat

VARIABLES
    teamListed,  \* users, and whether the table is dimmed (loading)
    inviteOpen,  \* the dialog that invites
    teamAsked,   \* the requests in flight
    teamStored,  \* the server: its users
    teamUsed,    \* and those that were ever invited
    teamClicks,  \* what the user has done so far
    teamMissed   \* history: an answer was lost, or came out of order

teamPage == <<teamListed, inviteOpen>>
teamServer == <<teamStored, teamUsed>>
teamVars == <<teamPage, teamAsked, teamServer, teamClicks, teamMissed>>

Roles == {"admin", "user"}
Member(u, role) == [id |-> u, role |-> role]
-----------------------------------------------------------------------------
(* What the tab offers: a dialog covers the table.                         *)

TeamRows ==
    IF inviteOpen \/ teamListed.loading THEN {} ELSE teamListed.rows
Inviting == \E r \in teamAsked : r.kind = "invite"

TeamClick == teamClicks < MaxTeamClicks /\ teamClicks' = teamClicks + 1

TeamRequest(kind, u, role) ==
    [n |-> teamClicks, kind |-> kind, phase |-> "sent", id |-> u, role |-> role,
     answer |-> {}, old |-> FALSE]

TeamAsk(kind, u, role) == teamAsked' = teamAsked \cup {TeamRequest(kind, u, role)}

OpenInvite ==
    /\ TeamClick
    /\ ~inviteOpen
    /\ inviteOpen' = TRUE
    /\ UNCHANGED <<teamListed, teamAsked, teamServer, teamMissed>>

CloseInvite ==
    /\ TeamClick
    /\ inviteOpen
    /\ inviteOpen' = FALSE
    /\ UNCHANGED <<teamListed, teamAsked, teamServer, teamMissed>>

\* OK shows a spinner, and cannot be clicked, while an invitation is in flight.
HandleInvite(u, role) ==
    /\ TeamClick
    /\ inviteOpen
    /\ ~Inviting
    /\ u \notin teamUsed
    /\ teamUsed' = teamUsed \cup {u}
    /\ TeamAsk("invite", u, role)
    /\ UNCHANGED <<teamPage, teamStored, teamMissed>>

HandleRoleChange(x, role) ==
    /\ TeamClick
    /\ x \in TeamRows /\ role # x.role
    /\ TeamAsk("role", x.id, role)
    /\ UNCHANGED <<teamPage, teamServer, teamMissed>>

HandleDeleteUser(x) ==
    /\ TeamClick
    /\ x \in TeamRows
    /\ TeamAsk("delete", x.id, x.role)
    /\ UNCHANGED <<teamPage, teamServer, teamMissed>>
-----------------------------------------------------------------------------
(* The server, which refuses to change or delete the one who asks.  It     *)
(* finds a user who was deleted, too, and changes nothing that is listed.  *)
(* A change is committed before it is answered.                            *)

\* A change makes those made to the same user before it old.
TeamChanged(r) ==
    {IF q.id = r.id /\ q.phase = "served" THEN [q EXCEPT !.old = TRUE] ELSE q :
        q \in teamAsked \ {r}}
      \cup {[r EXCEPT !.phase = "served"]}

TeamServe(r) ==
    /\ r.phase = "sent"
    /\ \/ /\ r.kind = "list"
          /\ teamAsked' = (teamAsked \ {r}) \cup
                 {[r EXCEPT !.phase = "served", !.answer = teamStored]}
          /\ UNCHANGED teamStored
       \/ /\ r.kind = "invite"
          /\ teamAsked' = TeamChanged(r)
          /\ teamStored' = teamStored \cup {Member(r.id, r.role)}
       \/ /\ r.kind = "role" /\ r.id # Me
          /\ teamAsked' = TeamChanged(r)
          /\ teamStored' = {IF x.id = r.id THEN Member(r.id, r.role) ELSE x :
                               x \in teamStored}
       \/ /\ r.kind = "delete" /\ r.id # Me
          /\ teamAsked' = TeamChanged(r)
          /\ teamStored' = {x \in teamStored : x.id # r.id}
    /\ UNCHANGED <<teamPage, teamUsed, teamClicks, teamMissed>>
-----------------------------------------------------------------------------
(* The handlers after their await.                                         *)

TeamAnswered(r, kind) ==
    /\ r.kind = kind /\ r.phase = "served"
    /\ teamAsked' = teamAsked \ {r}
    /\ UNCHANGED <<teamServer, teamClicks>>

\* A change is answered before the list is, or while the answer to another
\* change of the same user, which was not the last, is still on its way.
TeamOvertakes(r) ==
    \E q \in teamAsked \ {r} :
        q.kind = "list" \/ (q.old /\ q.id = r.id)

FinishLoadUsers(r) ==
    /\ TeamAnswered(r, "list")
    /\ teamListed' = [rows |-> r.answer, loading |-> FALSE]
    /\ UNCHANGED <<inviteOpen, teamMissed>>

\* The temporary password is in the message that comes with the answer,
\* which nobody reads.
FinishInvite(r) ==
    /\ TeamAnswered(r, "invite")
    /\ teamListed' = [teamListed EXCEPT !.rows = @ \cup {Member(r.id, r.role)}]
    /\ inviteOpen' = FALSE
    /\ teamMissed' = (teamMissed \/ TeamOvertakes(r))

FinishRoleChange(r) ==
    /\ TeamAnswered(r, "role")
    /\ teamListed' = [teamListed EXCEPT !.rows =
            {IF x.id = r.id THEN Member(r.id, r.role) ELSE x : x \in @}]
    /\ teamMissed' = (teamMissed \/ TeamOvertakes(r))
    /\ UNCHANGED inviteOpen

FinishDeleteUser(r) ==
    /\ TeamAnswered(r, "delete")
    /\ teamListed' = [teamListed EXCEPT !.rows = {x \in @ : x.id # r.id}]
    /\ teamMissed' = (teamMissed \/ TeamOvertakes(r))
    /\ UNCHANGED inviteOpen

FailTeamRequest(r) ==
    /\ teamAsked' = teamAsked \ {r}
    /\ teamListed' = [teamListed EXCEPT !.loading = @ /\ r.kind # "list"]
    /\ teamMissed' = (teamMissed \/ r.kind = "list" \/ r.phase = "served")
    /\ UNCHANGED <<inviteOpen, teamServer, teamClicks>>
-----------------------------------------------------------------------------
TeamTabInit ==
    /\ teamListed = [rows |-> {}, loading |-> TRUE]
    /\ inviteOpen = FALSE
    /\ teamUsed = {Me}
    /\ teamStored = {Member(Me, "admin")}
    /\ teamClicks = 0
    /\ teamAsked = {TeamRequest("list", NoUser, "user")}
    /\ teamMissed = FALSE

TeamTabNext ==
    \/ OpenInvite \/ CloseInvite
    \/ \E u \in Users, role \in Roles : HandleInvite(u, role)
    \/ \E x \in teamListed.rows :
          HandleDeleteUser(x) \/ \E role \in Roles : HandleRoleChange(x, role)
    \/ \E r \in teamAsked :
          \/ TeamServe(r)
          \/ FinishLoadUsers(r) \/ FinishInvite(r) \/ FinishRoleChange(r)
          \/ FinishDeleteUser(r) \/ FailTeamRequest(r)

TeamTabSpec == TeamTabInit /\ [][TeamTabNext]_teamVars
-----------------------------------------------------------------------------
(* When nothing is in flight the table shows the users the server has, in  *)
(* the roles it has them in, unless an answer was lost, or the answer to a *)
(* change arrived before the list or, where changes of the same user       *)
(* overlapped, before that to one that was not the last.                   *)
TeamListIsStored ==
    teamAsked = {} /\ ~teamMissed => teamListed.rows = teamStored
=============================================================================
