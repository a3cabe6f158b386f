--------------------------- MODULE NotificationBell ---------------------------
(***************************************************************************)
(* The bell of the top bar: the count of unread notifications it shows,    *)
(* the drawer that lists them, and the server's notifications.             *)
(*                                                                         *)
(* The count has four writers: a poll every 30 seconds, the drawer when it *)
(* is opened, and the two handlers that mark notifications as read, one of *)
(* which subtracts from what is shown.  An unread item stays clickable     *)
(* while it is being marked.  A request is sent, served and answered, and  *)
(* may fail before or after it is served; a poll gives up after 30 seconds *)
(* so that at most MaxPolls = 2 are in flight.                             *)
(*                                                                         *)
(* A notification is an id; titles, kinds and times are left out, and so   *)
(* is the page size of 50.  MaxBellClicks bounds the user's clicks, MaxLost*)
(* the requests that fail.                                                 *)
(***************************************************************************)
EXTENDS Naturals, FiniteSets

CONSTANTS Notices, NoNotice, MaxPolls, MaxBellClicks, MaxLost

ASSUME NotificationBellAssumption ==
    /\ IsFiniteSet(Notices) /\ NoNotice \notin Notices
    /\ MaxPolls \in Nat \ {0} /\ MaxBellClicks \in Nat /\ MaxLost \in Nat

VARIABLES
    unreadCount,  \* the number on the bell
    listed,       \* the drawer's notifications, and those that look read
    drawer,       \* is it open, does it show the spinner
    bellAsked,    \* the requests in flight
    sentNotices,  \* the server: the user's notifications
    readNotices,  \* and those marked as read
    bellClicks,   \* what the user has done so far
    bellLost      \* the requests that failed

bellPage == <<unreadCount, listed, drawer>>
bellServer == <<sentNotices, readNotices>>
bellVars == <<bellPage, bellAsked, bellServer, bellClicks, bellLost>>

BellClick == bellClicks < MaxBellClicks /\ bellClicks' = bellClicks + 1

BellRequest(n, kind, id) ==
    [n |-> n, kind |-> kind, phase |-> "sent", id |-> id, sent |-> {}, read |-> {}]

BellAsk(kind, id) ==
    bellAsked' = bellAsked \cup {BellRequest(bellClicks, kind, id)}
-----------------------------------------------------------------------------
(* The user: the drawer covers the bell, and its list is hidden while it   *)
(* is read.                                                                *)

HandleOpenNotifications ==
    /\ BellClick
    /\ ~drawer.open
    /\ drawer' = [open |-> TRUE, loading |-> TRUE]
    /\ BellAsk("list", NoNotice)
    /\ UNCHANGED <<unreadCount, listed, bellServer, bellLost>>

CloseNotifications ==
    /\ BellClick
    /\ drawer.open
    /\ drawer' = [drawer EXCEPT !.open = FALSE]
    /\ UNCHANGED <<unreadCount, listed, bellAsked, bellServer, bellLost>>

ItemsToRead == IF drawer.open /\ ~drawer.loading THEN listed.items \ listed.read ELSE {}

HandleMarkRead(i) ==
    /\ BellClick
    /\ i \in ItemsToRead
    /\ BellAsk("read", i)
    /\ UNCHANGED <<bellPage, bellServer, bellLost>>

HandleMarkAllRead ==
    /\ BellClick
    /\ drawer.open /\ unreadCount > 0
    /\ BellAsk("read-all", NoNotice)
    /\ UNCHANGED <<bellPage, bellServer, bellLost>>

\* The timer does not look whether the last poll was answered.
Poll(n) ==
    /\ ~\E r \in bellAsked : r.kind = "poll" /\ r.n = n
    /\ bellAsked' = bellAsked \cup {BellRequest(n, "poll", NoNotice)}
    /\ UNCHANGED <<bellPage, bellServer, bellClicks, bellLost>>
-----------------------------------------------------------------------------
(* The server, and whatever makes it notify the user.                      *)

Notify(i) ==
    /\ i \notin sentNotices
    /\ sentNotices' = sentNotices \cup {i}
    /\ UNCHANGED <<bellPage, bellAsked, readNotices, bellClicks, bellLost>>

BellServe(r) ==
    /\ r.phase = "sent"
    /\ readNotices' = CASE r.kind = "read"     -> readNotices \cup {r.id}
                        [] r.kind = "read-all" -> sentNotices
                        [] OTHER               -> readNotices
    /\ LET served == [r EXCEPT !.phase = "served"]
       IN bellAsked' = (bellAsked \ {r}) \cup
            {IF r.kind \in {"poll", "list"}
             THEN [served EXCEPT !.sent = sentNotices, !.read = readNotices]
             ELSE served}
    /\ UNCHANGED <<bellPage, sentNotices, bellClicks, bellLost>>
-----------------------------------------------------------------------------
(* The handlers after their await.                                         *)

BellAnswered(r, kind) ==
    /\ r.kind = kind /\ r.phase = "served"
    /\ bellAsked' = bellAsked \ {r}
    /\ UNCHANGED <<bellServer, bellClicks, bellLost>>

UnreadIn(r) == Cardinality(r.sent \ r.read)

\* A mutant: a poll only raises the count.
FinishPollRaises(r) ==
    /\ BellAnswered(r, "poll")
    /\ unreadCount' = IF UnreadIn(r) > unreadCount THEN UnreadIn(r) ELSE unreadCount
    /\ UNCHANGED <<listed, drawer>>

FinishPoll(r) ==
    /\ BellAnswered(r, "poll")
    /\ unreadCount' = UnreadIn(r)
    /\ UNCHANGED <<listed, drawer>>

FinishOpenNotifications(r) ==
    /\ BellAnswered(r, "list")
    /\ listed' = [items |-> r.sent, read |-> r.read]
    /\ unreadCount' = UnreadIn(r)
    /\ drawer' = [drawer EXCEPT !.loading = FALSE]

FinishMarkRead(r) ==
    /\ BellAnswered(r, "read")
    /\ listed' = [listed EXCEPT !.read = @ \cup {r.id}]
    /\ unreadCount' = IF unreadCount > 0 THEN unreadCount - 1 ELSE 0
    /\ UNCHANGED drawer

FinishMarkAllRead(r) ==
    /\ BellAnswered(r, "read-all")
    /\ listed' = [listed EXCEPT !.read = listed.items]
    /\ unreadCount' = 0
    /\ UNCHANGED drawer

FailBellRequest(r) ==
    /\ bellLost < MaxLost
    /\ bellLost' = bellLost + 1
    /\ bellAsked' = bellAsked \ {r}
    /\ drawer' = [drawer EXCEPT !.loading = @ /\ r.kind # "list"]
    /\ UNCHANGED <<unreadCount, listed, bellServer, bellClicks>>

FinishBell(r) ==
    FinishPoll(r) \/ FinishOpenNotifications(r) \/ FinishMarkRead(r) \/ FinishMarkAllRead(r)
-----------------------------------------------------------------------------
NotificationBellInit ==
    /\ unreadCount = 0
    /\ listed = [items |-> {}, read |-> {}]
    /\ drawer = [open |-> FALSE, loading |-> FALSE]
    /\ bellAsked = {BellRequest(1, "poll", NoNotice)}
    /\ sentNotices = {} /\ readNotices = {}
    /\ bellClicks = 0
    /\ bellLost = 0

NotificationBellNext ==
    \/ HandleOpenNotifications \/ CloseNotifications \/ HandleMarkAllRead
    \/ \E i \in Notices : HandleMarkRead(i) \/ Notify(i)
    \/ \E n \in 1..MaxPolls : Poll(n)
    \/ \E r \in bellAsked : BellServe(r) \/ FinishBell(r) \/ FailBellRequest(r)

\* While the bar is mounted the timer ticks and requests are answered.
NotificationBellFairness ==
    /\ \A n \in 1..MaxPolls : WF_bellVars(Poll(n))
    /\ WF_bellVars(\E r \in bellAsked : BellServe(r))
    /\ WF_bellVars(\E r \in bellAsked : FinishBell(r))

NotificationBellSpec ==
    NotificationBellInit /\ [][NotificationBellNext]_bellVars /\ NotificationBellFairness
-----------------------------------------------------------------------------
(* Whatever order the answers come in, and however often an item is        *)
(* clicked, the number on the bell comes to be the server's, and stays so, *)
(* once the server's no longer changes.                                    *)
UnreadCountSettles ==
    <>[](unreadCount = Cardinality(sentNotices \ readNotices))
=============================================================================
