------------------------------ MODULE WebSession ------------------------------
(***************************************************************************)
(* The session of the web client: the token in the browser's storage,      *)
(* which every request carries and which other tabs share, the copy in the *)
(* store, which the pages' guard looks at, and the page shown.             *)
(*                                                                         *)
(* An answer 401 removes the stored token, whichever token the request     *)
(* carried, and loads the login page, unless that is the page shown: then  *)
(* the store keeps its copy.  Loading a page ends what is in flight and    *)
(* reads the storage again; following a link or going back does neither.   *)
(*                                                                         *)
(* Pages behind the guard are one place, "app".  The user's requests there *)
(* are those of the top bar, which polls; MaxPolling bounds those in       *)
(* flight.  A form knows the handler that works for it by the number of    *)
(* its request.  MaxSessionSteps bounds what users, other tabs and time    *)
(* do, MaxTokens the tokens issued, MaxSessionLost the requests that fail. *)
(***************************************************************************)
EXTENDS Naturals

CONSTANTS MaxTokens, MaxPolling, MaxSessionSteps, MaxSessionLost

ASSUME WebSessionAssumption ==
    {MaxTokens, MaxPolling, MaxSessionSteps, MaxSessionLost} \subseteq Nat

VARIABLES
    place,         \* the page shown
    storedToken,   \* localStorage, 0 when there is none
    authStore,     \* the store: its token, and whether the user is known
    signing,       \* the requests the two spinners of the login page stand for
    leaving,       \* the timer that leaves the callback page
    sessionAsked,  \* the requests in flight
    issuedTokens,  \* the server: how many tokens it has issued
    validTokens,   \* and those that still count
    sessionSteps, sessionLost

sessionPage == <<place, authStore, signing, leaving>>
sessionServer == <<issuedTokens, validTokens>>
sessionCounts == <<sessionSteps, sessionLost>>
sessionVars == <<sessionPage, storedToken, sessionAsked, sessionServer, sessionCounts>>

NoToken == 0
Idle == [form |-> 0, wechat |-> 0]
SignedOut == [token |-> NoToken, known |-> FALSE]

SessionStep ==
    /\ sessionSteps < MaxSessionSteps
    /\ sessionSteps' = sessionSteps + 1
    /\ UNCHANGED sessionLost
-----------------------------------------------------------------------------
(* Where a link, or a load, leads: the guard sends the signed-out to the   *)
(* login page, the landing page the signed-in to the dashboard.            *)

Guarded(p, token) ==
    CASE p = "app" /\ token = NoToken     -> "login"
      [] p = "landing" /\ token # NoToken -> "app"
      [] OTHER                            -> p

\* A form that is left is forgotten; what it asked is still answered.
Navigate(p, token) ==
    /\ place' = Guarded(p, token)
    /\ signing' = IF place' = "login" /\ place = "login" THEN signing ELSE Idle

LoadPage(p, token) ==
    /\ place' = Guarded(p, token)
    /\ authStore' = [token |-> token, known |-> FALSE]
    /\ signing' = Idle
    /\ leaving' = FALSE

SessionRequest(n, kind, token) ==
    [n |-> n, kind |-> kind, token |-> token, phase |-> "sent", answer |-> "none",
     grant |-> NoToken]

SessionAsk(kind) ==
    sessionAsked' = sessionAsked \cup {SessionRequest(sessionSteps', kind, storedToken)}
-----------------------------------------------------------------------------
(* The user, other tabs and time.                                          *)

VisitPage(p) ==
    /\ SessionStep
    /\ LoadPage(p, storedToken)
    /\ sessionAsked' = {}
    /\ UNCHANGED <<storedToken, sessionServer>>

FollowLink(p) ==
    /\ SessionStep
    /\ place # "away" /\ p # place
    /\ Navigate(p, authStore.token)
    /\ UNCHANGED <<authStore, leaving, storedToken, sessionAsked, sessionServer>>

\* The forms of the login page, unless one is being answered.
FormsOffered == place = "login" /\ signing.form = 0

HandleLogin(kind) ==
    /\ SessionStep
    /\ FormsOffered
    /\ signing' = [signing EXCEPT !.form = sessionSteps']
    /\ SessionAsk(kind)
    /\ UNCHANGED <<place, authStore, leaving, storedToken, sessionServer>>

HandleWeChatLogin ==
    /\ SessionStep
    /\ place = "login" /\ signing.wechat = 0
    /\ signing' = [signing EXCEPT !.wechat = sessionSteps']
    /\ SessionAsk("qrcode")
    /\ UNCHANGED <<place, authStore, leaving, storedToken, sessionServer>>

\* WeChat sends the browser back, with a code or without one; without one the
\* page says that it leads to the login page, and stays.
ReturnFromWeChat(code) ==
    /\ SessionStep
    /\ place = "away"
    /\ LoadPage(IF code THEN "callback" ELSE "codeless", storedToken)
    /\ sessionAsked' =
            IF code THEN {SessionRequest(sessionSteps', "wechat", storedToken)} ELSE {}
    /\ UNCHANGED <<storedToken, sessionServer>>

HandleLogout ==
    /\ SessionStep
    /\ place = "app"
    /\ storedToken' = NoToken
    /\ authStore' = SignedOut
    /\ Navigate("login", NoToken)
    /\ UNCHANGED <<leaving, sessionAsked, sessionServer>>

IssueToken ==
    /\ issuedTokens < MaxTokens
    /\ issuedTokens' = issuedTokens + 1
    /\ validTokens' = validTokens \cup {issuedTokens'}

OtherTabSignsOut ==
    /\ SessionStep
    /\ storedToken # NoToken
    /\ storedToken' = NoToken
    /\ UNCHANGED <<sessionPage, sessionAsked, sessionServer>>

OtherTabSignsIn ==
    /\ SessionStep
    /\ IssueToken
    /\ storedToken' = issuedTokens'
    /\ UNCHANGED <<sessionPage, sessionAsked>>

ExpireToken(t) ==
    /\ SessionStep
    /\ validTokens' = validTokens \ {t}
    /\ UNCHANGED <<sessionPage, storedToken, sessionAsked, issuedTokens>>

\* The top bar asks for the unread count when it is mounted and every 30 s.
PollSession(n) ==
    /\ place = "app"
    /\ ~\E r \in sessionAsked : r.kind = "poll" /\ r.n = n
    /\ sessionAsked' = sessionAsked \cup {SessionRequest(n, "poll", storedToken)}
    /\ UNCHANGED <<sessionPage, storedToken, sessionServer, sessionCounts>>
-----------------------------------------------------------------------------
(* The server grants a token, does what it is asked, answers 401, or       *)
(* answers with another error.                                             *)

Refuses(r) == r.kind \in {"me", "poll"} /\ r.token \notin validTokens

SessionServe(r) ==
    LET Answer(a, t) ==
            sessionAsked' = (sessionAsked \ {r}) \cup
                {[r EXCEPT !.phase = "served", !.answer = a, !.grant = t]}
    IN  /\ r.phase = "sent"
        /\ \/ /\ r.kind \in {"login", "wechat"}
              /\ IssueToken
              /\ Answer("ok", issuedTokens')
           \/ /\ r.kind = "login" \/ Refuses(r)
              /\ Answer("refused", NoToken)
              /\ UNCHANGED sessionServer
           \/ /\ r.kind \notin {"login", "wechat"} /\ ~Refuses(r)
              /\ Answer("ok", NoToken)
              /\ UNCHANGED sessionServer
           \/ /\ r.kind \in {"register", "qrcode", "wechat"}
              /\ Answer("error", NoToken)
              /\ UNCHANGED sessionServer
    /\ UNCHANGED <<sessionPage, storedToken, sessionCounts>>
-----------------------------------------------------------------------------
(* What the client does with an answer.                                    *)

\* A spinner stops when the handler it stands for has ended.
Stopped(r) == [form   |-> IF signing.form = r.n THEN 0 ELSE signing.form,
               wechat |-> IF signing.wechat = r.n THEN 0 ELSE signing.wechat]

AskNext(r, kind, token) ==
    sessionAsked' = (sessionAsked \ {r}) \cup {SessionRequest(r.n, kind, token)}

SetAuth(token, known) ==
    /\ storedToken' = token
    /\ authStore' = [token |-> token, known |-> known]

FinishLogin(r) ==
    /\ r.kind = "login" /\ r.answer = "ok"
    /\ SetAuth(r.grant, FALSE)
    /\ AskNext(r, "me", r.grant)
    /\ UNCHANGED <<place, signing, leaving>>

FinishRegister(r) ==
    /\ r.kind = "register" /\ r.answer = "ok"
    /\ AskNext(r, "login", storedToken)
    /\ UNCHANGED <<sessionPage, storedToken>>

\* The profile may be missing: the dashboard is shown all the same.
EnterDashboard(r, known) ==
    /\ authStore' = [authStore EXCEPT !.known = @ \/ known]
    /\ place' = Guarded("app", authStore.token)
    /\ signing' = IF place = "login" /\ place' = "login" THEN Stopped(r) ELSE Idle
    /\ sessionAsked' = sessionAsked \ {r}
    /\ UNCHANGED leaving

FinishMe(r) ==
    /\ r.kind = "me" /\ r.answer = "ok"
    /\ EnterDashboard(r, TRUE)
    /\ UNCHANGED storedToken

FinishQrCode(r) ==
    /\ r.kind = "qrcode" /\ r.answer = "ok"
    /\ place' = "away"
    /\ sessionAsked' = {} /\ signing' = Idle /\ leaving' = FALSE
    /\ UNCHANGED <<authStore, storedToken>>

FinishWeChat(r) ==
    /\ r.kind = "wechat" /\ r.answer = "ok"
    /\ SetAuth(r.grant, TRUE)
    /\ Navigate("app", r.grant)
    /\ sessionAsked' = sessionAsked \ {r}
    /\ UNCHANGED leaving

FinishPollSession(r) ==
    /\ r.kind = "poll" /\ r.answer = "ok"
    /\ sessionAsked' = sessionAsked \ {r}
    /\ UNCHANGED <<sessionPage, storedToken>>

\* What the handlers catch: an error, or a 401 on the login page.
Caught(r) ==
    CASE r.kind = "me" -> EnterDashboard(r, FALSE)
      [] r.kind = "wechat" ->
            /\ leaving' = TRUE
            /\ sessionAsked' = sessionAsked \ {r}
            /\ UNCHANGED <<place, authStore, signing>>
      [] r.kind = "poll" ->
            /\ sessionAsked' = sessionAsked \ {r}
            /\ UNCHANGED sessionPage
      [] OTHER ->
            /\ signing' = Stopped(r)
            /\ sessionAsked' = sessionAsked \ {r}
            /\ UNCHANGED <<place, authStore, leaving>>

\* A mutant: the token goes, the page stays.
FinishRefusedStays(r) ==
    /\ r.answer = "refused"
    /\ storedToken' = NoToken
    /\ Caught(r)

FinishRefused(r) ==
    /\ r.answer = "refused"
    /\ storedToken' = NoToken
    /\ IF place = "login"
       THEN Caught(r)
       ELSE LoadPage("login", NoToken) /\ sessionAsked' = {}

FinishSession(r) ==
    /\ r.phase = "served"
    /\ \/ FinishLogin(r) \/ FinishRegister(r) \/ FinishMe(r) \/ FinishQrCode(r)
       \/ FinishWeChat(r) \/ FinishPollSession(r) \/ FinishRefused(r)
       \/ r.answer = "error" /\ Caught(r) /\ UNCHANGED storedToken
    /\ UNCHANGED <<sessionServer, sessionCounts>>

FailSessionRequest(r) ==
    /\ sessionLost < MaxSessionLost
    /\ sessionLost' = sessionLost + 1
    /\ Caught(r)
    /\ UNCHANGED <<storedToken, sessionServer, sessionSteps>>

LeaveCallback ==
    /\ leaving
    /\ leaving' = FALSE
    /\ Navigate("login", authStore.token)
    /\ UNCHANGED <<authStore, storedToken, sessionAsked, sessionServer, sessionCounts>>
-----------------------------------------------------------------------------
WebSessionInit ==
    /\ place = "landing"
    /\ storedToken = NoToken /\ authStore = SignedOut
    /\ signing = Idle /\ leaving = FALSE
    /\ sessionAsked = {}
    /\ issuedTokens = 0 /\ validTokens = {}
    /\ sessionSteps = 0 /\ sessionLost = 0

WebSessionNext ==
    \/ \E p \in {"landing", "login", "app"} : VisitPage(p) \/ FollowLink(p)
    \/ \E kind \in {"login", "register"} : HandleLogin(kind)
    \/ HandleWeChatLogin \/ HandleLogout
    \/ \E code \in BOOLEAN : ReturnFromWeChat(code)
    \/ OtherTabSignsOut \/ OtherTabSignsIn
    \/ \E t \in validTokens : ExpireToken(t)
    \/ \E n \in 1..MaxPolling : PollSession(n)
    \/ \E r \in sessionAsked : SessionServe(r) \/ FinishSession(r) \/ FailSessionRequest(r)
    \/ LeaveCallback

WebSessionFairness ==
    /\ \A n \in 1..MaxPolling : WF_sessionVars(PollSession(n))
    /\ WF_sessionVars(\E r \in sessionAsked : SessionServe(r))
    /\ WF_sessionVars(\E r \in sessionAsked : FinishSession(r))

WebSessionSpec ==
    WebSessionInit /\ [][WebSessionNext]_sessionVars /\ WebSessionFairness
-----------------------------------------------------------------------------
(* Whatever tabs, late answers and time do to the token, in the end a page *)
(* behind the guard is shown only to those whose requests the server still *)
(* accepts: any other is left for the login page.                          *)
PagesAreSignedIn == <>[](place = "app" => storedToken \in validTokens)
=============================================================================
