------------------------------ MODULE WeChatLogin ------------------------------
(***************************************************************************)
(* Signing in with WeChat (api/v1/auth.py, from wechat_qr_url on).  A      *)
(* state is put into Redis when the QR code is asked for.  A callback      *)
(* looks for the state and then deletes it, asks WeChat who it is, looks   *)
(* the user up and, the first time, creates one: each a step of its own    *)
(* that others come between.                                               *)
(*                                                                         *)
(* A user is known by the openid.  The database keeps openids unique, and  *)
(* in a tenant the mail addresses, which are made of the first eight       *)
(* characters of the openid: its prefix.  A state is never handed out      *)
(* twice.  WeChat and its codes are outside: a callback brings any code,   *)
(* that of another callback too, and WeChat answers with any openid or an  *)
(* error.  Names, pictures and tokens are left out.                        *)
(***************************************************************************)
CONSTANTS
    Logins,    \* callbacks worked on at a time
    QrStates,  \* the states there may be
    Openids,   \* those who sign in
    PrefixOf   \* the first eight characters of an openid

ASSUME WeChatLoginAssumption == DOMAIN PrefixOf = Openids

VARIABLES
    inRedis,    \* the states in Redis
    handedOut,  \* the states that were, at some time
    login,      \* what each callback is doing
    users,      \* the openids that have a committed user
    usedUp,     \* history: the states that a callback got past
    signedIn,   \* history: the openids that were answered with a token
    refused     \* history: the openids whose insert the database refused

loginVars == <<inRedis, handedOut, login, users, usedUp, signedIn, refused>>

\* "found": the state was in Redis; "asking": WeChat is asked; "known": it has
\* answered; "unknown": there is no such user; "inserted": there is, uncommitted.
NoLogin == [step |-> "none"]

WeChatLoginTypeOK ==
    /\ inRedis \subseteq handedOut /\ handedOut \subseteq QrStates
    /\ login \in [Logins -> {NoLogin} \cup [step : {"found", "asking"}, state : QrStates]
                              \cup [step : {"known", "unknown", "inserted"}, who : Openids]]
    /\ users \subseteq Openids /\ signedIn \subseteq Openids /\ refused \subseteq Openids
    /\ usedUp \subseteq handedOut

LoginAt(c, step) == login[c].step = step
LoginGoes(c, l) == login' = [login EXCEPT ![c] = l]

\* The database takes p and o for one: they share the openid or the mail address.
Clash(p, o) == p = o \/ PrefixOf[p] = PrefixOf[o]
-----------------------------------------------------------------------------
\* wechat_qr_url
HandOut(s) ==
    /\ s \notin handedOut
    /\ handedOut' = handedOut \cup {s}
    /\ inRedis' = inRedis \cup {s}
    /\ UNCHANGED <<login, users, usedUp, signedIn, refused>>

\* After five minutes.
StateExpires(s) ==
    /\ s \in inRedis
    /\ inRedis' = inRedis \ {s}
    /\ UNCHANGED <<handedOut, login, users, usedUp, signedIn, refused>>

\* wechat_callback finds the state.  One that does not is refused at once.
FindState(c, s) ==
    /\ login[c] = NoLogin
    /\ s \in inRedis
    /\ LoginGoes(c, [step |-> "found", state |-> s])
    /\ UNCHANGED <<inRedis, handedOut, users, usedUp, signedIn, refused>>

\* Mutant of DeleteState: the state is left to expire.
KeepState(c) ==
    /\ LoginAt(c, "found")
    /\ LoginGoes(c, [login[c] EXCEPT !.step = "asking"])
    /\ usedUp' = usedUp \cup {login[c].state}
    /\ UNCHANGED <<inRedis, handedOut, users, signedIn, refused>>

DeleteState(c) ==
    /\ LoginAt(c, "found")
    /\ inRedis' = inRedis \ {login[c].state}
    /\ LoginGoes(c, [login[c] EXCEPT !.step = "asking"])
    /\ usedUp' = usedUp \cup {login[c].state}
    /\ UNCHANGED <<handedOut, users, signedIn, refused>>

\* exchange_code and get_user_info
WeChatAnswers(c) ==
    /\ LoginAt(c, "asking")
    /\ \E o \in Openids : LoginGoes(c, [step |-> "known", who |-> o])
    /\ UNCHANGED <<inRedis, handedOut, users, usedUp, signedIn, refused>>

\* The user of the openid is there, or is not.
FindUser(c) ==
    /\ LoginAt(c, "known")
    /\ IF login[c].who \in users
       THEN LoginGoes(c, NoLogin) /\ signedIn' = signedIn \cup {login[c].who}
       ELSE LoginGoes(c, [login[c] EXCEPT !.step = "unknown"]) /\ UNCHANGED signedIn
    /\ UNCHANGED <<inRedis, handedOut, users, usedUp, refused>>

\* The insert is flushed, once no other transaction holds a user it clashes with.
InsertUser(c) ==
    /\ LoginAt(c, "unknown")
    /\ \A d \in Logins : LoginAt(d, "inserted") => ~Clash(login[d].who, login[c].who)
    /\ IF \E p \in users : Clash(p, login[c].who)
       THEN LoginGoes(c, NoLogin) /\ refused' = refused \cup {login[c].who}
       ELSE LoginGoes(c, [login[c] EXCEPT !.step = "inserted"]) /\ UNCHANGED refused
    /\ UNCHANGED <<inRedis, handedOut, users, usedUp, signedIn>>

CommitUser(c) ==
    /\ LoginAt(c, "inserted")
    /\ users' = users \cup {login[c].who}
    /\ signedIn' = signedIn \cup {login[c].who}
    /\ LoginGoes(c, NoLogin)
    /\ UNCHANGED <<inRedis, handedOut, usedUp, refused>>

\* Redis, WeChat or the database fails, or WeChat answers with an error: what
\* was inserted is rolled back.
LoginFails(c) ==
    /\ login[c] # NoLogin
    /\ LoginGoes(c, NoLogin)
    /\ UNCHANGED <<inRedis, handedOut, users, usedUp, signedIn, refused>>
-----------------------------------------------------------------------------
WeChatLoginInit ==
    /\ inRedis = {} /\ handedOut = {} /\ usedUp = {}
    /\ login = [c \in Logins |-> NoLogin]
    /\ users = {} /\ signedIn = {} /\ refused = {}

WeChatLoginNext ==
    \/ \E s \in QrStates : HandOut(s) \/ StateExpires(s)
    \/ \E c \in Logins :
         \/ \E s \in QrStates : FindState(c, s)
         \/ DeleteState(c) \/ WeChatAnswers(c) \/ FindUser(c) \/ InsertUser(c)
         \/ CommitUser(c) \/ LoginFails(c)
-----------------------------------------------------------------------------
(* However callbacks overlap:                                               *)
(*   - a state serves those that found it before the first of them deleted  *)
(*     it, and nobody who begins later;                                     *)
(*   - whoever holds a token has a user that is there to stay, and two      *)
(*     users never share a mail address;                                    *)
(*   - who is refused by the database is there already, and gets in by      *)
(*     trying again, unless someone else came first with the same prefix.   *)
LoginsHold ==
    /\ usedUp \cap inRedis = {}
    /\ signedIn \subseteq users
    /\ \A o, p \in users : Clash(o, p) => o = p
    /\ \A o \in refused :
         o \in users \/ \E p \in users : p # o /\ PrefixOf[p] = PrefixOf[o]
===============================================================================
