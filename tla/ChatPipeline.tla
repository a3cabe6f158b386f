----------------------------- MODULE ChatPipeline -----------------------------
(***************************************************************************)
(* Chats of one tenant: chat_service.py from the quota check to the        *)
(* records of a chat, inside the database session of its HTTP request.     *)
(* Chats meet in the usage records: billing_service.check_quota sums the   *)
(* committed ones when a chat begins, and a chat's own are committed when  *)
(* its request ends.  What one chat does between two awaits that touch the *)
(* database or the client is one step.                                     *)
(*                                                                         *)
(* The quota that is checked is that of the user's tenant; the tenant that *)
(* is charged is the agent's, and an agent of any tenant can be named.     *)
(* Chats are those whose user and agent are of the tenant.  A chat of      *)
(* another tenant's user with an agent of this tenant goes the same way    *)
(* there, and is checked there: here it is the records its request commits *)
(* (GuestChat).  This tenant's users are such guests of others, too, and   *)
(* leave nothing here.                                                     *)
(*                                                                         *)
(* A session that failed to flush is broken: whatever it had flushed is    *)
(* rolled back, and it raises on every later use.  Some callers swallow    *)
(* that exception and go on (billing, audit, memory, the MCP gateway),     *)
(* others do not (the question, the reply, the commit).  The rollback also *)
(* expires the conversation, unless it is new: reading it raises, too.     *)
(*                                                                         *)
(* The request's session is taken to outlive its stream, as it does in     *)
(* FastAPI from 0.118 on (requirements.txt asks for 0.115 or later).       *)
(*                                                                         *)
(* Left out: retrieval, prompts, routing and the text of messages; the     *)
(* change of month; delegated calls, which are not billed.  Every user has *)
(* a tenant, as the column demands.  The choice of a model is the subject  *)
(* of CircuitBreaker: here a call is answered or no model is left.         *)
(* MaxFaults bounds the database failures of a run.  What is charged to    *)
(* the tenant without a check, by guests and by tool calls outside chats,  *)
(* is only kept as far as check_quota reads it: up to the limits.          *)
(***************************************************************************)
EXTENDS Integers, FiniteSets

CONSTANTS
    Chats,          \* chats that can be worked on at a time
    CallLimit,      \* monthly_calls of the tenant's plan
    TokenLimit,     \* monthly_tokens of the tenant's plan
    MaxToolRounds,  \* _MAX_TOOL_ROUNDS
    MaxTools,       \* MCP tools a model calls in a round
    MaxTokens,      \* tokens a provider counts for a round
    MaxFaults       \* bound: database failures

ASSUME PipelineAssumption ==
    /\ CallLimit \in Nat \ {0}
    /\ TokenLimit \in Nat \ {0}
    /\ MaxToolRounds \in Nat
    /\ MaxTools \in Nat
    /\ MaxTokens \in Nat
    /\ MaxFaults \in Nat
    /\ IsFiniteSet(Chats)

VARIABLES
    usage,   \* the tenant's committed usage records of its chats: how many,
             \* and their tokens
    others,  \* its other usage records, as far as they matter to the quota
    chat,    \* what each chat is doing
    kept,    \* the rows the last request of each chat committed
    faults   \* database failures so far

vars == <<usage, others, chat, kept, faults>>

\* "ended": the request returned; "cut": its client or its process went away.
Ends == {"idle", "ended", "cut"}
Locations == Ends \cup {"asking", "calling", "tools", "answering", "saving",
                        "billing", "returning"}
Replies == {"none", "answer", "unavailable", "exhausted"}

\* The rows of a session: the question, the reply with its tokens, the usage
\* records of MCP calls and that of the chat with its tokens.
Rows == [question : BOOLEAN, reply : Replies, tokens : Nat,
         calls : Nat, billed : BOOLEAN, charge : Nat]
NoRows == [question |-> FALSE, reply |-> "none", tokens |-> 0,
           calls |-> 0, billed |-> FALSE, charge |-> 0]

Chat == [pc : Locations, stream : BOOLEAN, round : 0..MaxToolRounds, total : Nat,
         reply : Replies, rows : Rows, broken : BOOLEAN,
         done : 0..2, error : BOOLEAN]  \* what the client was told
NewChat == [pc |-> "idle", stream |-> FALSE, round |-> 0, total |-> 0,
            reply |-> "none", rows |-> NoRows, broken |-> FALSE,
            done |-> 0, error |-> FALSE]

Usage == [calls : Nat, tokens : Nat]

TypeOK ==
    /\ usage \in Usage
    /\ others \in [calls : 0..CallLimit, tokens : 0..TokenLimit]
    /\ chat \in [Chats -> Chat]
    /\ kept \in [Chats -> Rows]
    /\ faults \in 0..MaxFaults

Init ==
    /\ usage = [calls |-> 0, tokens |-> 0]
    /\ others = [calls |-> 0, tokens |-> 0]
    /\ chat = [c \in Chats |-> NewChat]
    /\ kept = [c \in Chats |-> NoRows]
    /\ faults = 0

\* The most calls one chat is recorded with: its own, and its tools'.
CallsPerChat == 1 + (MaxToolRounds + 1) * MaxTools
TokensPerChat == (MaxToolRounds + 1) * MaxTokens

-----------------------------------------------------------------------------
\* Mutant of Allowed: a tenant that has used up its calls has one more.
AllowedOneMore ==
    /\ usage.calls + others.calls <= CallLimit
    /\ usage.tokens + others.tokens < TokenLimit

\* check_quota on the tenant's usage, as get_plan_info sums it up.
Allowed ==
    /\ usage.calls + others.calls < CallLimit
    /\ usage.tokens + others.tokens < TokenLimit

At(c, location) == chat[c].pc = location
Busy(c) == chat[c].pc \notin Ends

\* The next state of a chat is t; nothing is committed.
Becomes(c, t) ==
    /\ chat' = [chat EXCEPT ![c] = t]
    /\ UNCHANGED <<usage, others, kept>>

\* Mutant of Lost: the flush has a savepoint, and its failure leaves the session
\* as it was.
LostInSavepoint(t) == t

\* A session that failed to flush.
Lost(t) == [t EXCEPT !.broken = TRUE, !.rows = NoRows]

\* A flush: the chat goes on as "good" if it succeeds, and as "bad" if the
\* session is broken or the database fails now.
Flush(c, good, bad) ==
    \/ /\ ~chat[c].broken
       /\ Becomes(c, good)
       /\ UNCHANGED faults
    \/ /\ chat[c].broken
       /\ Becomes(c, Lost(bad))
       /\ UNCHANGED faults
    \/ /\ ~chat[c].broken
       /\ faults < MaxFaults
       /\ faults' = faults + 1
       /\ Becomes(c, Lost(bad))

\* Mutants of Raised: the stream is not wrapped, and just stops; it ends with
\* "done" but without "error".
RaisedUnwrapped(t) == [t EXCEPT !.pc = "returning", !.error = TRUE]

RaisedSilently(t) ==
    [t EXCEPT !.pc = "returning", !.done = IF t.stream THEN @ + 1 ELSE @]

\* An exception leaves the pipeline: _safe_stream sends "error" and "done",
\* chat_completions answers 500.  Neither passes it on, so get_db commits.
Raised(t) ==
    [t EXCEPT !.pc = "returning", !.error = TRUE, !.done = IF t.stream THEN @ + 1 ELSE @]

Finished(t) ==
    [NewChat EXCEPT !.pc = "ended", !.stream = t.stream, !.done = t.done, !.error = t.error]

\* get_db commits a chat's session: its rows stay, and its records are charged.
Commit(c) ==
    LET rows == chat[c].rows
    IN  /\ kept' = [kept EXCEPT ![c] = rows]
        /\ usage' = [calls |-> usage.calls + rows.calls + (IF rows.billed THEN 1 ELSE 0),
                     tokens |-> usage.tokens + rows.charge]
        /\ UNCHANGED others

-----------------------------------------------------------------------------
\* A request comes in.  A tenant over its quota, and one whose usage cannot be
\* read, is told so; nothing is written.
CheckQuota(c) ==
    /\ ~Busy(c)
    /\ \E stream \in BOOLEAN :
         \/ /\ Allowed
            /\ chat' = [chat EXCEPT ![c] = [NewChat EXCEPT !.pc = "asking", !.stream = stream]]
            /\ UNCHANGED faults
         \/ /\ chat' = [chat EXCEPT ![c] =
                          Finished(Raised([NewChat EXCEPT !.stream = stream]))]
            /\ \/ ~Allowed /\ UNCHANGED faults
               \/ faults < MaxFaults /\ faults' = faults + 1
    /\ kept' = [kept EXCEPT ![c] = NoRows]
    /\ UNCHANGED <<usage, others>>

\* The conversation, if it is new, and the user's message.
SaveQuestion(c) ==
    /\ At(c, "asking")
    /\ Flush(c, [chat[c] EXCEPT !.pc = "calling", !.rows.question = TRUE], Raised(chat[c]))

\* A round of the LLM: call_with_fallback, and the chunks of the stream it
\* returns.
\*  - No model is left: the stream says so and is done.
\*  - The stream breaks off: what was shown of the round is forgotten, with its
\*    tokens, and the reply is made of the rounds before.
\*  - The round is complete, with tool calls or without.
CallModel(c) ==
    /\ At(c, "calling")
    /\ \/ Becomes(c, [chat[c] EXCEPT !.pc = "saving", !.reply = "unavailable",
                       !.error = TRUE, !.done = IF chat[c].stream THEN @ + 1 ELSE @])
       \/ /\ chat[c].stream
          /\ Becomes(c, [chat[c] EXCEPT !.pc = "answering", !.error = TRUE])
       \/ \E n \in 0..MaxTokens, next \in {"tools", "answering"} :
            Becomes(c, [chat[c] EXCEPT !.pc = next, !.total = @ + n])
    /\ UNCHANGED faults

\* Mutants of NextRound: one round more; the rounds are not counted.
NextRoundOneMore(t) ==
    IF t.round <= MaxToolRounds THEN [t EXCEPT !.pc = "calling", !.round = @ + 1]
    ELSE IF t.stream THEN [t EXCEPT !.pc = "answering"]
    ELSE [t EXCEPT !.pc = "saving", !.reply = "exhausted"]

NextRoundUncounted(t) == [t EXCEPT !.pc = "calling"]

\* After the tools of a round comes the next one, if there is one.
NextRound(t) ==
    IF t.round < MaxToolRounds THEN [t EXCEPT !.pc = "calling", !.round = @ + 1]
    ELSE IF t.stream THEN [t EXCEPT !.pc = "answering"]
    ELSE [t EXCEPT !.pc = "saving", !.reply = "exhausted"]

\* The round's tool calls.  Those of MCP connectors are recorded one by one, and
\* plugin calls audited; a failure to record is swallowed.  In a later round the
\* conversation may turn out to be expired.
ExecuteTools(c) ==
    /\ At(c, "tools")
    /\ \/ \E n \in 0..MaxTools :
            Flush(c, NextRound([chat[c] EXCEPT !.rows.calls = @ + n]), NextRound(chat[c]))
       \/ chat[c].broken /\ Becomes(c, Raised(chat[c])) /\ UNCHANGED faults

\* post_process_response.  An <analysis> block that is JSON but no object makes
\* it raise.  A stream stores the key facts, where a failure is swallowed, and
\* is done before anything of the reply is saved.
PostProcess(c) ==
    /\ At(c, "answering")
    /\ LET answer == [chat[c] EXCEPT !.pc = "saving", !.reply = "answer"]
           shown == [answer EXCEPT !.done = @ + 1]
       IN  \/ Becomes(c, Raised(chat[c])) /\ UNCHANGED faults
           \/ ~chat[c].stream /\ Becomes(c, answer) /\ UNCHANGED faults
           \/ chat[c].stream /\ Flush(c, shown, shown)

\* _save_assistant_message.  Answers are billed next, and a stream audits that
\* no model was left.
SaveReply(c) ==
    /\ At(c, "saving")
    /\ LET t == chat[c]
           next == IF t.reply = "answer" \/ (t.reply = "unavailable" /\ t.stream)
                   THEN "billing" ELSE "returning"
       IN  Flush(c, [t EXCEPT !.pc = next, !.rows.reply = t.reply,
                              !.rows.tokens = IF t.reply = "unavailable" THEN 0 ELSE t.total],
                 Raised(t))

\* log_chat and, for an answer, record_chat_usage: failures are swallowed.  But
\* one of log_chat can expire the conversation record_chat_usage is called with.
Bill(c) ==
    /\ At(c, "billing")
    /\ LET t == [chat[c] EXCEPT !.pc = "returning"]
           billed == [t EXCEPT !.rows.billed = TRUE, !.rows.charge = t.total]
       IN  \/ t.reply = "answer" /\ Flush(c, billed, t)
           \/ t.reply = "answer" /\ Flush(c, billed, Raised(t))
           \/ t.reply # "answer" /\ Flush(c, t, t)

\* get_db commits at the end of the request.  A broken session, or a commit that
\* fails, leaves nothing.
Return(c) ==
    /\ At(c, "returning")
    /\ \/ ~chat[c].broken /\ Commit(c) /\ UNCHANGED faults
       \/ /\ \/ chat[c].broken /\ UNCHANGED faults
             \/ faults < MaxFaults /\ faults' = faults + 1
          /\ UNCHANGED <<usage, others, kept>>
    /\ chat' = [chat EXCEPT ![c] = Finished(@)]

\* Locations where the pipeline awaits something else than the database: the
\* provider, a tool, the client that is sent an event.
Interruptible == {"calling", "tools", "answering", "saving"}

\* The process dies, or the client of a stream goes away, which cancels the
\* generator at the await it is in.  A cancelled statement takes its connection,
\* and with it what was flushed, along.  Otherwise the request is over without
\* an exception, and get_db commits what the session holds: the question, and
\* the records of the tools so far.
Cut(c) ==
    /\ Busy(c)
    /\ chat' = [chat EXCEPT ![c] = [NewChat EXCEPT !.pc = "cut"]]
    /\ \/ UNCHANGED <<usage, others, kept>>
       \/ /\ chat[c].stream /\ ~chat[c].broken /\ chat[c].pc \in Interruptible
          /\ Commit(c)
    /\ UNCHANGED faults

\* The records of others with n more calls and m more tokens.
MoreOfOthers(n, m) ==
    LET UpTo(limit, k) == IF k < limit THEN k ELSE limit
    IN  [calls |-> UpTo(CallLimit, others.calls + n),
         tokens |-> UpTo(TokenLimit, others.tokens + m)]

\* A chat of another tenant's user with an agent of this tenant ends: what its
\* session holds is charged here, where nobody checked the quota.
GuestChat ==
    /\ \E n \in 1..CallsPerChat, m \in 0..TokensPerChat : others' = MoreOfOthers(n, m)
    /\ UNCHANGED <<usage, chat, kept, faults>>

\* A tool is executed from the connectors page: recorded like the tool calls of
\* chats, and not subject to the quota.
ExecuteConnectorTool ==
    /\ others' = MoreOfOthers(1, 0)
    /\ UNCHANGED <<usage, chat, kept, faults>>

Work(c) ==
    \/ SaveQuestion(c) \/ CallModel(c) \/ ExecuteTools(c) \/ PostProcess(c)
    \/ SaveReply(c) \/ Bill(c) \/ Return(c)

Next ==
    \/ \E c \in Chats : CheckQuota(c) \/ Work(c) \/ Cut(c)
    \/ GuestChat
    \/ ExecuteConnectorTool

\* Providers, tools and the database answer or time out.
Fairness == \A c \in Chats : WF_vars(Work(c))

Spec == Init /\ [][Next]_vars /\ Fairness

-----------------------------------------------------------------------------
(* Properties *)

\* A tenant's chats overshoot its quota by no more than what those that are
\* worked on at a time can use, although a chat is checked against usage that is
\* committed only when chats end, and its tools are not checked at all.  (The
\* chats of other tenants' users with its agents, and tool calls outside chats,
\* come on top: they count in the check of others, and are bounded by none.)
QuotaOvershootBounded ==
    /\ usage.calls <= CallLimit - 1 + Cardinality(Chats) * CallsPerChat
    /\ usage.tokens <= TokenLimit - 1 + Cardinality(Chats) * TokensPerChat

\* Question, reply and charge are kept together, whatever was swallowed on the
\* way: an answer in the history was billed with the tokens it shows, nothing
\* else was billed, and no reply stands without its question.
RepliesAreBilled ==
    \A c \in Chats :
        /\ kept[c].reply = "answer" <=> kept[c].billed
        /\ kept[c].billed => kept[c].charge = kept[c].tokens
        /\ kept[c].reply # "none" => kept[c].question

\* A question left in the history without a reply was reported to its user as
\* an error.
UnansweredIsReported ==
    \A c \in Chats :
        At(c, "ended") /\ kept[c].question /\ kept[c].reply = "none" => chat[c].error

\* A stream that was not cut ends with "done", whatever raised in it.
EndedStreamsAreDone ==
    \A c \in Chats : At(c, "ended") /\ chat[c].stream => chat[c].done # 0

\* Every chat ends: the tool rounds are bounded.
ChatEnds ==
    \A c \in Chats : Busy(c) ~> ~Busy(c)

\* api/v1/chat.py:69, "done - stream complete": nothing follows "done".
\* Violated: the reply is saved after "done", and a failure to save it makes
\* _safe_stream send "error" and a second "done".
NothingFollowsDone ==
    \A c \in Chats : chat[c].done <= 1

=============================================================================
