-------------------------- MODULE ChatPipelineProofs --------------------------
(***************************************************************************)
(* Theorems about ChatPipeline, for any number of chats, rounds, tools,    *)
(* limits and database failures.                                           *)
(*                                                                         *)
(* The invariant has two parts.  ChatInv says of each chat what its        *)
(* session holds at each point of the pipeline; that question, reply and   *)
(* charge are kept together follows from it.  QuotaInv bounds the usage    *)
(* with the number of chats that are worked on: each of them was admitted  *)
(* below the limit and may still add its share.                            *)
(***************************************************************************)
EXTENDS ChatPipeline, FiniteSetTheorems, TLAPS

Consistent(rows) ==
    /\ rows.reply = "answer" <=> rows.billed
    /\ rows.billed => rows.charge = rows.tokens
    /\ rows.reply # "none" => rows.question

\* What the session of a chat holds, by how far the chat is.
SessionInv(t) ==
    /\ t.broken => t.rows = NoRows
    /\ ~t.broken =>
         /\ t.pc \in Ends \cup {"asking"} => t.rows = NoRows
         /\ t.pc \in {"calling", "tools", "answering", "saving"} =>
              t.rows.question /\ t.rows.reply = "none" /\ ~t.rows.billed
         /\ t.pc = "saving" => t.reply # "none"
         /\ t.pc = "billing" =>
              /\ t.rows.question /\ ~t.rows.billed
              /\ t.rows.reply = t.reply
              /\ t.reply \in {"answer", "unavailable"}
              /\ t.reply = "answer" => t.rows.tokens = t.total
         /\ t.pc = "returning" => Consistent(t.rows)

\* The rounds whose tool calls, and whose tokens, are counted.
ToolRounds(t) == IF t.pc \in {"asking", "calling", "tools"} THEN t.round ELSE t.round + 1
TokenRounds(t) == IF t.pc \in {"asking", "calling"} THEN t.round ELSE t.round + 1

BudgetInv(t) ==
    /\ t.rows.calls <= ToolRounds(t) * MaxTools
    /\ t.total <= TokenRounds(t) * MaxTokens
    /\ t.rows.charge <= t.total

EventsInv(t) ==
    /\ t.pc \in {"asking", "calling", "tools", "answering"} => t.done = 0
    /\ t.pc \in {"saving", "billing"} => t.done <= 1

ChatInv(t) == t \in Chat /\ SessionInv(t) /\ BudgetInv(t) /\ EventsInv(t)

Admitted == {c \in Chats : Busy(c)}

\* The chats that are not worked on have used up their shares, at worst.
QuotaInv ==
    LET resting == Cardinality(Chats) - Cardinality(Admitted)
    IN  /\ usage.calls <= CallLimit - 1 + resting * CallsPerChat
        /\ usage.tokens <= TokenLimit - 1 + resting * TokensPerChat

PipelineInv ==
    /\ TypeOK
    /\ \A c \in Chats : ChatInv(chat[c])
    /\ \A c \in Chats : Consistent(kept[c])
    /\ QuotaInv

-----------------------------------------------------------------------------
\* Arithmetic the solvers need in small pieces.
LEMMA TimesMonotone ==
    ASSUME NEW a \in Nat, NEW b \in Nat, NEW k \in Nat, a <= b
    PROVE  /\ a * k \in Nat
           /\ a * k <= b * k
           /\ (a + 1) * k = a * k + k
OBVIOUS

LEMMA SharesAreNaturals == CallsPerChat \in Nat /\ TokensPerChat \in Nat
BY PipelineAssumption DEF CallsPerChat, TokensPerChat

LEMMA NoRowsIsEmpty ==
    /\ NoRows \in Rows
    /\ Consistent(NoRows)
    /\ ~NoRows.question /\ NoRows.reply = "none" /\ ~NoRows.billed
    /\ NoRows.calls = 0 /\ NoRows.charge = 0 /\ NoRows.tokens = 0
BY DEF NoRows, Rows, Replies, Consistent

\* A chat that has not begun, and one that is over.
LEMMA FreshInv ==
    ASSUME NEW t \in Chat, t.pc \in Ends \cup {"asking"}, t.rows = NoRows, ~t.broken,
           t.total = 0, t.round = 0, t.pc = "asking" => t.done = 0
    PROVE  ChatInv(t)
<1>1. /\ ToolRounds(t) \in {0, 1} /\ TokenRounds(t) \in {0, 1}
  BY DEF ToolRounds, TokenRounds
<1>2. 0 <= ToolRounds(t) * MaxTools /\ 0 <= TokenRounds(t) * MaxTokens
  <2>1. 0 * MaxTools = 0 /\ 1 * MaxTools = MaxTools /\ 0 * MaxTokens = 0 /\ 1 * MaxTokens = MaxTokens
    BY PipelineAssumption
  <2> QED
    BY <1>1, <2>1, PipelineAssumption
<1>3. BudgetInv(t)
  BY <1>2, NoRowsIsEmpty DEF BudgetInv
<1> QED
  BY <1>3 DEF ChatInv, SessionInv, EventsInv, Ends

LEMMA NewChatInv ==
    /\ NewChat \in Chat
    /\ ChatInv(NewChat)
    /\ ChatInv([NewChat EXCEPT !.pc = "cut"])
    /\ \A stream \in BOOLEAN : ChatInv([NewChat EXCEPT !.pc = "asking", !.stream = stream])
    /\ \A t \in Chat : ChatInv(Finished(t))
<1>1. NewChat \in Chat
  BY PipelineAssumption, NoRowsIsEmpty DEF NewChat, Chat, Locations, Ends, Replies
<1>2. ChatInv(NewChat)
  BY <1>1, FreshInv DEF NewChat, Ends
<1>3. ChatInv([NewChat EXCEPT !.pc = "cut"])
  <2> DEFINE t == [NewChat EXCEPT !.pc = "cut"]
  <2>1. t \in Chat
    BY <1>1 DEF Chat, Locations, Ends
  <2>2. t.pc = "cut" /\ t.rows = NoRows /\ ~t.broken /\ t.total = 0 /\ t.round = 0
    BY DEF NewChat
  <2> QED
    BY <2>1, <2>2, FreshInv DEF Ends
<1>4. ASSUME NEW stream \in BOOLEAN
      PROVE  ChatInv([NewChat EXCEPT !.pc = "asking", !.stream = stream])
  <2> DEFINE t == [NewChat EXCEPT !.pc = "asking", !.stream = stream]
  <2>1. t \in Chat
    BY <1>1 DEF Chat, Locations
  <2>2. t.pc = "asking" /\ t.rows = NoRows /\ ~t.broken /\ t.total = 0 /\ t.round = 0
        /\ t.done = 0
    BY DEF NewChat
  <2> QED
    BY <2>1, <2>2, FreshInv
<1>5. ASSUME NEW t \in Chat
      PROVE  ChatInv(Finished(t))
  <2> DEFINE e == Finished(t)
  <2>1. e \in Chat
    BY <1>1 DEF Finished, Chat, Locations, Ends
  <2>2. e.pc = "ended" /\ e.rows = NoRows /\ ~e.broken /\ e.total = 0 /\ e.round = 0
    BY DEF Finished, NewChat
  <2> QED
    BY <2>1, <2>2, FreshInv DEF Ends
<1> QED
  BY <1>1, <1>2, <1>3, <1>4, <1>5

-----------------------------------------------------------------------------
\* Records a working chat may become.

\* A lost session keeps no rows, so that only the counters matter.
LEMMA LostInv ==
    ASSUME NEW t \in Chat, t.pc \notin Ends, EventsInv(t),
           t.total <= TokenRounds(t) * MaxTokens
    PROVE  ChatInv(Lost(t))
<1> DEFINE l == Lost(t)
<1>1. l \in Chat
  BY NoRowsIsEmpty DEF Lost, Chat
<1>2. /\ l.pc = t.pc /\ l.round = t.round /\ l.total = t.total /\ l.done = t.done
      /\ l.rows = NoRows /\ l.broken
  BY DEF Lost, Chat
<1> HIDE DEF l
<1>3. ToolRounds(l) \in Nat /\ TokenRounds(l) = TokenRounds(t)
  BY <1>1, <1>2, PipelineAssumption DEF ToolRounds, TokenRounds, Chat
<1>4. 0 <= ToolRounds(l) * MaxTools
  BY <1>3, TimesMonotone, PipelineAssumption
<1>5. BudgetInv(l)
  BY <1>1, <1>2, <1>3, <1>4, NoRowsIsEmpty DEF BudgetInv, Chat
<1> QED
  BY <1>1, <1>2, <1>5 DEF l, ChatInv, SessionInv, EventsInv

\* What raises before "done" was sent twice ends with at most two of them.
LEMMA RaisedFields ==
    ASSUME NEW t \in Chat, t.done <= 1
    PROVE  /\ Raised(t) \in Chat
           /\ Raised(t).pc = "returning"
           /\ Raised(t).round = t.round
           /\ Raised(t).total = t.total
           /\ Raised(t).rows = t.rows
           /\ Raised(t).broken = t.broken
<1> DEFINE d == IF t.stream THEN t.done + 1 ELSE t.done
<1>1. d \in 0..2
  BY DEF Chat
<1>2. Raised(t) = [t EXCEPT !.pc = "returning", !.error = TRUE, !.done = d]
  BY DEF Raised, Chat
<1> HIDE DEF d
<1> QED
  BY <1>1, <1>2 DEF Chat, Locations

LEMMA LostRaisedInv ==
    ASSUME NEW t \in Chat, ChatInv(t),
           t.pc \in {"asking", "calling", "tools", "answering", "saving", "billing"}
    PROVE  ChatInv(Lost(Raised(t)))
<1>1. t.done <= 1
  BY DEF ChatInv, EventsInv, Chat
<1>2. /\ TokenRounds(t) \in Nat
      /\ TokenRounds(Raised(t)) \in Nat
      /\ TokenRounds(t) <= TokenRounds(Raised(t))
  BY <1>1, RaisedFields, PipelineAssumption DEF TokenRounds, Chat
<1>3. TokenRounds(t) * MaxTokens <= TokenRounds(Raised(t)) * MaxTokens
  BY <1>2, TimesMonotone, PipelineAssumption
<1>4. TokenRounds(t) * MaxTokens \in Nat /\ TokenRounds(Raised(t)) * MaxTokens \in Nat
  BY <1>2, TimesMonotone, PipelineAssumption
<1>5. t.total <= TokenRounds(Raised(t)) * MaxTokens
  BY <1>3, <1>4 DEF ChatInv, BudgetInv, Chat
<1> QED
  BY <1>1, <1>5, RaisedFields, LostInv DEF EventsInv, Ends

LEMMA LostAlready ==
    ASSUME NEW t \in Chat, t.broken, t.rows = NoRows
    PROVE  Lost(t) = t
<1>1. t.broken = TRUE
  BY DEF Chat
<1> QED
  BY <1>1 DEF Lost, Chat

\* A step of a chat's own: nothing is committed, and the chat's record stays one
\* the invariant allows.
OwnStep(c) ==
    /\ chat' = [chat EXCEPT ![c] = chat'[c]]
    /\ ChatInv(chat'[c])
    /\ chat'[c].pc \notin Ends
    /\ UNCHANGED <<usage, others, kept>>
    /\ faults' \in 0..MaxFaults

LEMMA BecomesOwnStep ==
    ASSUME TypeOK, NEW c \in Chats, NEW t, ChatInv(t), t.pc \notin Ends,
           Becomes(c, t), UNCHANGED faults
    PROVE  OwnStep(c)
BY DEF Becomes, OwnStep, TypeOK

LEMMA FlushOwnStep ==
    ASSUME TypeOK, NEW c \in Chats, NEW good, NEW bad, Flush(c, good, bad),
           ~chat[c].broken => ChatInv(good) /\ good.pc \notin Ends,
           bad \in Chat, ChatInv(Lost(bad)), bad.pc \notin Ends
    PROVE  OwnStep(c)
<1>1. Lost(bad).pc = bad.pc
  BY DEF Lost, Chat
<1>2. ASSUME NEW t, chat' = [chat EXCEPT ![c] = t]
      PROVE  chat'[c] = t
  BY <1>2 DEF TypeOK
<1>3. faults' \in 0..MaxFaults
  BY PipelineAssumption DEF Flush, TypeOK
<1> QED
  BY <1>1, <1>2, <1>3 DEF Flush, Becomes, OwnStep

\* The two counters are only raised, so that a bound on the rounds done is all
\* that is asked of the records the actions make.
LEMMA RoundsGrow ==
    ASSUME NEW s \in Chat, BudgetInv(s), NEW t \in Chat,
           ToolRounds(s) <= ToolRounds(t), TokenRounds(s) <= TokenRounds(t),
           t.rows.calls <= s.rows.calls, t.total <= s.total,
           t.rows.charge <= t.total
    PROVE  BudgetInv(t)
<1>1. /\ ToolRounds(s) \in Nat /\ ToolRounds(t) \in Nat
      /\ TokenRounds(s) \in Nat /\ TokenRounds(t) \in Nat
  BY PipelineAssumption DEF ToolRounds, TokenRounds, Chat
<1>2. /\ ToolRounds(s) * MaxTools <= ToolRounds(t) * MaxTools
      /\ TokenRounds(s) * MaxTokens <= TokenRounds(t) * MaxTokens
  BY <1>1, TimesMonotone, PipelineAssumption
<1>3. /\ ToolRounds(s) * MaxTools \in Nat /\ ToolRounds(t) * MaxTools \in Nat
      /\ TokenRounds(s) * MaxTokens \in Nat /\ TokenRounds(t) * MaxTokens \in Nat
  BY <1>1, TimesMonotone, PipelineAssumption
<1> QED
  BY <1>2, <1>3 DEF BudgetInv, Chat, Rows

LEMMA SaveQuestionSteps ==
    ASSUME TypeOK, NEW c \in Chats, ChatInv(chat[c]), SaveQuestion(c)
    PROVE  OwnStep(c)
<1> DEFINE s == chat[c]
           t == [s EXCEPT !.pc = "calling", !.rows.question = TRUE]
<1>1. s \in Chat /\ s.pc = "asking" /\ s.done = 0
  BY DEF SaveQuestion, At, ChatInv, EventsInv
<1>2. t \in Chat
  BY <1>1 DEF Chat, Rows, Locations
<1>3. /\ t.pc = "calling" /\ t.round = s.round /\ t.total = s.total /\ t.done = s.done
      /\ t.broken = s.broken /\ t.rows.question
      /\ t.rows.calls = s.rows.calls /\ t.rows.charge = s.rows.charge
      /\ t.rows.reply = s.rows.reply /\ t.rows.billed = s.rows.billed
  BY <1>1 DEF Chat, Rows
<1> HIDE DEF t
<1>4. ToolRounds(t) = ToolRounds(s) /\ TokenRounds(t) = TokenRounds(s)
  BY <1>1, <1>3 DEF ToolRounds, TokenRounds
<1>5. BudgetInv(t)
  BY <1>1, <1>2, <1>3, <1>4, RoundsGrow, PipelineAssumption
     DEF ChatInv, BudgetInv, Chat, Rows, ToolRounds, TokenRounds
<1>6. ~s.broken => ChatInv(t)
  BY <1>1, <1>2, <1>3, <1>5, NoRowsIsEmpty DEF ChatInv, SessionInv, EventsInv, Ends
<1>7. /\ Raised(s) \in Chat /\ Raised(s).pc \notin Ends /\ ChatInv(Lost(Raised(s)))
  BY <1>1, RaisedFields, LostRaisedInv DEF Ends
<1>8. Flush(c, t, Raised(s))
  BY DEF SaveQuestion, t
<1> QED
  BY <1>3, <1>6, <1>7, <1>8, FlushOwnStep DEF Ends

LEMMA CallModelSteps ==
    ASSUME TypeOK, NEW c \in Chats, ChatInv(chat[c]), CallModel(c)
    PROVE  OwnStep(c)
<1> DEFINE s == chat[c]
<1>1. /\ s \in Chat /\ s.pc = "calling" /\ s.done = 0 /\ BudgetInv(s) /\ SessionInv(s)
      /\ UNCHANGED faults
  BY DEF CallModel, At, ChatInv, EventsInv
<1>r. /\ s.round \in Nat /\ s.total \in Nat
      /\ s.round * MaxTokens \in Nat /\ s.round * MaxTokens <= (s.round + 1) * MaxTokens
      /\ (s.round + 1) * MaxTokens = s.round * MaxTokens + MaxTokens
  <2>1. s.round \in Nat /\ s.total \in Nat
    BY <1>1, PipelineAssumption DEF Chat
  <2> QED
    BY <2>1, TimesMonotone, PipelineAssumption
<1>2. ASSUME Becomes(c, [s EXCEPT !.pc = "saving", !.reply = "unavailable",
                         !.error = TRUE, !.done = IF s.stream THEN @ + 1 ELSE @])
      PROVE  OwnStep(c)
  <2> DEFINE d == IF s.stream THEN s.done + 1 ELSE s.done
             t == [s EXCEPT !.pc = "saving", !.reply = "unavailable",
                            !.error = TRUE, !.done = d]
  <2>1. Becomes(c, t) /\ d \in 0..1
    BY <1>1, <1>2
  <2> HIDE DEF d
  <2>2. t \in Chat
    <3>1. /\ "saving" \in Locations /\ "unavailable" \in Replies /\ d \in 0..2
      BY <2>1 DEF Locations, Replies
    <3> QED
      BY <1>1, <3>1 DEF Chat
  <2>3. /\ t.pc = "saving" /\ t.round = s.round /\ t.total = s.total /\ t.done = d
        /\ t.broken = s.broken /\ t.rows = s.rows /\ t.reply = "unavailable"
    BY <1>1 DEF Chat
  <2> HIDE DEF t
  <2>4. BudgetInv(t)
    BY <1>1, <1>r, <2>2, <2>3, RoundsGrow DEF BudgetInv, ToolRounds, TokenRounds, Chat, Rows
  <2>5. ChatInv(t)
    BY <1>1, <2>1, <2>2, <2>3, <2>4 DEF ChatInv, SessionInv, EventsInv, Ends
  <2> QED
    BY <1>1, <2>1, <2>3, <2>5, BecomesOwnStep DEF Ends
<1>3. ASSUME Becomes(c, [s EXCEPT !.pc = "answering", !.error = TRUE])
      PROVE  OwnStep(c)
  <2> DEFINE t == [s EXCEPT !.pc = "answering", !.error = TRUE]
  <2>1. Becomes(c, t)
    BY <1>3
  <2>2. t \in Chat
    BY <1>1 DEF Chat, Locations
  <2>3. /\ t.pc = "answering" /\ t.round = s.round /\ t.total = s.total /\ t.done = s.done
        /\ t.broken = s.broken /\ t.rows = s.rows
    BY <1>1 DEF Chat
  <2> HIDE DEF t
  <2>4. BudgetInv(t)
    BY <1>1, <1>r, <2>2, <2>3, RoundsGrow DEF BudgetInv, ToolRounds, TokenRounds, Chat, Rows
  <2>5. ChatInv(t)
    BY <1>1, <2>2, <2>3, <2>4 DEF ChatInv, SessionInv, EventsInv, Ends
  <2> QED
    BY <1>1, <2>1, <2>3, <2>5, BecomesOwnStep DEF Ends
<1>4. ASSUME NEW n \in 0..MaxTokens, NEW next \in {"tools", "answering"},
             Becomes(c, [s EXCEPT !.pc = next, !.total = @ + n])
      PROVE  OwnStep(c)
  <2> DEFINE t == [s EXCEPT !.pc = next, !.total = s.total + n]
  <2>1. Becomes(c, t)
    BY <1>1, <1>4 DEF Chat
  <2>2. t \in Chat
    <3>1. next \in Locations /\ s.total + n \in Nat
      BY <1>r, PipelineAssumption DEF Locations
    <3> QED
      BY <1>1, <3>1 DEF Chat
  <2>3. /\ t.pc = next /\ t.round = s.round /\ t.total = s.total + n /\ t.done = s.done
        /\ t.broken = s.broken /\ t.rows = s.rows
    BY <1>1 DEF Chat
  <2> HIDE DEF t
  <2>4. t.total <= TokenRounds(t) * MaxTokens
    BY <1>1, <1>r, <2>3, PipelineAssumption DEF BudgetInv, TokenRounds
  <2>5. t.rows.calls <= ToolRounds(t) * MaxTools
    <3>1. /\ s.round * MaxTools \in Nat /\ s.round * MaxTools <= (s.round + 1) * MaxTools
          /\ (s.round + 1) * MaxTools = s.round * MaxTools + MaxTools
      BY <1>r, TimesMonotone, PipelineAssumption
    <3>2. s.rows.calls \in Nat /\ s.rows.calls <= s.round * MaxTools
      BY <1>1 DEF BudgetInv, ToolRounds, Chat, Rows
    <3>3. ToolRounds(t) \in {s.round, s.round + 1}
      BY <2>3 DEF ToolRounds
    <3> QED
      BY <2>3, <3>1, <3>2, <3>3, PipelineAssumption
  <2>6. BudgetInv(t)
    BY <1>1, <1>r, <2>3, <2>4, <2>5 DEF BudgetInv, Chat, Rows
  <2>7. ChatInv(t)
    BY <1>1, <2>2, <2>3, <2>6 DEF ChatInv, SessionInv, EventsInv, Ends
  <2> QED
    BY <1>1, <2>1, <2>3, <2>7, BecomesOwnStep DEF Ends
<1> QED
  BY <1>2, <1>3, <1>4 DEF CallModel

\* After a round of tools, with n of its calls recorded.
LEMMA NextRoundInv ==
    ASSUME NEW s \in Chat, ChatInv(s), s.pc = "tools", NEW n \in 0..MaxTools
    PROVE  LET t == NextRound([s EXCEPT !.rows.calls = @ + n])
           IN  /\ t \in Chat /\ t.pc \notin Ends
               /\ ~s.broken => ChatInv(t)
<1> DEFINE u == [s EXCEPT !.rows.calls = s.rows.calls + n]
           t == NextRound(u)
<1>1. /\ s.round \in 0..MaxToolRounds /\ s.round \in Nat /\ s.done = 0
      /\ s.rows \in Rows /\ s.rows.calls \in Nat /\ n \in Nat /\ n <= MaxTools
  BY PipelineAssumption DEF ChatInv, EventsInv, Chat, Rows
<1>2. u \in Chat
  <2>1. s.rows.calls + n \in Nat
    BY <1>1
  <2> QED
    BY <1>1, <2>1 DEF Chat, Rows
<1>3. /\ u.round = s.round /\ u.total = s.total /\ u.done = s.done /\ u.broken = s.broken
      /\ u.rows.calls = s.rows.calls + n /\ u.rows.charge = s.rows.charge
      /\ u.rows.question = s.rows.question /\ u.rows.reply = s.rows.reply
      /\ u.rows.billed = s.rows.billed
  BY <1>1 DEF Chat, Rows
<1>r. u = [s EXCEPT !.rows.calls = @ + n]
  BY <1>1 DEF Chat, Rows
<1> HIDE DEF u
<1>4. /\ t \in Chat /\ t.pc \in {"calling", "answering", "saving"}
      /\ t.round = IF t.pc = "calling" THEN u.round + 1 ELSE u.round
      /\ t.pc = "saving" => t.reply = "exhausted"
      /\ t.rows = u.rows /\ t.total = u.total /\ t.done = u.done /\ t.broken = u.broken
  <2>1. CASE u.round < MaxToolRounds
    <3>1. u.round + 1 \in 0..MaxToolRounds
      BY <2>1, <1>1, <1>3, PipelineAssumption
    <3> QED
      BY <1>2, <2>1, <3>1 DEF NextRound, Chat, Locations
  <2>2. CASE ~(u.round < MaxToolRounds) /\ u.stream
    BY <1>2, <2>2 DEF NextRound, Chat, Locations
  <2>3. CASE ~(u.round < MaxToolRounds) /\ ~u.stream
    BY <1>2, <2>3 DEF NextRound, Chat, Locations, Replies
  <2> QED
    BY <2>1, <2>2, <2>3
<1> HIDE DEF t
<1>5. ToolRounds(t) = s.round + 1 /\ TokenRounds(t) = s.round + 1
  BY <1>3, <1>4 DEF ToolRounds, TokenRounds
<1>6. BudgetInv(t)
  <2>1. s.rows.calls <= s.round * MaxTools /\ s.total <= (s.round + 1) * MaxTokens
        /\ s.rows.charge <= s.total
    BY DEF ChatInv, BudgetInv, ToolRounds, TokenRounds
  <2>2. s.round * MaxTools \in Nat /\ (s.round + 1) * MaxTools = s.round * MaxTools + MaxTools
    BY <1>1, TimesMonotone, PipelineAssumption
  <2>3. s.rows.calls + n <= (s.round + 1) * MaxTools
    BY <1>1, <2>1, <2>2, PipelineAssumption
  <2> QED
    BY <1>3, <1>4, <1>5, <2>1, <2>3 DEF BudgetInv
<1>7. ~s.broken => ChatInv(t)
  BY <1>1, <1>3, <1>4, <1>6 DEF ChatInv, SessionInv, EventsInv, Ends
<1> QED
  BY <1>4, <1>7, <1>r DEF t, Ends

LEMMA ExecuteToolsSteps ==
    ASSUME TypeOK, NEW c \in Chats, ChatInv(chat[c]), ExecuteTools(c)
    PROVE  OwnStep(c)
<1> DEFINE s == chat[c]
           bad == NextRound(s)
<1>1. s \in Chat /\ s.pc = "tools"
  BY DEF ExecuteTools, At, ChatInv
<1>2. \/ \E n \in 0..MaxTools :
           Flush(c, NextRound([s EXCEPT !.rows.calls = @ + n]), NextRound(s))
      \/ s.broken /\ Becomes(c, Raised(s)) /\ UNCHANGED faults
  BY DEF ExecuteTools
<1>3. /\ bad \in Chat /\ bad.pc \notin Ends
      /\ EventsInv(bad) /\ bad.total <= TokenRounds(bad) * MaxTokens
  <2>1. /\ s.round \in 0..MaxToolRounds /\ s.done = 0
        /\ s.total <= (s.round + 1) * MaxTokens
    BY <1>1 DEF ChatInv, EventsInv, BudgetInv, TokenRounds, Chat
  <2>2. CASE s.round < MaxToolRounds
    <3>1. s.round + 1 \in 0..MaxToolRounds
      BY <2>1, <2>2, PipelineAssumption
    <3>2. /\ bad \in Chat /\ bad.pc = "calling" /\ bad.round = s.round + 1
          /\ bad.total = s.total /\ bad.done = s.done
      BY <1>1, <2>2, <3>1 DEF NextRound, Chat, Locations
    <3> QED
      BY <2>1, <3>2 DEF EventsInv, TokenRounds, Ends
  <2>3. CASE ~(s.round < MaxToolRounds)
    <3>1. /\ bad \in Chat /\ bad.pc \in {"answering", "saving"} /\ bad.round = s.round
          /\ bad.total = s.total /\ bad.done = s.done
      BY <1>1, <2>3 DEF NextRound, Chat, Locations, Replies
    <3> QED
      BY <2>1, <3>1 DEF EventsInv, TokenRounds, Ends
  <2> QED
    BY <2>2, <2>3
<1> HIDE DEF bad
<1>4. ChatInv(Lost(bad))
  BY <1>3, LostInv
<1>5. ASSUME NEW n \in 0..MaxTools,
             Flush(c, NextRound([s EXCEPT !.rows.calls = @ + n]), bad)
      PROVE  OwnStep(c)
  <2>1. LET good == NextRound([s EXCEPT !.rows.calls = @ + n])
        IN  ~s.broken => ChatInv(good) /\ good.pc \notin Ends
    BY <1>1, NextRoundInv
  <2> QED
    BY <1>3, <1>4, <1>5, <2>1, FlushOwnStep
<1>6. CASE s.broken /\ Becomes(c, Raised(s)) /\ UNCHANGED faults
  <2>1. s.done = 0 /\ s.rows = NoRows
    BY <1>1, <1>6 DEF ChatInv, EventsInv, SessionInv
  <2>2. /\ Raised(s) \in Chat /\ Raised(s).pc = "returning"
        /\ Raised(s).rows = NoRows /\ Raised(s).broken
    BY <1>1, <1>6, <2>1, RaisedFields
  <2>3. Lost(Raised(s)) = Raised(s)
    BY <2>2, LostAlready
  <2>4. ChatInv(Raised(s))
    BY <1>1, <2>3, LostRaisedInv
  <2> QED
    BY <1>6, <2>2, <2>4, BecomesOwnStep DEF Ends
<1> QED
  BY <1>2, <1>5, <1>6 DEF bad

LEMMA PostProcessSteps ==
    ASSUME TypeOK, NEW c \in Chats, ChatInv(chat[c]), PostProcess(c)
    PROVE  OwnStep(c)
<1> DEFINE s == chat[c]
           answer == [s EXCEPT !.pc = "saving", !.reply = "answer"]
           shown == [answer EXCEPT !.done = @ + 1]
<1>1. /\ s \in Chat /\ s.pc = "answering" /\ s.done = 0 /\ BudgetInv(s) /\ SessionInv(s)
  BY DEF PostProcess, At, ChatInv, EventsInv
<1>2. answer \in Chat /\ shown \in Chat /\ answer.done = 0 /\ shown.done = 1
  <2>1. /\ answer \in Chat /\ answer.done = 0
    BY <1>1 DEF Chat, Locations, Replies
  <2> HIDE DEF answer
  <2>2. shown = [answer EXCEPT !.done = 1]
    BY <2>1 DEF Chat
  <2> HIDE DEF shown
  <2>3. shown \in Chat /\ shown.done = 1
    BY <2>1, <2>2 DEF Chat
  <2> QED
    BY <2>1, <2>3
<1>3. ASSUME NEW t \in {answer, shown}
      PROVE  ChatInv(t) /\ t.pc = "saving"
  <2>1. /\ t.pc = "saving" /\ t.reply = "answer" /\ t.round = s.round /\ t.total = s.total
        /\ t.rows = s.rows /\ t.broken = s.broken
    BY <1>1, <1>3 DEF Chat
  <2> HIDE DEF answer, shown
  <2>2. t \in Chat /\ t.done \in 0..1
    BY <1>2, <1>3
  <2>3. ToolRounds(t) = ToolRounds(s) /\ TokenRounds(t) = TokenRounds(s)
    BY <1>1, <2>1 DEF ToolRounds, TokenRounds
  <2>4. BudgetInv(t)
    BY <1>1, <2>1, <2>3 DEF BudgetInv
  <2> QED
    BY <1>1, <2>1, <2>2, <2>4 DEF ChatInv, SessionInv, EventsInv, Ends
<1>4. CASE Becomes(c, Raised(s)) /\ UNCHANGED faults
  <2>1. /\ Raised(s) \in Chat /\ Raised(s).pc = "returning" /\ Raised(s).round = s.round
        /\ Raised(s).total = s.total /\ Raised(s).rows = s.rows
        /\ Raised(s).broken = s.broken
    BY <1>1, RaisedFields
  <2>2. ToolRounds(Raised(s)) = ToolRounds(s) /\ TokenRounds(Raised(s)) = TokenRounds(s)
    BY <1>1, <2>1 DEF ToolRounds, TokenRounds
  <2>3. BudgetInv(Raised(s))
    BY <1>1, <2>1, <2>2 DEF BudgetInv
  <2>4. SessionInv(Raised(s))
    BY <1>1, <2>1 DEF SessionInv, Consistent, Ends
  <2>5. ChatInv(Raised(s))
    BY <2>1, <2>3, <2>4 DEF ChatInv, EventsInv
  <2> QED
    BY <1>4, <2>1, <2>5, BecomesOwnStep DEF Ends
<1>5. CASE Becomes(c, answer) /\ UNCHANGED faults
  BY <1>3, <1>5, BecomesOwnStep DEF Ends
<1>6. CASE Flush(c, shown, shown)
  <2>1. EventsInv(shown) /\ shown.total <= TokenRounds(shown) * MaxTokens
    BY <1>3 DEF ChatInv, BudgetInv
  <2> HIDE DEF shown
  <2>2. ChatInv(Lost(shown))
    BY <1>2, <1>3, <2>1, LostInv DEF Ends
  <2> QED
    BY <1>2, <1>3, <1>6, <2>2, FlushOwnStep DEF Ends
<1> QED
  BY <1>4, <1>5, <1>6 DEF PostProcess

LEMMA SaveReplySteps ==
    ASSUME TypeOK, NEW c \in Chats, ChatInv(chat[c]), SaveReply(c)
    PROVE  OwnStep(c)
<1> DEFINE s == chat[c]
           next == IF s.reply = "answer" \/ (s.reply = "unavailable" /\ s.stream)
                   THEN "billing" ELSE "returning"
           tokens == IF s.reply = "unavailable" THEN 0 ELSE s.total
           t == [s EXCEPT !.pc = next, !.rows.reply = s.reply, !.rows.tokens = tokens]
<1>1. /\ s \in Chat /\ s.pc = "saving" /\ s.done <= 1 /\ BudgetInv(s) /\ SessionInv(s)
      /\ s.rows \in Rows /\ s.reply \in Replies
  BY DEF SaveReply, At, ChatInv, EventsInv, Chat
<1>2. /\ next \in {"billing", "returning"}
      /\ next = "billing" => s.reply \in {"answer", "unavailable"}
      /\ next = "returning" => s.reply # "answer"
      /\ tokens \in Nat
      /\ s.reply = "answer" => tokens = s.total
  BY <1>1 DEF Chat
<1>3. Flush(c, t, Raised(s))
  BY DEF SaveReply
<1> HIDE DEF next, tokens
<1>4. t \in Chat
  BY <1>1, <1>2 DEF Chat, Rows, Locations
<1>5. /\ t.pc = next /\ t.round = s.round /\ t.total = s.total /\ t.done = s.done
      /\ t.reply = s.reply /\ t.broken = s.broken
      /\ t.rows.calls = s.rows.calls /\ t.rows.charge = s.rows.charge
      /\ t.rows.question = s.rows.question /\ t.rows.billed = s.rows.billed
      /\ t.rows.reply = s.reply /\ t.rows.tokens = tokens
  BY <1>1 DEF Chat, Rows
<1> HIDE DEF t
<1>6. ToolRounds(t) = ToolRounds(s) /\ TokenRounds(t) = TokenRounds(s)
  BY <1>1, <1>2, <1>5 DEF ToolRounds, TokenRounds
<1>7. BudgetInv(t)
  BY <1>1, <1>5, <1>6 DEF BudgetInv
<1>8. ASSUME ~s.broken
      PROVE  ChatInv(t)
  <2>1. t.rows.question /\ ~t.rows.billed /\ s.reply # "none"
    BY <1>1, <1>5, <1>8 DEF SessionInv
  <2>2. SessionInv(t)
    BY <1>2, <1>5, <1>8, <2>1 DEF SessionInv, Consistent, Ends
  <2> QED
    BY <1>1, <1>2, <1>4, <1>5, <1>7, <2>2 DEF ChatInv, EventsInv
<1>9. /\ Raised(s) \in Chat /\ Raised(s).pc \notin Ends /\ ChatInv(Lost(Raised(s)))
  BY <1>1, RaisedFields, LostRaisedInv DEF Ends
<1> QED
  BY <1>2, <1>3, <1>5, <1>8, <1>9, FlushOwnStep DEF Ends

LEMMA BillSteps ==
    ASSUME TypeOK, NEW c \in Chats, ChatInv(chat[c]), Bill(c)
    PROVE  OwnStep(c)
<1> DEFINE s == chat[c]
           plain == [s EXCEPT !.pc = "returning"]
           billed == [plain EXCEPT !.rows.billed = TRUE, !.rows.charge = s.total]
           good == IF s.reply = "answer" THEN billed ELSE plain
<1>1. /\ s \in Chat /\ s.pc = "billing" /\ s.done <= 1 /\ BudgetInv(s) /\ SessionInv(s)
      /\ s.rows \in Rows /\ s.total \in Nat
  BY DEF Bill, At, ChatInv, EventsInv, Chat
<1>2. /\ plain \in Chat /\ plain.pc = "returning" /\ plain.round = s.round
      /\ plain.total = s.total /\ plain.rows = s.rows /\ plain.broken = s.broken
      /\ plain.reply = s.reply /\ plain.done = s.done
  BY <1>1 DEF Chat, Locations
<1>3. /\ billed \in Chat /\ billed.pc = "returning" /\ billed.round = s.round
      /\ billed.total = s.total /\ billed.broken = s.broken
      /\ billed.rows.calls = s.rows.calls /\ billed.rows.charge = s.total
      /\ billed.rows.billed /\ billed.rows.question = s.rows.question
      /\ billed.rows.reply = s.rows.reply /\ billed.rows.tokens = s.rows.tokens
  <2> HIDE DEF plain
  <2>1. billed \in Chat
    BY <1>1, <1>2 DEF Chat, Rows
  <2> QED
    BY <1>1, <1>2, <2>1 DEF Chat, Rows
<1>4. Flush(c, good, plain) \/ Flush(c, good, Raised(plain))
  BY <1>1, <1>2 DEF Bill, Chat
<1> HIDE DEF plain, billed
<1>5. /\ ToolRounds(plain) = ToolRounds(s) /\ TokenRounds(plain) = TokenRounds(s)
      /\ ToolRounds(billed) = ToolRounds(s) /\ TokenRounds(billed) = TokenRounds(s)
  BY <1>1, <1>2, <1>3 DEF ToolRounds, TokenRounds
<1>6. BudgetInv(plain) /\ BudgetInv(billed)
  BY <1>1, <1>2, <1>3, <1>5 DEF BudgetInv
<1>7. ASSUME ~s.broken
      PROVE  ChatInv(good)
  <2>1. CASE s.reply = "answer"
    <3>1. SessionInv(billed)
      BY <1>1, <1>3, <1>7, <2>1 DEF SessionInv, Consistent, Ends
    <3> QED
      BY <1>3, <1>6, <2>1, <3>1 DEF ChatInv, EventsInv
  <2>2. CASE s.reply # "answer"
    <3>1. SessionInv(plain)
      BY <1>1, <1>2, <1>7, <2>2 DEF SessionInv, Consistent, Ends
    <3> QED
      BY <1>2, <1>6, <2>2, <3>1 DEF ChatInv, EventsInv
  <2> QED
    BY <2>1, <2>2
<1>8. ChatInv(Lost(plain))
  BY <1>2, <1>6, LostInv DEF EventsInv, BudgetInv, Ends
<1>9. good.pc \notin Ends
  BY <1>2, <1>3 DEF Ends
<1>10. /\ Raised(plain) \in Chat /\ Raised(plain).pc = "returning"
       /\ ChatInv(Lost(Raised(plain)))
  <2>1. plain.done <= 1
    BY <1>1, <1>2
  <2>2. /\ Raised(plain) \in Chat /\ Raised(plain).pc = "returning"
        /\ Raised(plain).round = plain.round /\ Raised(plain).total = plain.total
    BY <1>2, <2>1, RaisedFields
  <2>3. Raised(plain).total <= TokenRounds(Raised(plain)) * MaxTokens
    BY <1>2, <1>6, <2>2 DEF BudgetInv, TokenRounds
  <2> QED
    BY <2>2, <2>3, LostInv DEF EventsInv, Ends
<1> HIDE DEF good
<1> QED
  BY <1>2, <1>4, <1>7, <1>8, <1>9, <1>10, FlushOwnStep DEF Ends

-----------------------------------------------------------------------------
\* The chats that are worked on, and the quota.

LEMMA AdmittedIsFinite ==
    /\ IsFiniteSet(Admitted)
    /\ Cardinality(Admitted) \in Nat
    /\ Cardinality(Chats) \in Nat
    /\ Cardinality(Admitted) <= Cardinality(Chats)
<1>1. Admitted \subseteq Chats
  BY DEF Admitted
<1> QED
  BY <1>1, FS_Subset, FS_CardinalityType, PipelineAssumption

LEMMA ChangedChat ==
    ASSUME TypeOK, NEW c \in Chats, NEW t, chat' = [chat EXCEPT ![c] = t]
    PROVE  /\ chat'[c] = t
           /\ \A d \in Chats \ {c} : chat'[d] = chat[d]
           /\ t.pc \notin Ends => Admitted' = Admitted \cup {c}
           /\ t.pc \in Ends => Admitted' = Admitted \ {c}
<1>1. chat'[c] = t /\ \A d \in Chats \ {c} : chat'[d] = chat[d]
  BY DEF TypeOK
<1> QED
  BY <1>1 DEF Admitted, Busy

\* The records of the chats, when only that of c changes.
LEMMA ChatsInv ==
    ASSUME PipelineInv, NEW c \in Chats, NEW t, ChatInv(t),
           chat' = [chat EXCEPT ![c] = t]
    PROVE  chat' \in [Chats -> Chat] /\ \A d \in Chats : ChatInv(chat'[d])
<1>1. TypeOK
  BY DEF PipelineInv
<1>2. t \in Chat
  BY DEF ChatInv
<1> QED
  BY <1>1, <1>2, ChangedChat DEF PipelineInv, TypeOK

LEMMA OwnStepKeepsInv ==
    ASSUME PipelineInv, NEW c \in Chats, Busy(c), OwnStep(c)
    PROVE  PipelineInv'
<1> DEFINE t == chat'[c]
<1>1. TypeOK /\ ChatInv(t) /\ t.pc \notin Ends /\ chat' = [chat EXCEPT ![c] = t]
  BY DEF PipelineInv, OwnStep
<1>2. Admitted' = Admitted
  BY <1>1, ChangedChat DEF Admitted
<1>3. chat' \in [Chats -> Chat] /\ \A d \in Chats : ChatInv(chat'[d])
  BY <1>1, ChatsInv
<1>4. TypeOK'
  BY <1>1, <1>3 DEF TypeOK, OwnStep
<1>5. QuotaInv'
  BY <1>2 DEF PipelineInv, QuotaInv, OwnStep
<1>6. \A d \in Chats : Consistent(kept'[d])
  BY DEF PipelineInv, OwnStep
<1> QED
  BY <1>3, <1>4, <1>5, <1>6 DEF PipelineInv, ChatInv, SessionInv, BudgetInv, EventsInv, Consistent

LEMMA InitPipelineInv == Init => PipelineInv
<1> SUFFICES ASSUME Init PROVE PipelineInv
  OBVIOUS
<1>1. TypeOK
  <2>1. /\ usage \in Usage /\ faults \in 0..MaxFaults
        /\ others \in [calls : 0..CallLimit, tokens : 0..TokenLimit]
    BY PipelineAssumption DEF Init, Usage
  <2>2. chat \in [Chats -> Chat] /\ kept \in [Chats -> Rows]
    BY NewChatInv, NoRowsIsEmpty DEF Init
  <2> QED
    BY <2>1, <2>2 DEF TypeOK
<1>2. /\ \A c \in Chats : ChatInv(chat[c])
      /\ \A c \in Chats : Consistent(kept[c])
  BY NewChatInv, NoRowsIsEmpty DEF Init
<1>3. QuotaInv
  <2> DEFINE resting == Cardinality(Chats) - Cardinality(Admitted)
  <2>1. resting \in Nat
    BY AdmittedIsFinite
  <2>2. resting * CallsPerChat \in Nat /\ resting * TokensPerChat \in Nat
    BY <2>1, TimesMonotone, SharesAreNaturals
  <2>3. usage.calls = 0 /\ usage.tokens = 0
    BY DEF Init
  <2> QED
    BY <2>2, <2>3, PipelineAssumption DEF QuotaInv
<1> QED
  BY <1>1, <1>2, <1>3 DEF PipelineInv

LEMMA CheckQuotaKeepsInv ==
    ASSUME PipelineInv, NEW c \in Chats, CheckQuota(c)
    PROVE  PipelineInv'
<1>1. PICK stream \in BOOLEAN :
        \/ /\ Allowed
           /\ chat' = [chat EXCEPT ![c] = [NewChat EXCEPT !.pc = "asking", !.stream = stream]]
           /\ UNCHANGED faults
        \/ /\ chat' = [chat EXCEPT ![c] = Finished(Raised([NewChat EXCEPT !.stream = stream]))]
           /\ \/ ~Allowed /\ UNCHANGED faults
              \/ faults < MaxFaults /\ faults' = faults + 1
  BY DEF CheckQuota
<1>2. TypeOK /\ ~Busy(c) /\ QuotaInv
  BY DEF CheckQuota, PipelineInv
<1>3. faults' \in 0..MaxFaults
  BY <1>1, <1>2, PipelineAssumption DEF TypeOK
<1>4. kept' \in [Chats -> Rows] /\ \A d \in Chats : Consistent(kept'[d])
  BY <1>2, NoRowsIsEmpty DEF CheckQuota, PipelineInv, TypeOK
<1>5. CASE /\ Allowed
           /\ chat' = [chat EXCEPT ![c] = [NewChat EXCEPT !.pc = "asking", !.stream = stream]]
  <2> DEFINE t == [NewChat EXCEPT !.pc = "asking", !.stream = stream]
  <2>1. ChatInv(t) /\ t.pc \notin Ends
    BY NewChatInv DEF NewChat, Ends
  <2>2. chat' = [chat EXCEPT ![c] = t]
    BY <1>5
  <2> HIDE DEF t
  <2>3. chat' \in [Chats -> Chat] /\ \A d \in Chats : ChatInv(chat'[d])
    BY <2>1, <2>2, ChatsInv
  <2>4. TypeOK'
    BY <1>2, <1>3, <1>4, <2>3 DEF TypeOK, CheckQuota
  <2>5. QuotaInv'
    <3> DEFINE resting == Cardinality(Chats) - Cardinality(Admitted)'
    <3>1. Admitted' \subseteq Chats
      BY DEF Admitted
    <3>2. resting \in Nat
      BY <3>1, FS_Subset, FS_CardinalityType, PipelineAssumption
    <3>3. resting * CallsPerChat \in Nat /\ resting * TokensPerChat \in Nat
      BY <3>2, TimesMonotone, SharesAreNaturals
    <3>4. /\ usage.calls \in Nat /\ usage.tokens \in Nat
          /\ usage.calls <= CallLimit - 1 /\ usage.tokens <= TokenLimit - 1
      BY <1>2, <1>5, PipelineAssumption DEF TypeOK, Usage, Allowed
    <3>5. UNCHANGED <<usage, others>>
      BY DEF CheckQuota
    <3> HIDE DEF resting
    <3>6. /\ usage.calls <= CallLimit - 1 + resting * CallsPerChat
          /\ usage.tokens <= TokenLimit - 1 + resting * TokensPerChat
      BY <3>3, <3>4, PipelineAssumption
    <3> QED
      BY <3>5, <3>6 DEF resting, QuotaInv, CallsPerChat, TokensPerChat
  <2> QED
    BY <1>4, <2>3, <2>4, <2>5 DEF PipelineInv, ChatInv, SessionInv, BudgetInv, EventsInv, Consistent
<1>6. CASE chat' = [chat EXCEPT ![c] = Finished(Raised([NewChat EXCEPT !.stream = stream]))]
  <2> DEFINE u == [NewChat EXCEPT !.stream = stream]
             t == Finished(Raised(u))
  <2>1. u \in Chat /\ u.done = 0
    BY NewChatInv DEF NewChat, Chat
  <2> HIDE DEF u
  <2>2. Raised(u) \in Chat
    BY <2>1, RaisedFields
  <2>3. ChatInv(t) /\ t.pc \in Ends
    BY <2>2, NewChatInv DEF Finished, NewChat, Ends
  <2>4. chat' = [chat EXCEPT ![c] = t]
    BY <1>6 DEF u
  <2> HIDE DEF t
  <2>5. chat' \in [Chats -> Chat] /\ \A d \in Chats : ChatInv(chat'[d])
    BY <2>3, <2>4, ChatsInv
  <2>6. Admitted' = Admitted
    BY <1>2, <2>3, <2>4, ChangedChat DEF Admitted
  <2>7. TypeOK'
    BY <1>2, <1>3, <1>4, <2>5 DEF TypeOK, CheckQuota
  <2>8. QuotaInv'
    BY <1>2, <2>6 DEF QuotaInv, CheckQuota
  <2> QED
    BY <1>4, <2>5, <2>7, <2>8 DEF PipelineInv, ChatInv, SessionInv, BudgetInv, EventsInv, Consistent
<1> QED
  BY <1>1, <1>5, <1>6

\* A chat that ends leaves its share of the quota to be used up: by what it was
\* recorded with, at most.
LEMMA EndKeepsQuota ==
    ASSUME PipelineInv, NEW c \in Chats, Busy(c), Admitted' = Admitted \ {c},
           NEW n \in Nat, n <= CallsPerChat, NEW m \in Nat, m <= TokensPerChat,
           usage'.calls = usage.calls + n, usage'.tokens = usage.tokens + m
    PROVE  QuotaInv'
<1> DEFINE resting == Cardinality(Chats) - Cardinality(Admitted)
<1>1. c \in Admitted
  BY DEF Admitted
<1>2. Cardinality(Admitted') = Cardinality(Admitted) - 1
  BY <1>1, AdmittedIsFinite, FS_RemoveElement
<1>3. resting \in Nat /\ Cardinality(Chats) - Cardinality(Admitted') = resting + 1
  BY <1>2, AdmittedIsFinite
<1>4. /\ usage.calls \in Nat /\ usage.tokens \in Nat
      /\ usage.calls <= CallLimit - 1 + resting * CallsPerChat
      /\ usage.tokens <= TokenLimit - 1 + resting * TokensPerChat
  BY PipelineAssumption DEF PipelineInv, TypeOK, Usage, QuotaInv
<1> HIDE DEF resting
<1>5. /\ resting * CallsPerChat \in Nat /\ resting * TokensPerChat \in Nat
      /\ (resting + 1) * CallsPerChat = resting * CallsPerChat + CallsPerChat
      /\ (resting + 1) * TokensPerChat = resting * TokensPerChat + TokensPerChat
  BY <1>3, TimesMonotone, SharesAreNaturals
<1>6. /\ usage'.calls <= CallLimit - 1 + (resting + 1) * CallsPerChat
      /\ usage'.tokens <= TokenLimit - 1 + (resting + 1) * TokensPerChat
  BY <1>4, <1>5, SharesAreNaturals, PipelineAssumption
<1> QED
  BY <1>3, <1>6 DEF QuotaInv, CallsPerChat, TokensPerChat

\* A request ends: its session is committed, if what it holds is kept together,
\* or leaves nothing.
LEMMA EndingKeepsInv ==
    ASSUME PipelineInv, NEW c \in Chats, Busy(c), NEW t, ChatInv(t), t.pc \in Ends,
           chat' = [chat EXCEPT ![c] = t], faults' \in 0..MaxFaults,
           \/ UNCHANGED <<usage, others, kept>>
           \/ Commit(c) /\ Consistent(chat[c].rows)
    PROVE  PipelineInv'
<1> DEFINE s == chat[c]
           n == s.rows.calls + (IF s.rows.billed THEN 1 ELSE 0)
<1>1. TypeOK /\ s \in Chat /\ s.rows \in Rows /\ BudgetInv(s)
  BY DEF PipelineInv, ChatInv, Chat
<1>2. chat' \in [Chats -> Chat] /\ \A d \in Chats : ChatInv(chat'[d])
  BY ChatsInv
<1>3. Admitted' = Admitted \ {c}
  BY <1>1, ChangedChat
<1>4. usage.calls \in Nat /\ usage.tokens \in Nat
  BY <1>1 DEF TypeOK, Usage
<1>5. n \in Nat /\ n <= CallsPerChat /\ s.rows.charge \in Nat /\ s.rows.charge <= TokensPerChat
  <2>1. /\ ToolRounds(s) \in Nat /\ ToolRounds(s) <= MaxToolRounds + 1
        /\ TokenRounds(s) \in Nat /\ TokenRounds(s) <= MaxToolRounds + 1
        /\ MaxToolRounds + 1 \in Nat
    BY <1>1, PipelineAssumption DEF Chat, ToolRounds, TokenRounds
  <2>2. /\ s.rows.calls \in Nat /\ s.rows.charge \in Nat /\ s.total \in Nat
        /\ s.rows.calls <= ToolRounds(s) * MaxTools
        /\ s.rows.charge <= s.total /\ s.total <= TokenRounds(s) * MaxTokens
    BY <1>1 DEF Chat, Rows, BudgetInv
  <2>3. /\ ToolRounds(s) * MaxTools \in Nat
        /\ ToolRounds(s) * MaxTools <= (MaxToolRounds + 1) * MaxTools
        /\ TokenRounds(s) * MaxTokens \in Nat
        /\ TokenRounds(s) * MaxTokens <= (MaxToolRounds + 1) * MaxTokens
        /\ (MaxToolRounds + 1) * MaxTools \in Nat
        /\ (MaxToolRounds + 1) * MaxTokens \in Nat
    BY <2>1, TimesMonotone, PipelineAssumption
  <2> HIDE DEF s
  <2> QED
    BY <2>2, <2>3 DEF CallsPerChat, TokensPerChat
<1>6. CASE Commit(c) /\ Consistent(s.rows)
  <2>1. /\ usage' = [calls |-> usage.calls + s.rows.calls + (IF s.rows.billed THEN 1 ELSE 0),
                     tokens |-> usage.tokens + s.rows.charge]
        /\ kept' = [kept EXCEPT ![c] = s.rows]
        /\ UNCHANGED others
    BY <1>6 DEF Commit
  <2>2. usage'.calls = usage.calls + n /\ usage'.tokens = usage.tokens + s.rows.charge
    <3>1. s.rows.calls \in Nat
      BY <1>1 DEF Rows
    <3> QED
      BY <1>4, <2>1, <3>1
  <2>3. usage' \in Usage
    <3>1. usage' = [calls |-> usage'.calls, tokens |-> usage'.tokens]
      BY <2>1
    <3>2. usage'.calls \in Nat /\ usage'.tokens \in Nat
      BY <1>4, <1>5, <2>2
    <3> QED
      BY <3>1, <3>2 DEF Usage
  <2>4. kept' \in [Chats -> Rows] /\ \A d \in Chats : Consistent(kept'[d])
    BY <1>1, <1>6, <2>1 DEF PipelineInv, TypeOK
  <2>5. TypeOK'
    BY <1>1, <1>2, <2>1, <2>3, <2>4 DEF TypeOK
  <2>6. QuotaInv'
    <3> HIDE DEF n
    <3> QED
      BY <1>3, <1>5, <2>2, EndKeepsQuota
  <2> QED
    BY <1>2, <2>4, <2>5, <2>6 DEF PipelineInv, ChatInv, SessionInv, BudgetInv, EventsInv, Consistent
<1>7. CASE UNCHANGED <<usage, others, kept>>
  <2>1. TypeOK'
    BY <1>1, <1>2, <1>7 DEF TypeOK
  <2>2. QuotaInv'
    <3>1. usage'.calls = usage.calls + 0 /\ usage'.tokens = usage.tokens + 0
      BY <1>4, <1>7
    <3>2. 0 <= CallsPerChat /\ 0 <= TokensPerChat
      BY SharesAreNaturals
    <3> QED
      BY <1>3, <3>1, <3>2, EndKeepsQuota
  <2>3. \A d \in Chats : Consistent(kept'[d])
    BY <1>7 DEF PipelineInv
  <2> QED
    BY <1>2, <2>1, <2>2, <2>3 DEF PipelineInv, ChatInv, SessionInv, BudgetInv, EventsInv, Consistent
<1> QED
  BY <1>6, <1>7

LEMMA ReturnKeepsInv ==
    ASSUME PipelineInv, NEW c \in Chats, Return(c)
    PROVE  PipelineInv'
<1> DEFINE s == chat[c]
           t == Finished(s)
<1>1. /\ TypeOK /\ s \in Chat /\ s.pc = "returning" /\ Busy(c) /\ SessionInv(s)
      /\ chat' = [chat EXCEPT ![c] = t]
  BY DEF Return, At, PipelineInv, ChatInv, Chat, Busy, Ends
<1>2. ChatInv(t) /\ t.pc \in Ends
  BY <1>1, NewChatInv DEF Finished, NewChat, Ends
<1>3. faults' \in 0..MaxFaults
  BY <1>1, PipelineAssumption DEF Return, TypeOK
<1>4. \/ UNCHANGED <<usage, others, kept>>
      \/ Commit(c) /\ ~s.broken
  BY DEF Return
<1>5. ~s.broken => Consistent(s.rows)
  BY <1>1 DEF SessionInv
<1> HIDE DEF t
<1> QED
  BY <1>1, <1>2, <1>3, <1>4, <1>5, EndingKeepsInv

LEMMA CutKeepsInv ==
    ASSUME PipelineInv, NEW c \in Chats, Cut(c)
    PROVE  PipelineInv'
<1> DEFINE s == chat[c]
           t == [NewChat EXCEPT !.pc = "cut"]
<1>1. ChatInv(t) /\ t.pc \in Ends
  BY NewChatInv DEF NewChat, Ends
<1>2. /\ Busy(c) /\ chat' = [chat EXCEPT ![c] = t] /\ UNCHANGED faults
      /\ \/ UNCHANGED <<usage, others, kept>>
         \/ ~s.broken /\ s.pc \in Interruptible /\ Commit(c)
  BY DEF Cut
<1>3. faults' \in 0..MaxFaults
  BY <1>2 DEF PipelineInv, TypeOK
<1>4. ~s.broken /\ s.pc \in Interruptible => Consistent(s.rows)
  BY DEF PipelineInv, ChatInv, SessionInv, Consistent, Interruptible
<1> HIDE DEF t
<1> QED
  BY <1>1, <1>2, <1>3, <1>4, EndingKeepsInv

\* What others are charged with counts in the checks to come only.
LEMMA OthersKeepInv ==
    ASSUME PipelineInv, GuestChat \/ ExecuteConnectorTool
    PROVE  PipelineInv'
<1>1. TypeOK /\ UNCHANGED <<usage, chat, kept, faults>>
  BY DEF PipelineInv, GuestChat, ExecuteConnectorTool
<1>2. ASSUME NEW n \in Nat, NEW m \in Nat
      PROVE  MoreOfOthers(n, m) \in [calls : 0..CallLimit, tokens : 0..TokenLimit]
  <2>1. others.calls + n \in Nat /\ others.tokens + m \in Nat
    BY <1>1, PipelineAssumption DEF TypeOK
  <2> QED
    BY <2>1, PipelineAssumption DEF MoreOfOthers
<1>3. \E n \in Nat, m \in Nat : others' = MoreOfOthers(n, m)
  <2>1. CASE GuestChat
    <3>1. 1..CallsPerChat \subseteq Nat /\ 0..TokensPerChat \subseteq Nat
      BY SharesAreNaturals
    <3> QED
      BY <2>1, <3>1 DEF GuestChat
  <2>2. CASE ExecuteConnectorTool
    BY <2>2 DEF ExecuteConnectorTool
  <2> QED
    BY <2>1, <2>2
<1>4. TypeOK'
  BY <1>1, <1>2, <1>3 DEF TypeOK
<1>5. Admitted' = Admitted
  BY <1>1 DEF Admitted, Busy
<1>6. QuotaInv'
  BY <1>1, <1>5 DEF PipelineInv, QuotaInv, CallsPerChat, TokensPerChat
<1> QED
  BY <1>1, <1>4, <1>6 DEF PipelineInv, ChatInv, SessionInv, BudgetInv, EventsInv, Consistent

LEMMA WorkIsBusy == \A c \in Chats : Work(c) => Busy(c)
BY DEF Work, SaveQuestion, CallModel, ExecuteTools, PostProcess, SaveReply, Bill, Return,
       At, Busy, Ends

LEMMA WorkKeepsInv ==
    ASSUME PipelineInv, NEW c \in Chats, Work(c)
    PROVE  PipelineInv'
<1>1. TypeOK /\ ChatInv(chat[c])
  BY DEF PipelineInv
<1>2. ASSUME Return(c)
      PROVE  PipelineInv'
  BY <1>2, ReturnKeepsInv
<1>3. ASSUME ~Return(c)
      PROVE  OwnStep(c)
  BY <1>1, <1>3, SaveQuestionSteps, CallModelSteps, ExecuteToolsSteps, PostProcessSteps,
     SaveReplySteps, BillSteps DEF Work
<1>4. Busy(c)
  BY WorkIsBusy
<1> QED
  BY <1>2, <1>3, <1>4, OwnStepKeepsInv

LEMMA NextPipelineInv == PipelineInv /\ [Next]_vars => PipelineInv'
<1> SUFFICES ASSUME PipelineInv, [Next]_vars
             PROVE  PipelineInv'
  OBVIOUS
<1>1. ASSUME NEW c \in Chats, CheckQuota(c)
      PROVE  PipelineInv'
  BY <1>1, CheckQuotaKeepsInv
<1>2. ASSUME NEW c \in Chats, Work(c)
      PROVE  PipelineInv'
  BY <1>2, WorkKeepsInv
<1>3. ASSUME NEW c \in Chats, Cut(c)
      PROVE  PipelineInv'
  BY <1>3, CutKeepsInv
<1>4. CASE GuestChat \/ ExecuteConnectorTool
  BY <1>4, OthersKeepInv
<1>5. CASE UNCHANGED vars
  BY <1>5 DEF vars, PipelineInv, TypeOK, ChatInv, SessionInv, BudgetInv, EventsInv, Consistent,
              QuotaInv, Admitted, Busy
<1> QED
  BY <1>1, <1>2, <1>3, <1>4, <1>5 DEF Next

-----------------------------------------------------------------------------
\* The inductive invariant: what each chat's session holds at each point of the
\* pipeline, and how much of the quota is left to the chats that are worked on.
THEOREM PipelineInvariant == Spec => []PipelineInv
<1>1. Init => PipelineInv
  BY InitPipelineInv
<1>2. PipelineInv /\ [Next]_vars => PipelineInv'
  BY NextPipelineInv
<1> QED
  BY <1>1, <1>2, PTL DEF Spec

\* Type correctness: among others, the rounds of a chat never pass
\* _MAX_TOOL_ROUNDS and no stream sends more than two "done" events.
THEOREM PipelineTypeCorrect == Spec => []TypeOK
<1>1. PipelineInv => TypeOK
  BY DEF PipelineInv
<1> QED
  BY <1>1, PipelineInvariant, PTL

\* A tenant's chats overshoot its quota by at most one share per chat worked on
\* at a time, for any number of chats and tools, although check_quota reads
\* usage that other chats have yet to commit.
THEOREM QuotaOvershoot == Spec => []QuotaOvershootBounded
<1>1. PipelineInv => QuotaOvershootBounded
  <2> SUFFICES ASSUME PipelineInv
               PROVE  QuotaOvershootBounded
    OBVIOUS
  <2> DEFINE resting == Cardinality(Chats) - Cardinality(Admitted)
  <2>1. resting \in Nat /\ Cardinality(Chats) \in Nat /\ resting <= Cardinality(Chats)
    BY AdmittedIsFinite
  <2>2. /\ usage.calls <= CallLimit - 1 + resting * CallsPerChat
        /\ usage.tokens <= TokenLimit - 1 + resting * TokensPerChat
        /\ usage.calls \in Nat /\ usage.tokens \in Nat
    BY PipelineAssumption DEF PipelineInv, TypeOK, Usage, QuotaInv
  <2> HIDE DEF resting
  <2>3. /\ resting * CallsPerChat <= Cardinality(Chats) * CallsPerChat
        /\ resting * TokensPerChat <= Cardinality(Chats) * TokensPerChat
    BY <2>1, TimesMonotone, SharesAreNaturals
  <2>4. /\ resting * CallsPerChat \in Nat /\ Cardinality(Chats) * CallsPerChat \in Nat
        /\ resting * TokensPerChat \in Nat /\ Cardinality(Chats) * TokensPerChat \in Nat
    BY <2>1, TimesMonotone, SharesAreNaturals
  <2> QED
    BY <2>2, <2>3, <2>4, PipelineAssumption DEF QuotaOvershootBounded
<1> QED
  BY <1>1, PipelineInvariant, PTL

\* Question, reply and charge are kept together, whatever failed on the way and
\* whatever of it billing, audit, memory and the gateway swallowed.
THEOREM RepliesBilled == Spec => []RepliesAreBilled
<1>1. PipelineInv => RepliesAreBilled
  BY DEF PipelineInv, RepliesAreBilled, Consistent
<1> QED
  BY <1>1, PipelineInvariant, PTL

-----------------------------------------------------------------------------
\* How a request ends, as its client sees it.

DoneInv(t) == t.stream /\ t.pc \in {"saving", "billing", "returning", "ended"} => t.done # 0

ReportInv(t) ==
    t.pc = "returning" /\ t.rows.question /\ t.rows.reply = "none" => t.error

EndInv ==
    /\ PipelineInv
    /\ \A c \in Chats : DoneInv(chat[c]) /\ ReportInv(chat[c])
    /\ \A c \in Chats : Busy(c) => kept[c] = NoRows
    /\ UnansweredIsReported

\* A step that leaves every chat but c, and what they committed, alone.
LEMMA EndInvFrom ==
    ASSUME EndInv, PipelineInv', NEW c \in Chats, NEW t,
           chat' = [chat EXCEPT ![c] = t],
           \A d \in Chats \ {c} : kept'[d] = kept[d],
           DoneInv(t), ReportInv(t), t.pc \notin Ends => kept'[c] = NoRows,
           t.pc = "ended" /\ kept'[c].question /\ kept'[c].reply = "none" => t.error
    PROVE  EndInv'
<1>1. TypeOK
  BY DEF EndInv, PipelineInv
<1>2. chat'[c] = t /\ \A d \in Chats \ {c} : chat'[d] = chat[d]
  BY <1>1, ChangedChat
<1>3. \A d \in Chats : DoneInv(chat'[d]) /\ ReportInv(chat'[d])
  BY <1>2 DEF EndInv
<1>4. UnansweredIsReported'
  BY <1>2 DEF EndInv, UnansweredIsReported, At
<1>5. \A d \in Chats : Busy(d)' => kept'[d] = NoRows
  BY <1>2 DEF EndInv, Busy
<1> QED
  BY <1>3, <1>4, <1>5 DEF EndInv, DoneInv, ReportInv

LEMMA BecomesEndInv ==
    ASSUME EndInv, PipelineInv', NEW c \in Chats, Busy(c), NEW t, Becomes(c, t),
           t.pc \notin Ends, DoneInv(t), ReportInv(t)
    PROVE  EndInv'
<1>1. kept[c] = NoRows /\ UNCHANGED kept /\ chat' = [chat EXCEPT ![c] = t]
  BY DEF Becomes, EndInv
<1> QED
  BY <1>1, EndInvFrom DEF Ends

LEMMA FlushEndInv ==
    ASSUME EndInv, PipelineInv', NEW c \in Chats, Busy(c), NEW good \in Chat, NEW bad \in Chat,
           Flush(c, good, bad), good.pc \notin Ends, bad.pc \notin Ends,
           DoneInv(good), ~chat[c].broken => ReportInv(good), DoneInv(bad)
    PROVE  EndInv'
<1>1. /\ Lost(bad).pc = bad.pc /\ Lost(bad).rows = NoRows /\ Lost(bad).done = bad.done
      /\ Lost(bad).stream = bad.stream
  BY DEF Lost, Chat
<1>2. DoneInv(Lost(bad)) /\ ReportInv(Lost(bad))
  BY <1>1, NoRowsIsEmpty DEF DoneInv, ReportInv
<1> QED
  BY <1>1, <1>2, BecomesEndInv DEF Flush

LEMMA RaisedIsSeen ==
    ASSUME NEW t \in Chat, t.done <= 1
    PROVE  Raised(t).error /\ Raised(t).stream = t.stream /\ (t.stream => Raised(t).done # 0)
<1> DEFINE d == IF t.stream THEN t.done + 1 ELSE t.done
<1>1. t.stream => d # 0
  BY DEF Chat
<1>2. Raised(t) = [t EXCEPT !.pc = "returning", !.error = TRUE, !.done = d]
  BY DEF Raised, Chat
<1> HIDE DEF d
<1> QED
  BY <1>1, <1>2 DEF Chat

LEMMA NextEndInv == EndInv /\ [Next]_vars => EndInv'
<1> SUFFICES ASSUME EndInv, [Next]_vars
             PROVE  EndInv'
  OBVIOUS
<1>1. PipelineInv' /\ PipelineInv /\ TypeOK
  BY NextPipelineInv DEF EndInv, PipelineInv
<1>2. ASSUME NEW c \in Chats
      PROVE  /\ chat[c] \in Chat /\ ChatInv(chat[c]) /\ SessionInv(chat[c])
             /\ EventsInv(chat[c]) /\ DoneInv(chat[c]) /\ ReportInv(chat[c])
  BY <1>1 DEF EndInv, PipelineInv, ChatInv
<1>3. ASSUME NEW c \in Chats, CheckQuota(c)
      PROVE  EndInv'
  <2>1. PICK t :
          /\ chat' = [chat EXCEPT ![c] = t]
          /\ \E stream \in BOOLEAN :
               \/ t = [NewChat EXCEPT !.pc = "asking", !.stream = stream]
               \/ t = Finished(Raised([NewChat EXCEPT !.stream = stream]))
    BY <1>3 DEF CheckQuota
  <2>2. kept'[c] = NoRows /\ \A d \in Chats \ {c} : kept'[d] = kept[d]
    BY <1>1, <1>3 DEF CheckQuota, TypeOK
  <2>3. DoneInv(t) /\ ReportInv(t)
    <3>1. PICK stream \in BOOLEAN :
            \/ t = [NewChat EXCEPT !.pc = "asking", !.stream = stream]
            \/ t = Finished(Raised([NewChat EXCEPT !.stream = stream]))
      BY <2>1
    <3>2. CASE t = [NewChat EXCEPT !.pc = "asking", !.stream = stream]
      BY <3>2 DEF NewChat, DoneInv, ReportInv
    <3>3. CASE t = Finished(Raised([NewChat EXCEPT !.stream = stream]))
      <4> DEFINE u == [NewChat EXCEPT !.stream = stream]
      <4>1. u \in Chat /\ u.done = 0
        BY NewChatInv DEF NewChat, Chat
      <4> HIDE DEF u
      <4>2. Raised(u).stream => Raised(u).done # 0
        BY <4>1, RaisedIsSeen
      <4>3. t.pc = "ended" /\ t.stream = Raised(u).stream /\ t.done = Raised(u).done
        BY <3>3 DEF Finished, NewChat, u
      <4> QED
        BY <4>2, <4>3 DEF DoneInv, ReportInv
    <3> QED
      BY <3>1, <3>2, <3>3
  <2> QED
    BY <1>1, <2>1, <2>2, <2>3, NoRowsIsEmpty, EndInvFrom
<1>4. ASSUME NEW c \in Chats, SaveQuestion(c)
      PROVE  EndInv'
  <2>b. Busy(c)
    BY <1>4, WorkIsBusy DEF Work
  <2> DEFINE s == chat[c]
             t == [s EXCEPT !.pc = "calling", !.rows.question = TRUE]
  <2>1. s \in Chat /\ s.done <= 1
    BY <1>2, <1>4 DEF SaveQuestion, At, EventsInv
  <2>2. t \in Chat /\ t.pc = "calling"
    BY <2>1 DEF Chat, Rows, Locations
  <2>3. Raised(s) \in Chat /\ Raised(s).pc = "returning" /\ DoneInv(Raised(s))
    BY <2>1, RaisedFields, RaisedIsSeen DEF DoneInv
  <2>4. Flush(c, t, Raised(s))
    BY <1>4 DEF SaveQuestion
  <2> HIDE DEF t
  <2> QED
    BY <1>1, <2>b, <2>2, <2>3, <2>4, FlushEndInv DEF DoneInv, ReportInv, Ends
<1>5. ASSUME NEW c \in Chats, CallModel(c)
      PROVE  EndInv'
  <2>b. Busy(c)
    BY <1>5, WorkIsBusy DEF Work
  <2> DEFINE s == chat[c]
  <2>1. s \in Chat /\ s.done = 0
    BY <1>2, <1>5 DEF CallModel, At, EventsInv
  <2>2. PICK t :
          /\ Becomes(c, t)
          /\ \/ t = [s EXCEPT !.pc = "saving", !.reply = "unavailable",
                       !.error = TRUE, !.done = IF s.stream THEN @ + 1 ELSE @]
             \/ t = [s EXCEPT !.pc = "answering", !.error = TRUE]
             \/ \E n \in 0..MaxTokens, next \in {"tools", "answering"} :
                  t = [s EXCEPT !.pc = next, !.total = @ + n]
    BY <1>5 DEF CallModel
  <2>3. t.pc \in {"saving", "tools", "answering"} /\ t.stream = s.stream
    BY <2>1, <2>2 DEF Chat
  <2>4. t.pc = "saving" /\ t.stream => t.done # 0
    <3>1. CASE t.pc = "saving"
      <4>1. t = [s EXCEPT !.pc = "saving", !.reply = "unavailable",
                   !.error = TRUE, !.done = IF s.stream THEN @ + 1 ELSE @]
        BY <2>1, <2>2, <3>1 DEF Chat
      <4>2. t.done = IF s.stream THEN s.done + 1 ELSE s.done
        BY <2>1, <4>1 DEF Chat
      <4> QED
        BY <2>1, <2>3, <4>2
    <3> QED
      BY <3>1
  <2> QED
    BY <1>1, <2>b, <2>2, <2>3, <2>4, BecomesEndInv DEF DoneInv, ReportInv, Ends

<1>6. ASSUME NEW c \in Chats, ExecuteTools(c)
      PROVE  EndInv'
  <2>b. Busy(c)
    BY <1>6, WorkIsBusy DEF Work
  <2> DEFINE s == chat[c]
  <2>1. s \in Chat /\ s.pc = "tools" /\ s.done = 0
    BY <1>2, <1>6 DEF ExecuteTools, At, EventsInv
  <2>2. \/ \E n \in 0..MaxTools :
             Flush(c, NextRound([s EXCEPT !.rows.calls = @ + n]), NextRound(s))
        \/ Becomes(c, Raised(s))
    BY <1>6 DEF ExecuteTools
  <2>3. ASSUME NEW u \in Chat, u.stream = s.stream
        PROVE  /\ NextRound(u) \in Chat
               /\ NextRound(u).pc \in {"calling", "answering", "saving"}
               /\ DoneInv(NextRound(u)) /\ ReportInv(NextRound(u))
    <3>1. CASE u.round < MaxToolRounds
      <4>1. u.round + 1 \in 0..MaxToolRounds
        BY <3>1, PipelineAssumption DEF Chat
      <4> QED
        BY <3>1, <4>1 DEF NextRound, Chat, Locations, DoneInv, ReportInv
    <3>2. CASE ~(u.round < MaxToolRounds)
      BY <3>2 DEF NextRound, Chat, Locations, Replies, DoneInv, ReportInv
    <3> QED
      BY <3>1, <3>2
  <2>4. ASSUME NEW n \in 0..MaxTools,
               Flush(c, NextRound([s EXCEPT !.rows.calls = @ + n]), NextRound(s))
        PROVE  EndInv'
    <3> DEFINE u == [s EXCEPT !.rows.calls = s.rows.calls + n]
               good == NextRound(u)
               bad == NextRound(s)
    <3>1. u = [s EXCEPT !.rows.calls = @ + n]
      BY <2>1 DEF Chat, Rows
    <3>2. s.rows.calls + n \in Nat /\ s.rows \in Rows
      BY <2>1, PipelineAssumption DEF Chat, Rows
    <3>3. u \in Chat /\ u.stream = s.stream
      BY <2>1, <3>2 DEF Chat, Rows
    <3>4. Flush(c, good, bad)
      BY <2>4, <3>1
    <3> HIDE DEF u
    <3>5. /\ good \in Chat /\ good.pc \in {"calling", "answering", "saving"}
          /\ DoneInv(good) /\ ReportInv(good)
          /\ bad \in Chat /\ bad.pc \in {"calling", "answering", "saving"} /\ DoneInv(bad)
      BY <2>1, <2>3, <3>3
    <3> HIDE DEF good, bad
    <3> QED
      BY <1>1, <2>b, <3>4, <3>5, FlushEndInv DEF Ends
  <2>5. CASE Becomes(c, Raised(s))
    <3>1. Raised(s).pc = "returning" /\ DoneInv(Raised(s)) /\ ReportInv(Raised(s))
      BY <2>1, RaisedFields, RaisedIsSeen DEF DoneInv, ReportInv
    <3> QED
      BY <1>1, <2>b, <2>5, <3>1, BecomesEndInv DEF Ends
  <2> QED
    BY <2>2, <2>4, <2>5
<1>7. ASSUME NEW c \in Chats, PostProcess(c)
      PROVE  EndInv'
  <2>b. Busy(c)
    BY <1>7, WorkIsBusy DEF Work
  <2> DEFINE s == chat[c]
             answer == [s EXCEPT !.pc = "saving", !.reply = "answer"]
             shown == [answer EXCEPT !.done = @ + 1]
  <2>1. s \in Chat /\ s.done = 0
    BY <1>2, <1>7 DEF PostProcess, At, EventsInv
  <2>2. answer \in Chat /\ answer.pc = "saving" /\ answer.stream = s.stream /\ answer.done = 0
    BY <2>1 DEF Chat, Locations, Replies
  <2>3. shown \in Chat /\ shown.pc = "saving" /\ shown.done = 1
    <3> HIDE DEF answer
    <3>1. shown = [answer EXCEPT !.done = 1]
      BY <2>2 DEF Chat
    <3> HIDE DEF shown
    <3> QED
      BY <2>2, <3>1 DEF Chat
  <2>4. \/ Becomes(c, Raised(s))
        \/ ~s.stream /\ Becomes(c, answer)
        \/ Flush(c, shown, shown)
    BY <1>7 DEF PostProcess
  <2> HIDE DEF answer, shown
  <2>5. CASE Becomes(c, Raised(s))
    <3>1. Raised(s).pc = "returning" /\ DoneInv(Raised(s)) /\ ReportInv(Raised(s))
      BY <2>1, RaisedFields, RaisedIsSeen DEF DoneInv, ReportInv
    <3> QED
      BY <1>1, <2>b, <2>5, <3>1, BecomesEndInv DEF Ends
  <2>6. CASE ~s.stream /\ Becomes(c, answer)
    BY <1>1, <2>b, <2>2, <2>6, BecomesEndInv DEF DoneInv, ReportInv, Ends
  <2>7. CASE Flush(c, shown, shown)
    BY <1>1, <2>b, <2>3, <2>7, FlushEndInv DEF DoneInv, ReportInv, Ends
  <2> QED
    BY <2>4, <2>5, <2>6, <2>7
<1>8. ASSUME NEW c \in Chats, SaveReply(c)
      PROVE  EndInv'
  <2>b. Busy(c)
    BY <1>8, WorkIsBusy DEF Work
  <2> DEFINE s == chat[c]
             next == IF s.reply = "answer" \/ (s.reply = "unavailable" /\ s.stream)
                     THEN "billing" ELSE "returning"
             tokens == IF s.reply = "unavailable" THEN 0 ELSE s.total
             t == [s EXCEPT !.pc = next, !.rows.reply = s.reply, !.rows.tokens = tokens]
  <2>1. /\ s \in Chat /\ s.pc = "saving" /\ s.done <= 1 /\ s.rows \in Rows
        /\ s.reply \in Replies
        /\ s.stream => s.done # 0
        /\ ~s.broken => s.reply # "none"
    BY <1>2, <1>8 DEF SaveReply, At, EventsInv, SessionInv, DoneInv, Chat, Ends
  <2>2. next \in {"billing", "returning"} /\ tokens \in Nat
    BY <2>1 DEF Chat
  <2>3. Flush(c, t, Raised(s))
    BY <1>8 DEF SaveReply
  <2> HIDE DEF next, tokens
  <2>4. t \in Chat
    BY <2>1, <2>2 DEF Chat, Rows, Locations
  <2>5. t.pc = next /\ t.done = s.done /\ t.stream = s.stream /\ t.rows.reply = s.reply
    BY <2>1 DEF Chat, Rows
  <2> HIDE DEF t
  <2>6. Raised(s) \in Chat /\ Raised(s).pc = "returning" /\ DoneInv(Raised(s))
    BY <2>1, RaisedFields, RaisedIsSeen DEF DoneInv
  <2>7. /\ t.pc \notin Ends /\ Raised(s).pc \notin Ends
        /\ DoneInv(t)
        /\ ~s.broken => ReportInv(t)
    BY <2>1, <2>2, <2>5, <2>6 DEF DoneInv, ReportInv, Ends
  <2> QED
    BY <1>1, <2>b, <2>3, <2>4, <2>6, <2>7, FlushEndInv
<1>9. ASSUME NEW c \in Chats, Bill(c)
      PROVE  EndInv'
  <2>b. Busy(c)
    BY <1>9, WorkIsBusy DEF Work
  <2> DEFINE s == chat[c]
             plain == [s EXCEPT !.pc = "returning"]
             billed == [plain EXCEPT !.rows.billed = TRUE, !.rows.charge = s.total]
             good == IF s.reply = "answer" THEN billed ELSE plain
  <2>1. /\ s \in Chat /\ s.rows \in Rows /\ s.total \in Nat /\ s.done <= 1
        /\ s.stream => s.done # 0
        /\ ~s.broken => s.rows.reply # "none"
    BY <1>2, <1>9 DEF Bill, At, SessionInv, EventsInv, DoneInv, Chat, Ends
  <2>2. /\ plain \in Chat /\ plain.pc = "returning" /\ plain.rows = s.rows
        /\ plain.done = s.done /\ plain.stream = s.stream
        /\ plain.reply = s.reply /\ plain.total = s.total
    <3>1. "returning" \in Locations
      BY DEF Locations
    <3> QED
      BY <2>1, <3>1 DEF Chat
  <2>3. /\ billed \in Chat /\ billed.pc = "returning" /\ billed.rows.reply = s.rows.reply
        /\ billed.done = s.done /\ billed.stream = s.stream
    <3> HIDE DEF plain
    <3>1. billed \in Chat
      BY <2>1, <2>2 DEF Chat, Rows
    <3> QED
      BY <2>1, <2>2, <3>1 DEF Chat, Rows
  <2>4. Flush(c, good, plain) \/ Flush(c, good, Raised(plain))
    BY <1>9, <2>2 DEF Bill
  <2> HIDE DEF plain, billed
  <2>5. /\ good \in Chat /\ good.pc = "returning" /\ good.rows.reply = s.rows.reply
        /\ good.done = s.done /\ good.stream = s.stream
    BY <2>2, <2>3
  <2> HIDE DEF good
  <2>6. DoneInv(good) /\ DoneInv(plain) /\ (~s.broken => ReportInv(good))
    BY <2>1, <2>2, <2>5 DEF DoneInv, ReportInv
  <2>7. /\ Raised(plain) \in Chat /\ Raised(plain).pc = "returning"
        /\ DoneInv(Raised(plain))
    BY <2>1, <2>2, RaisedFields, RaisedIsSeen DEF DoneInv
  <2>8. CASE Flush(c, good, plain)
    BY <1>1, <2>b, <2>2, <2>5, <2>6, <2>8, FlushEndInv DEF Ends
  <2>9. CASE Flush(c, good, Raised(plain))
    BY <1>1, <2>b, <2>5, <2>6, <2>7, <2>9, FlushEndInv DEF Ends
  <2> QED
    BY <2>4, <2>8, <2>9
<1>10. ASSUME NEW c \in Chats, Return(c)
       PROVE  EndInv'
  <2> DEFINE s == chat[c]
             t == Finished(s)
  <2>1. /\ s.pc = "returning" /\ DoneInv(s) /\ ReportInv(s)
        /\ s.broken => s.rows = NoRows
        /\ chat' = [chat EXCEPT ![c] = t]
    BY <1>2, <1>10 DEF Return, At, SessionInv
  <2>2. t.pc = "ended" /\ t.stream = s.stream /\ t.done = s.done /\ t.error = s.error
    BY DEF Finished, NewChat
  <2>3. \A d \in Chats \ {c} : kept'[d] = kept[d]
    BY <1>1, <1>10 DEF Return, Commit, TypeOK
  <2>4. kept'[c].question /\ kept'[c].reply = "none" => t.error
    <3>1. CASE kept'[c] = s.rows
      BY <2>1, <2>2, <3>1 DEF ReportInv
    <3>2. CASE UNCHANGED kept
      BY <1>10, <3>2, NoRowsIsEmpty DEF EndInv, Return, At, Busy, Ends
    <3>3. \/ UNCHANGED kept
          \/ kept'[c] = s.rows
      BY <1>1, <1>10 DEF Return, Commit, TypeOK
    <3> QED
      BY <3>1, <3>2, <3>3
  <2> HIDE DEF t
  <2> QED
    BY <1>1, <2>1, <2>2, <2>3, <2>4, EndInvFrom DEF DoneInv, ReportInv, Ends
<1>11. ASSUME NEW c \in Chats, Cut(c)
       PROVE  EndInv'
  <2> DEFINE t == [NewChat EXCEPT !.pc = "cut"]
  <2>1. t.pc = "cut" /\ chat' = [chat EXCEPT ![c] = t]
    BY <1>11 DEF Cut, NewChat
  <2>2. \A d \in Chats \ {c} : kept'[d] = kept[d]
    BY <1>1, <1>11 DEF Cut, Commit, TypeOK
  <2> HIDE DEF t
  <2> QED
    BY <1>1, <2>1, <2>2, EndInvFrom DEF DoneInv, ReportInv, Ends
<1>12. CASE GuestChat \/ ExecuteConnectorTool
  BY <1>1, <1>12
     DEF GuestChat, ExecuteConnectorTool, EndInv, DoneInv, ReportInv, UnansweredIsReported, At, Busy
<1>13. CASE UNCHANGED vars
  BY <1>1, <1>13 DEF vars, EndInv, DoneInv, ReportInv, UnansweredIsReported, At, Busy
<1> QED
  BY <1>3, <1>4, <1>5, <1>6, <1>7, <1>8, <1>9, <1>10, <1>11, <1>12, <1>13 DEF Next, Work

\* The inductive invariant for how requests end: what a stream was sent before
\* its session is settled, and what is left unanswered once it is.
THEOREM EndInvariant == Spec => []EndInv
<1>1. Init => EndInv
  <2> SUFFICES ASSUME Init
               PROVE  EndInv
    OBVIOUS
  <2>1. \A c \in Chats : chat[c].pc = "idle" /\ kept[c] = NoRows
    BY DEF Init, NewChat
  <2> QED
    BY <2>1, InitPipelineInv
       DEF EndInv, DoneInv, ReportInv, UnansweredIsReported, At, Busy, Ends
<1>2. EndInv /\ [Next]_vars => EndInv'
  BY NextEndInv
<1> QED
  BY <1>1, <1>2, PTL DEF Spec

\* _safe_stream ends every stream with "done", whatever raised in it.
THEOREM StreamsEndWithDone == Spec => []EndedStreamsAreDone
<1>1. EndInv => EndedStreamsAreDone
  BY DEF EndInv, DoneInv, EndedStreamsAreDone, At
<1> QED
  BY <1>1, EndInvariant, PTL

\* A question that stays in the history unanswered was reported as an error to
\* the user who asked it.
THEOREM UnansweredReported == Spec => []UnansweredIsReported
<1>1. EndInv => UnansweredIsReported
  BY DEF EndInv
<1> QED
  BY <1>1, EndInvariant, PTL

-----------------------------------------------------------------------------
(* What is left to do of a chat, in steps.  Every step of its own does some  *)
(* of it: ChatEnds, but for the fairness.                                    *)

StepsAfter == [asking |-> 7, calling |-> 6, tools |-> 5, answering |-> 4, saving |-> 3,
               billing |-> 2, returning |-> 1, idle |-> 0, ended |-> 0, cut |-> 0]
RoundsLeft(t) ==
    IF t.pc \in {"asking", "calling", "tools"} THEN MaxToolRounds - t.round ELSE 0

Left(t) == StepsAfter[t.pc] + 2 * RoundsLeft(t)

LEMMA LeftIsBounded ==
    ASSUME NEW t \in Chat
    PROVE  Left(t) \in 0..(2 * MaxToolRounds + 7)
<1>1. RoundsLeft(t) \in 0..MaxToolRounds
  BY PipelineAssumption DEF RoundsLeft, Chat
<1>2. StepsAfter[t.pc] \in 0..7
  BY DEF StepsAfter, Chat, Locations, Ends
<1> QED
  BY <1>1, <1>2, PipelineAssumption DEF Left

\* A chat goes on to a later location of the same round, or from the tools to
\* the next round.
Advances(s, t) ==
    \/ /\ t.round = s.round
       /\ StepsAfter[t.pc] < StepsAfter[s.pc]
    \/ /\ t.pc \notin {"asking", "calling", "tools"}
       /\ StepsAfter[t.pc] < StepsAfter[s.pc]
    \/ /\ s.pc = "tools" /\ t.pc = "calling"
       /\ t.round = s.round + 1

LEMMA AdvancesLowers ==
    ASSUME NEW s \in Chat, NEW t \in Chat, Advances(s, t)
    PROVE  Left(t) < Left(s)
<1>1. /\ StepsAfter[s.pc] \in 0..7 /\ StepsAfter[t.pc] \in 0..7
      /\ RoundsLeft(s) \in 0..MaxToolRounds /\ RoundsLeft(t) \in 0..MaxToolRounds
  BY PipelineAssumption DEF StepsAfter, RoundsLeft, Chat, Locations, Ends
<1>2. CASE s.pc = "tools" /\ t.pc = "calling" /\ t.round = s.round + 1
  <2>1. RoundsLeft(t) = RoundsLeft(s) - 1
    BY <1>2, PipelineAssumption DEF RoundsLeft, Chat
  <2>2. StepsAfter[s.pc] = 5 /\ StepsAfter[t.pc] = 6
    BY <1>2 DEF StepsAfter
  <2> QED
    BY <1>1, <2>1, <2>2, PipelineAssumption DEF Left
<1>3. CASE /\ StepsAfter[t.pc] < StepsAfter[s.pc]
           /\ t.round = s.round \/ t.pc \notin {"asking", "calling", "tools"}
  <2>1. RoundsLeft(t) <= RoundsLeft(s)
    <3>1. CASE t.pc \notin {"asking", "calling", "tools"}
      BY <1>1, <3>1 DEF RoundsLeft
    <3>2. CASE t.pc \in {"asking", "calling", "tools"}
      <4>1. s.pc \in {"asking", "calling", "tools"} /\ t.round = s.round
        BY <1>3, <3>2 DEF StepsAfter, Chat, Locations, Ends
      <4> QED
        BY <3>2, <4>1, PipelineAssumption DEF RoundsLeft, Chat
    <3> QED
      BY <3>1, <3>2
  <2> QED
    BY <1>1, <1>3, <2>1, PipelineAssumption DEF Left
<1> QED
  BY <1>2, <1>3 DEF Advances

LEMMA RaisedReturns ==
    ASSUME NEW t \in Chat
    PROVE  /\ Raised(t).pc = "returning" /\ Raised(t).round = t.round
           /\ Lost(Raised(t)).pc = "returning" /\ Lost(Raised(t)).round = t.round
           /\ Lost(t).pc = t.pc /\ Lost(t).round = t.round
BY DEF Raised, Lost, Chat

LEMMA NextRoundAdvances ==
    ASSUME NEW t \in Chat, t.pc = "tools", NEW s \in Chat, s.pc = "tools", t.round = s.round
    PROVE  /\ Advances(s, NextRound(t))
           /\ Lost(NextRound(t)).pc = NextRound(t).pc
           /\ Lost(NextRound(t)).round = NextRound(t).round
<1>1. CASE t.round < MaxToolRounds
  <2>1. NextRound(t) = [t EXCEPT !.pc = "calling", !.round = t.round + 1]
    BY <1>1 DEF NextRound
  <2> QED
    BY <2>1 DEF Advances, Lost, Chat
<1>2. CASE ~(t.round < MaxToolRounds)
  <2>1. NextRound(t) = IF t.stream THEN [t EXCEPT !.pc = "answering"]
                       ELSE [t EXCEPT !.pc = "saving", !.reply = "exhausted"]
    BY <1>2 DEF NextRound
  <2> QED
    BY <2>1 DEF Advances, Lost, StepsAfter, Chat
<1> QED
  BY <1>1, <1>2

LEMMA FlushGives ==
    ASSUME TypeOK, NEW c \in Chats, NEW good, NEW bad, Flush(c, good, bad)
    PROVE  chat'[c] = good \/ chat'[c] = Lost(bad)
BY DEF Flush, Becomes, TypeOK

LEMMA WorkAdvances ==
    ASSUME TypeOK, NEW c \in Chats, Work(c)
    PROVE  Advances(chat[c], chat'[c])
<1> DEFINE s == chat[c]
<1>1. s \in Chat
  BY DEF TypeOK
<1>2. CASE SaveQuestion(c)
  <2>1. s.pc = "asking"
    BY <1>2 DEF SaveQuestion, At
  <2> DEFINE saved == [s EXCEPT !.pc = "calling", !.rows.question = TRUE]
  <2>2. chat'[c] = saved \/ chat'[c] = Lost(Raised(s))
    BY <1>2, FlushGives DEF SaveQuestion
  <2>3. saved.pc = "calling" /\ saved.round = s.round
    BY <1>1 DEF Chat
  <2> HIDE DEF saved
  <2> QED
    BY <1>1, <2>1, <2>2, <2>3, RaisedReturns DEF Advances, StepsAfter
<1>3. CASE CallModel(c)
  <2>1. s.pc = "calling"
    BY <1>3 DEF CallModel, At
  <2>2. chat'[c].pc \in {"saving", "answering", "tools"} /\ chat'[c].round = s.round
    <3> DEFINE Goes(t) == t.pc \in {"saving", "answering", "tools"} /\ t.round = s.round
    <3>1. ASSUME NEW t, Becomes(c, t) PROVE chat'[c] = t
      BY <3>1 DEF Becomes, TypeOK
    <3>2. Goes([s EXCEPT !.pc = "saving", !.reply = "unavailable", !.error = TRUE,
                         !.done = IF s.stream THEN @ + 1 ELSE @])
      BY <1>1 DEF Chat
    <3>3. Goes([s EXCEPT !.pc = "answering", !.error = TRUE])
      BY <1>1 DEF Chat
    <3>4. \A n \in 0..MaxTokens, next \in {"tools", "answering"} :
              Goes([s EXCEPT !.pc = next, !.total = @ + n])
      BY <1>1 DEF Chat
    <3> HIDE DEF Goes
    <3>5. Goes(chat'[c])
      BY <1>3, <3>1, <3>2, <3>3, <3>4 DEF CallModel
    <3> QED
      BY <3>5 DEF Goes
  <2> QED
    BY <2>1, <2>2 DEF Advances, StepsAfter
<1>4. CASE ExecuteTools(c)
  <2>1. s.pc = "tools"
    BY <1>4 DEF ExecuteTools, At
  <2>2. CASE Becomes(c, Raised(s))
    BY <1>1, <2>1, <2>2, RaisedReturns DEF Becomes, TypeOK, Advances, StepsAfter
  <2>3. ASSUME NEW n \in 0..MaxTools,
               Flush(c, NextRound([s EXCEPT !.rows.calls = @ + n]), NextRound(s))
        PROVE  Advances(s, chat'[c])
    <3> DEFINE t == [s EXCEPT !.rows.calls = @ + n]
    <3>1. t \in Chat /\ t.pc = "tools" /\ t.round = s.round
      BY <1>1, <2>1, <2>3, PipelineAssumption DEF Chat, Rows
    <3>2. chat'[c] = NextRound(t) \/ chat'[c] = Lost(NextRound(s))
      BY <2>3, FlushGives
    <3> HIDE DEF t
    <3>3. Advances(s, NextRound(t)) /\ Advances(s, NextRound(s))
      BY <1>1, <2>1, <3>1, NextRoundAdvances
    <3>4. Advances(s, NextRound(s)) => Advances(s, Lost(NextRound(s)))
      BY <1>1, <2>1, NextRoundAdvances DEF Advances
    <3> QED
      BY <3>2, <3>3, <3>4
  <2> QED
    BY <1>4, <2>2, <2>3 DEF ExecuteTools
<1>5. CASE PostProcess(c)
  <2>1. s.pc = "answering"
    BY <1>5 DEF PostProcess, At
  <2> DEFINE answer == [s EXCEPT !.pc = "saving", !.reply = "answer"]
             shown == [answer EXCEPT !.done = @ + 1]
  <2>2. \/ chat'[c] \in {Raised(s), answer, shown}
        \/ chat'[c] = Lost(shown)
    <3>1. CASE Flush(c, shown, shown)
      BY <3>1, FlushGives
    <3> QED
      BY <1>5, <3>1 DEF PostProcess, Becomes, TypeOK
  <2>3. /\ answer.pc = "saving" /\ answer.round = s.round
        /\ shown.pc = "saving" /\ shown.round = s.round
        /\ Lost(shown).pc = "saving" /\ Lost(shown).round = s.round
    BY <1>1 DEF Lost, Chat
  <2> HIDE DEF answer, shown
  <2> QED
    BY <1>1, <2>1, <2>2, <2>3, RaisedReturns DEF Advances, StepsAfter
<1>6. CASE SaveReply(c)
  <2>1. s.pc = "saving"
    BY <1>6 DEF SaveReply, At
  <2>2. chat'[c] = Lost(Raised(s))
          \/ (chat'[c].pc \in {"billing", "returning"} /\ chat'[c].round = s.round)
    <3> DEFINE next == IF s.reply = "answer" \/ (s.reply = "unavailable" /\ s.stream)
                       THEN "billing" ELSE "returning"
               t == [s EXCEPT !.pc = next, !.rows.reply = s.reply,
                              !.rows.tokens = IF s.reply = "unavailable" THEN 0 ELSE s.total]
    <3>1. t.pc = next /\ t.round = s.round
      BY <1>1 DEF Chat
    <3>2. chat'[c] = t \/ chat'[c] = Lost(Raised(s))
      BY <1>6, FlushGives DEF SaveReply
    <3> QED
      BY <3>1, <3>2
  <2> QED
    BY <1>1, <2>1, <2>2, RaisedReturns DEF Advances, StepsAfter
<1>7. CASE Bill(c)
  <2>1. s.pc = "billing"
    BY <1>7 DEF Bill, At
  <2> DEFINE t == [s EXCEPT !.pc = "returning"]
             billed == [t EXCEPT !.rows.billed = TRUE, !.rows.charge = t.total]
  <2>2. chat'[c] \in {billed, t, Lost(t), Lost(Raised(t))}
    <3>1. Flush(c, billed, t) \/ Flush(c, billed, Raised(t)) \/ Flush(c, t, t)
      BY <1>7 DEF Bill
    <3> QED
      BY <3>1, FlushGives
  <2>3. /\ t \in Chat /\ t.pc = "returning" /\ t.round = s.round
        /\ billed.pc = "returning" /\ billed.round = s.round
    BY <1>1 DEF Chat, Locations
  <2> HIDE DEF t, billed
  <2> QED
    BY <2>1, <2>2, <2>3, RaisedReturns DEF Advances, StepsAfter
<1>8. CASE Return(c)
  BY <1>1, <1>8 DEF Return, At, TypeOK, Finished, NewChat, Advances, StepsAfter, Chat
<1> QED
  BY <1>2, <1>3, <1>4, <1>5, <1>6, <1>7, <1>8 DEF Work

\* Whatever fails, is called or is asked for again, a step of a chat lowers the
\* number of steps left of it, and no other step touches it while it is worked
\* on: with _MAX_TOOL_ROUNDS = 100, no chat takes more than 207 of them.
THEOREM ChatsRunOut ==
    Spec => /\ []\A c \in Chats : Left(chat[c]) \in 0..(2 * MaxToolRounds + 7)
            /\ [][\A c \in Chats : Busy(c) /\ chat'[c] # chat[c] =>
                      Left(chat'[c]) < Left(chat[c])]_vars
<1> DEFINE Bounded == \A c \in Chats : Left(chat[c]) \in 0..(2 * MaxToolRounds + 7)
           Lowers == \A c \in Chats : Busy(c) /\ chat'[c] # chat[c] =>
                         Left(chat'[c]) < Left(chat[c])
<1>1. TypeOK => Bounded
  BY LeftIsBounded DEF TypeOK
<1>2. TypeOK /\ TypeOK' /\ [Next]_vars => [Lowers]_vars
  <2> SUFFICES ASSUME TypeOK, TypeOK', [Next]_vars, NEW c \in Chats, Busy(c),
                      chat'[c] # chat[c]
               PROVE  Left(chat'[c]) < Left(chat[c])
    OBVIOUS
  <2>1. chat[c] \in Chat /\ chat'[c] \in Chat
    BY DEF TypeOK
  <2>2. CASE Work(c)
    BY <2>1, <2>2, WorkAdvances, AdvancesLowers
  <2>3. CASE Cut(c)
    <3>1. chat'[c].pc = "cut"
      BY <2>3 DEF Cut, TypeOK, NewChat
    <3>2. Left(chat'[c]) = 0
      BY <3>1 DEF Left, StepsAfter, RoundsLeft
    <3>3. StepsAfter[chat[c].pc] \in 1..7 /\ RoundsLeft(chat[c]) \in Nat
      BY <2>1, PipelineAssumption DEF StepsAfter, RoundsLeft, Chat, Locations, Busy, Ends
    <3> QED
      BY <3>2, <3>3 DEF Left
  <2>4. ASSUME NEW b \in Chats, b # c, CheckQuota(b) \/ Work(b) \/ Cut(b)
        PROVE  chat'[c] = chat[c]
    BY <2>4 DEF CheckQuota, Work, SaveQuestion, CallModel, ExecuteTools, PostProcess, SaveReply,
                Bill, Return, Cut, Flush, Becomes, TypeOK
  <2>5. ~CheckQuota(c)
    BY DEF CheckQuota
  <2>6. chat' # chat
    OBVIOUS
  <2> QED
    BY <2>2, <2>3, <2>4, <2>5, <2>6 DEF Next, GuestChat, ExecuteConnectorTool, vars
<1>3. Spec => [][Next]_vars
  BY PTL DEF Spec
<1> HIDE DEF Bounded, Lowers
<1>4. Spec => []Bounded /\ [][Lowers]_vars
  BY <1>1, <1>2, <1>3, PipelineTypeCorrect, PTL
<1> QED
  BY <1>4 DEF Bounded, Lowers

=============================================================================
