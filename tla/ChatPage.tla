------------------------------- MODULE ChatPage -------------------------------
(***************************************************************************)
(* The chat page of the web client: what it shows, the streams it reads    *)
(* (one per question), what the server does for each, and the rows it      *)
(* keeps.  The server serves a question whether the page reads on or not:  *)
(* its events reach the page while the stream is open, in their order, and *)
(* nobody once the connection has broken.  It commits after the response.  *)
(*                                                                         *)
(* React does not change what is shown when a callback of a stream calls a *)
(* setter: the update waits in a queue until the next render, which        *)
(* applies the queue in order.  A click is handled with the closures of    *)
(* the last render, and is rendered before anything else happens; so it    *)
(* applies the queue, too.  The setters' functions read realMsgId when     *)
(* they are run, not when they are queued.  Only the first update of an    *)
(* empty queue may be run at once: React decides.                          *)
(*                                                                         *)
(* The page names a conversation it made itself Local(k), and learns the   *)
(* server's name OnServer(n) from the meta event of the stream that made   *)
(* it.  Conversations and messages are sets: their order, titles, counters *)
(* and ratings are left out, as is the choice of an agent.  A stream has   *)
(* at most one chunk of text.  MaxSends bounds the questions, MaxChats the *)
(* conversations the page makes, MaxLoads the requests for messages in     *)
(* flight, MaxQueue the updates a render is late by.                       *)
(***************************************************************************)
EXTENDS Naturals, FiniteSets, Sequences

CONSTANTS MaxSends, MaxChats, MaxClicks, MaxLoads, MaxQueue

ASSUME ChatPageAssumption == {MaxSends, MaxChats, MaxClicks, MaxLoads, MaxQueue} \subseteq Nat

VARIABLES
    chat,     \* what is shown: the component's state as last rendered
    queue,    \* updates that wait for the next render
    convOf,   \* realConvIdRef: the server's name of a conversation
    created,  \* conversations the page has made (Date.now() in their names)
    stream,   \* the request of each question, as the page knows it
    serving,  \* and as the server does
    listing,  \* the request for the list of conversations
    loads,    \* requests for the messages of a conversation
    confirm,  \* the dialog that asks before a conversation is deleted
    clicks,   \* the user's clicks beside questions
    stored    \* the exchanges the server has committed: <<question, conversation>>

chatVars == <<chat, queue, convOf, created, stream, serving, listing, loads, confirm,
              clicks, stored>>

Sends == 1..MaxSends
NoConv == <<"none", 0>>
NoDialog == [conv |-> NoConv, current |-> NoConv]
Local(k) == <<"local", k>>
OnServer(n) == <<"server", n>>
ConvIds == {Local(k) : k \in 1..MaxChats} \cup {OnServer(n) : n \in 0..MaxSends}

\* A message is known by its question, its role and who named it.
Messages == [send : 0..MaxSends, role : {"user", "assistant"},
             id : {"local", "server"}, conv : ConvIds,
             text : {"none", "words", "error"}, streaming : BOOLEAN]

Message(n, role, id, conv, text, streaming) ==
    [send |-> n, role |-> role, id |-> id, conv |-> conv, text |-> text,
     streaming |-> streaming]

\* Of a request of the page: nothing has come of a stream that is "sent".
Phases == {"unsent", "sent", "heard", "over"}

\* Of the server.  "failing": an error event has been sent, done and the save are
\* to come; "ending": the page hears no more of it but the end.
Steps == {"idle", "asked", "answering", "failing", "saving", "ending", "over"}

\* target, viewed, asked and early are fixed by handleSend: the conversation it
\* writes to, the one shown, the name it gives the server, and (history) whether
\* an exchange before it had not been committed or given up yet.
\* late: the answer's message was renamed too late, and its words are lost.
Streams == [phase : Phases, target : ConvIds \cup {NoConv},
            viewed : ConvIds \cup {NoConv}, asked : ConvIds \cup {NoConv},
            early : BOOLEAN, conv : ConvIds \cup {NoConv},
            msgId : {"local", "server"}, worded : BOOLEAN, late : BOOLEAN]

Servings == [step : Steps, conv : ConvIds \cup {NoConv}]

Open(n) == stream[n].phase \in {"sent", "heard"}
Unsaved(n) == serving[n].step \notin {"idle", "over"}

\* The meta event has come: the page knows what the server calls the conversation.
Learned(n) == stream[n].conv # NoConv

StoredConvs == {x[2] : x \in stored}

\* The messages of conversation c.  Of a question of this page the server may have
\* stored the conversation, the question too, or all: here it may be any each time.
StoredMessages(c) ==
    LET rows(n) == {Message(n, "user", "server", c, "words", FALSE),
                    Message(n, "assistant", "server", c, "words", FALSE)}
    IN  UNION {rows(x[1]) : x \in {y \in stored : y[2] = c}}

MessagesOf(c) ==
    {answer \in SUBSET StoredMessages(c) :
        /\ \A m \in StoredMessages(c) : m.send = 0 => m \in answer
        /\ \A m \in answer : \E q \in answer : q.send = m.send /\ q.role = "user"}
-----------------------------------------------------------------------------
(* The queue of updates, and rendering it.                                 *)

\* The messages that the updates of stream n look for, by realMsgId.
IsReply(m, n) == m.send = n /\ m.role = "assistant" /\ m.id = stream[n].msgId

Replies(p, n) == {m \in p.messages : IsReply(m, n)}
Updated(p, n, replies) == [p EXCEPT !.messages = (@ \ Replies(p, n)) \cup replies]

\* The messages of conversation c, or its entry, under the name d.
Renamed(ids, c, d) == {IF x = c THEN d ELSE x : x \in ids}
Moved(messages, c, d) ==
    {IF m.conv = c THEN [m EXCEPT !.conv = d] ELSE m : m \in messages}

OnMeta(p, n, eager) ==
    LET s == stream[n]
        named == IF eager
                 THEN {IF m.send = n /\ m.role = "assistant" /\ m.id = "local"
                       THEN [m EXCEPT !.id = "server"] ELSE m : m \in p.messages}
                 ELSE p.messages
    IN [p EXCEPT !.messages = Moved(named, s.target, s.conv),
                 !.conversations = Renamed(@, s.target, s.conv),
                 !.currentId = IF s.viewed \in {s.target, NoConv} THEN s.conv ELSE @]

\* A mutant: the answer is looked for by the id the page gave it.
OnChunkByLocalId(p, n) ==
    [p EXCEPT !.messages =
        {IF m.send = n /\ m.role = "assistant" /\ m.id = "local"
         THEN [m EXCEPT !.text = "words"] ELSE m : m \in @}]

OnChunk(p, n) == Updated(p, n, {[m EXCEPT !.text = "words"] : m \in Replies(p, n)})

InputFreed(p) == [p EXCEPT !.isStreaming = FALSE]

OnDone(p, n) ==
    InputFreed(Updated(p, n, {[m EXCEPT !.streaming = FALSE] : m \in Replies(p, n)}))

\* A mutant: the input bar is left to onDone.
OnErrorKeepsInput(p, n) ==
    Updated(p, n, {[m EXCEPT !.text = IF @ = "none" THEN "error" ELSE @,
                             !.streaming = FALSE] : m \in Replies(p, n)})

OnError(p, n) ==
    InputFreed(Updated(p, n, {[m EXCEPT !.text = IF @ = "none" THEN "error" ELSE @,
                                        !.streaming = FALSE] : m \in Replies(p, n)}))

\* An answer to getMessages, without what is shown under the same id.
OnLoaded(p, answer) ==
    [p EXCEPT !.messages = @ \cup {m \in answer : ~ \E q \in @ :
                               q.send = m.send /\ q.role = m.role /\ q.id = m.id}]

OnListed(p, answer) == [p EXCEPT !.conversations = answer]

Applied(p, u) ==
    CASE u.event = "meta" -> OnMeta(p, u.of, u.eager)
      [] u.event = "chunk" -> OnChunk(p, u.of)
      [] u.event = "done" -> OnDone(p, u.of)
      [] u.event = "error" -> OnError(p, u.of)
      [] u.event = "loaded" -> OnLoaded(p, u.of)
      [] u.event = "listed" -> OnListed(p, u.of)

\* What is shown once the first i updates are applied, and once all are.
Rendering[i \in 0..Len(queue)] ==
    IF i = 0 THEN chat ELSE Applied(Rendering[i - 1], queue[i])

Rendered == Rendering[Len(queue)]

Render ==
    /\ queue # <<>>
    /\ chat' = Rendered
    /\ queue' = <<>>
    /\ UNCHANGED <<convOf, created, stream, serving, listing, loads, confirm,
                   clicks, stored>>

Enqueue(event, of) ==
    /\ Len(queue) < MaxQueue
    /\ queue' = Append(queue, [event |-> event, of |-> of])

\* The user's clicks change what is shown by p and render it.
Show(p) == chat' = p /\ queue' = <<>>
Click == clicks < MaxClicks /\ clicks' = clicks + 1
-----------------------------------------------------------------------------
(* The user.  A dialog covers the page.                                    *)

\* The rows of the list, each of which can be selected and deleted.
RowsOffered == IF confirm = NoDialog THEN chat.conversations ELSE {}

\* The input bar takes the Enter key and its button.
InputOffered == confirm = NoDialog /\ ~chat.isStreaming

HandleNewConversation ==
    /\ confirm = NoDialog
    /\ Click
    /\ created < MaxChats
    /\ created' = created + 1
    /\ Show([Rendered EXCEPT !.conversations = @ \cup {Local(created + 1)},
                             !.currentId = Local(created + 1)])
    /\ UNCHANGED <<convOf, stream, serving, listing, loads, confirm, stored>>

\* The messages are asked for if none of the conversation is shown.
HandleSelectConversation(c) ==
    /\ Click
    /\ c \in RowsOffered
    /\ Show([Rendered EXCEPT !.currentId = c])
    /\ IF \E m \in chat.messages : m.conv = c
       THEN UNCHANGED loads
       ELSE /\ Cardinality(loads) < MaxLoads
            /\ loads' = loads \cup {[conv |-> c, answered |-> FALSE, messages |-> {}]}
    /\ UNCHANGED <<convOf, created, stream, serving, listing, confirm, stored>>

\* The input bar is disabled while isStreaming.  Without a conversation one is
\* made.  The request starts from what the click's closure knows.
HandleSend(n) ==
    LET new == chat.currentId = NoConv
        target == IF new THEN Local(created + 1) ELSE chat.currentId
        sent == [phase |-> "sent", target |-> target, viewed |-> chat.currentId,
                 asked |-> convOf[target], conv |-> NoConv, msgId |-> "local",
                 worded |-> FALSE, late |-> FALSE, early |-> \E m \in Sends : Unsaved(m)]
    IN  /\ InputOffered
        /\ \A m \in Sends : (stream[m].phase = "unsent") <=> (m >= n)
        /\ new => created < MaxChats
        /\ created' = IF new THEN created + 1 ELSE created
        /\ Show([Rendered EXCEPT
                    !.conversations = IF new THEN @ \cup {target} ELSE @,
                    !.currentId = IF new THEN target ELSE @,
                    !.messages = @ \cup
                        {Message(n, "user", "local", target, "words", FALSE),
                         Message(n, "assistant", "local", target, "none", TRUE)},
                    !.isStreaming = TRUE])
        /\ stream' = [stream EXCEPT ![n] = sent]
        /\ serving' = [serving EXCEPT ![n].step = "asked"]
        /\ UNCHANGED <<convOf, listing, loads, confirm, clicks, stored>>

\* The dialog keeps the conversation it was opened for and, in the closure of
\* its onOk, the one shown then.
HandleDeleteConversation(c) ==
    /\ Click
    /\ c \in RowsOffered
    /\ Show(Rendered)
    /\ confirm' = [conv |-> c, current |-> chat.currentId]
    /\ UNCHANGED <<convOf, created, stream, serving, listing, loads, stored>>

CancelDelete ==
    /\ confirm # NoDialog
    /\ confirm' = NoDialog
    /\ UNCHANGED <<chat, queue, convOf, created, stream, serving, listing, loads, clicks,
                   stored>>

\* onOk: what is shown under the name the dialog was opened for goes; the
\* server is asked to delete it, and what it answers is ignored.
ConfirmDelete ==
    /\ confirm # NoDialog
    /\ Show([Rendered EXCEPT
                !.conversations = @ \ {confirm.conv},
                !.messages = {m \in @ : m.conv # confirm.conv},
                !.currentId = IF confirm.current = confirm.conv THEN NoConv ELSE @])
    /\ \/ stored' = {x \in stored : x[2] # confirm.conv}
       \/ stored' = stored
    /\ confirm' = NoDialog
    /\ UNCHANGED <<convOf, created, stream, serving, listing, loads, clicks>>
-----------------------------------------------------------------------------
(* Answers to the page's GET requests.  The list is of the moment the      *)
(* server reads it, and replaces whatever list is shown when it arrives.   *)

ServeListing ==
    /\ listing.phase = "asked"
    /\ listing' = [phase |-> "answered", convs |-> StoredConvs]
    /\ UNCHANGED <<chat, queue, convOf, created, stream, serving, loads, confirm,
                   clicks, stored>>

HandleListing ==
    /\ listing.phase = "answered"
    /\ IF listing.convs = {} THEN UNCHANGED queue ELSE Enqueue("listed", listing.convs)
    /\ listing' = [phase |-> "over", convs |-> {}]
    /\ UNCHANGED <<chat, convOf, created, stream, serving, loads, confirm, clicks,
                   stored>>

ListingFails ==
    /\ listing.phase = "asked"
    /\ listing' = [phase |-> "over", convs |-> {}]
    /\ UNCHANGED <<chat, queue, convOf, created, stream, serving, loads, confirm,
                   clicks, stored>>

\* The server knows no conversation by a name of the page's.
ServeMessages(l) ==
    /\ ~l.answered
    /\ \E answer \in MessagesOf(l.conv) :
          loads' = (loads \ {l}) \cup {[l EXCEPT !.answered = TRUE, !.messages = answer]}
    /\ UNCHANGED <<chat, queue, convOf, created, stream, serving, listing,
                   confirm, clicks, stored>>

HandleMessages(l) ==
    /\ l.answered
    /\ IF l.messages = {} THEN UNCHANGED queue ELSE Enqueue("loaded", l.messages)
    /\ loads' = loads \ {l}
    /\ UNCHANGED <<chat, convOf, created, stream, serving, listing, confirm,
                   clicks, stored>>
-----------------------------------------------------------------------------
(* The stream of question n: the server's steps, and sendMessageSSE, which *)
(* hears of them while the stream is open.                                 *)

Step(n, step) == serving' = [serving EXCEPT ![n].step = step]

\* What the server sends is left out once nobody reads it.
Hear(n, event) ==
    /\ Open(n)
    /\ Enqueue(event, n)
    /\ stream' = [stream EXCEPT ![n].phase = "heard"]

\* The server continues the conversation it is asked for if it has it, and makes
\* one otherwise.
ServerConv(n) ==
    IF stream[n].asked \in StoredConvs THEN stream[n].asked ELSE OnServer(n)

\* A mutant: the server's name is known by the page's name alone.
NamedOnce(refs, target, conv) == [refs EXCEPT ![target] = conv]

Named(refs, target, conv) == [refs EXCEPT ![target] = conv, ![conv] = conv]

\* The meta event.  The references change at once.
Meta(n) ==
    /\ Open(n)
    /\ serving[n].step = "asked"
    /\ serving' = [serving EXCEPT ![n] = [step |-> "answering", conv |-> ServerConv(n)]]
    /\ Len(queue) < MaxQueue
    /\ \E eager \in (IF queue = <<>> THEN BOOLEAN ELSE {FALSE}) :
          /\ queue' = Append(queue, [event |-> "meta", of |-> n, eager |-> eager])
          /\ stream' = [stream EXCEPT ![n].phase = "heard", ![n].conv = ServerConv(n),
                                      ![n].msgId = "server", ![n].late = ~eager]
    /\ convOf' = Named(convOf, stream[n].target, ServerConv(n))
    /\ UNCHANGED <<chat, created, listing, loads, confirm, clicks, stored>>

MetaUnheard(n) ==
    /\ ~Open(n)
    /\ serving[n].step = "asked"
    /\ serving' = [serving EXCEPT ![n] = [step |-> "ending", conv |-> ServerConv(n)]]
    /\ UNCHANGED <<chat, queue, convOf, created, stream, listing, loads, confirm, clicks,
                   stored>>

Chunk(n) ==
    /\ Open(n)
    /\ serving[n].step = "answering"
    /\ ~stream[n].worded
    /\ stream' = [stream EXCEPT ![n].worded = TRUE]
    /\ Enqueue("chunk", n)
    /\ UNCHANGED <<chat, convOf, created, serving, listing, loads, confirm, clicks,
                   stored>>

\* An error event: the quota is used up or the pipeline fails; no model answers or
\* a stream breaks off, and done and the save follow; or the save fails, after done.
\* The done that the wrapper sends after an error of its own does what the end of
\* the body does once more, and is left to it.
ErrorEvent(n) ==
    /\ \/ serving[n].step \in {"asked", "answering", "saving"} /\ Step(n, "ending")
       \/ serving[n].step = "answering" /\ Step(n, "failing")
    /\ Hear(n, "error")
    /\ UNCHANGED <<chat, convOf, created, listing, loads, confirm, clicks, stored>>

\* Sent before the answer is saved.
DoneEvent(n) ==
    /\ serving[n].step \in {"answering", "failing"}
    /\ Step(n, "saving")
    /\ Hear(n, "done")
    /\ UNCHANGED <<chat, convOf, created, listing, loads, confirm, clicks, stored>>

\* The body ends: the reader's loop is left, and onDone is called (again).
EndOfStream(n) ==
    /\ serving[n].step \in {"saving", "ending"}
    /\ Open(n)
    /\ stream' = [stream EXCEPT ![n].phase = "over"]
    /\ Step(n, "ending")
    /\ Enqueue("done", n)
    /\ UNCHANGED <<chat, convOf, created, listing, loads, confirm, clicks, stored>>

\* The response is not ok, or the connection breaks.  The server may go on.
StreamBreaks(n) ==
    /\ Open(n)
    /\ stream' = [stream EXCEPT ![n].phase = "over"]
    /\ Step(n, IF serving[n].step = "asked" THEN "asked" ELSE "ending")
    /\ Enqueue("error", n)
    /\ UNCHANGED <<chat, convOf, created, listing, loads, confirm, clicks, stored>>

\* Once the response is over, or the client found to be gone, get_db commits what has
\* been flushed of the exchange; or fails to, or nothing was flushed, or the server
\* stops.  A conversation that has been deleted takes no rows.
Commit(n) ==
    /\ ~Open(n)
    /\ Unsaved(n)
    /\ Step(n, "over")
    /\ \/ /\ serving[n].conv \in StoredConvs \cup {OnServer(n)}
          /\ stored' = stored \cup {<<n, serving[n].conv>>}
       \/ stored' = stored
    /\ UNCHANGED <<chat, queue, convOf, created, stream, listing, loads, confirm, clicks>>

StreamStep(n) ==
    Meta(n) \/ MetaUnheard(n) \/ Chunk(n) \/ ErrorEvent(n) \/ DoneEvent(n)
        \/ EndOfStream(n) \/ StreamBreaks(n) \/ Commit(n)
-----------------------------------------------------------------------------
ChatInit ==
    /\ chat = [conversations |-> {}, currentId |-> NoConv, messages |-> {},
               isStreaming |-> FALSE]
    /\ queue = <<>>
    /\ convOf = [c \in ConvIds |-> NoConv]
    /\ created = 0
    /\ clicks = 0
    /\ stream = [n \in Sends |->
                    [phase |-> "unsent", target |-> NoConv, viewed |-> NoConv,
                     asked |-> NoConv, early |-> FALSE, conv |-> NoConv,
                     msgId |-> "local", worded |-> FALSE, late |-> FALSE]]
    /\ serving = [n \in Sends |-> [step |-> "idle", conv |-> NoConv]]
    /\ listing = [phase |-> "asked", convs |-> {}]
    /\ loads = {}
    /\ confirm = NoDialog
    /\ stored = {<<0, OnServer(0)>>}

ChatNext ==
    \/ Render
    \/ HandleNewConversation
    \/ \E c \in ConvIds : HandleSelectConversation(c) \/ HandleDeleteConversation(c)
    \/ CancelDelete
    \/ ConfirmDelete
    \/ ServeListing \/ HandleListing \/ ListingFails
    \/ \E l \in loads : ServeMessages(l) \/ HandleMessages(l)
    \/ \E n \in Sends : HandleSend(n) \/ StreamStep(n)

\* What is queued is rendered, and the server comes to an end with a question, one
\* way or another (it limits a chat's rounds and calls, see ChatPipeline), of which
\* the page learns unless its connection breaks.
ChatFairness ==
    /\ WF_chatVars(Render)
    /\ \A n \in Sends : WF_chatVars(StreamStep(n))

ChatSpec == ChatInit /\ [][ChatNext]_chatVars /\ ChatFairness
-----------------------------------------------------------------------------
(* Exchanges of this page that it shows in one conversation are stored in  *)
(* one: the names the page has for a conversation never fork it on the     *)
(* server, as long as nobody asks before the exchange before is committed, *)
(* whatever streams break off and whatever the server makes of those.  An  *)
(* exchange whose stream broke before the meta event came is excepted: the *)
(* server may have stored it where the page cannot know, and the next      *)
(* question begins another conversation.                                   *)
ShownTogetherStoredTogether ==
    (\A n \in Sends : ~stream[n].early) =>
        \A x, y \in stored : \A p, q \in Rendered.messages :
            {x[1], y[1]} \subseteq Sends /\ Learned(x[1]) /\ Learned(y[1])
                /\ p.send = x[1] /\ q.send = y[1] /\ p.conv = q.conv
                => x[2] = y[2]

(* Once a stream is over and rendered, its answer stands with its question *)
(* in one conversation: no longer streaming, and with the words that came; *)
(* unless React ran the renaming of the answer's message late.             *)
RepliesArrive ==
    queue = <<>> =>
        \A n \in Sends : stream[n].phase = "over" /\ ~stream[n].late =>
            \A q \in chat.messages : q.send = n /\ q.role = "user" /\ q.id = "local" =>
                \E r \in chat.messages :
                    /\ IsReply(r, n) /\ r.conv = q.conv /\ ~r.streaming
                    /\ stream[n].worded => r.text = "words"

(* The input bar is given back after every question, again and again.      *)
InputComesBack == []<>~chat.isStreaming
=============================================================================
