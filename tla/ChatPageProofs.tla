---------------------------- MODULE ChatPageProofs ----------------------------
(***************************************************************************)
(* Proofs about ChatPage, for any number of questions, conversations,      *)
(* clicks, requests and updates that wait.                                 *)
(*                                                                         *)
(* What the invariants speak of is Rendered: what the page would show if   *)
(* React rendered now.  A callback changes it by the update it queues, and *)
(* a render does not change it at all; so each step of the page has one    *)
(* effect on it, however many updates wait.                                *)
(***************************************************************************)
EXTENDS WebApp, WellFoundedInduction, TLAPS

-----------------------------------------------------------------------------
(* Rendering, a recursive function, and what a step does to it.            *)

\* Induction, for sets of numbers.
LEMMA SetInduction ==
    ASSUME NEW S, 0 \in S, \A n \in Nat : n \in S => n + 1 \in S
    PROVE  Nat \subseteq S
  <1> DEFINE T == Nat \ S
             Below == {ss \in Nat \X Nat : ss[1] < ss[2]}
  <1>1. SUFFICES ASSUME T # {} PROVE FALSE
    OBVIOUS
  <1>2. PICK x \in T : \A y \in T : <<y, x>> \notin Below
    <2>1. IsWellFoundedOn(Below, Nat)
      BY NatLessThanWellFounded DEF OpToRel
    <2>2. T \subseteq Nat
      OBVIOUS
    <2> HIDE DEF T, Below
    <2>3. QED
      BY <1>1, <2>1, <2>2, WFMin
  <1>3. x \in Nat /\ x # 0
    OBVIOUS
  <1>4. x - 1 \in Nat /\ x - 1 < x /\ (x - 1) + 1 = x
    BY <1>3
  <1>5. x - 1 \in T
    BY <1>4
  <1>6. <<x - 1, x>> \in Below
    BY <1>3, <1>4
  <1>7. QED
    BY <1>2, <1>5, <1>6

\* There is a function as Rendering is defined: one for n updates gives one for
\* n + 1.
LEMMA RenderingExists ==
    ASSUME Len(queue) \in Nat
    PROVE  \E f : f = [i \in 0..Len(queue) |->
                           IF i = 0 THEN chat ELSE Applied(f[i - 1], queue[i])]
  <1> DEFINE S == {n \in Nat :
                     \E f : f = [i \in 0..n |->
                                    IF i = 0 THEN chat ELSE Applied(f[i - 1], queue[i])]}
  <1>1. 0 \in S
    <2> DEFINE f == [i \in 0..0 |-> chat]
    <2>1. f = [i \in 0..0 |-> IF i = 0 THEN chat ELSE Applied(f[i - 1], queue[i])]
      OBVIOUS
    <2> HIDE DEF f
    <2>2. QED
     BY <2>1
  <1>2. ASSUME NEW n \in Nat, n \in S PROVE n + 1 \in S
    <2>1. PICK g : g = [i \in 0..n |->
                           IF i = 0 THEN chat ELSE Applied(g[i - 1], queue[i])]
      BY <1>2
    <2> DEFINE f == [i \in 0..(n + 1) |->
                        IF i = 0 THEN chat ELSE Applied(g[i - 1], queue[i])]
    <2>2. \A i \in 0..n : f[i] = g[i]
      BY <2>1
    <2>3. f = [i \in 0..(n + 1) |-> IF i = 0 THEN chat ELSE Applied(f[i - 1], queue[i])]
      <3>1. \A i \in 0..(n + 1) : i # 0 => i - 1 \in 0..n
        OBVIOUS
      <3>2. \A i \in 0..(n + 1) : i # 0 => f[i - 1] = g[i - 1]
        BY <3>1, <2>2
      <3>3. QED
        BY <3>2
    <2> HIDE DEF f
    <2>4. QED
      BY <2>3
  <1>3. Nat \subseteq S
    <2> HIDE DEF S
    <2>1. QED
      BY <1>1, <1>2, SetInduction
  <1>4. QED
    BY <1>3

\* Rendering applies one update after the other.
LEMMA RenderingSteps ==
    ASSUME Len(queue) \in Nat
    PROVE  /\ Rendering[0] = chat
           /\ \A i \in 1..Len(queue) : Rendering[i] = Applied(Rendering[i - 1], queue[i])
  <1>1. Rendering = [i \in 0..Len(queue) |->
                        IF i = 0 THEN chat ELSE Applied(Rendering[i - 1], queue[i])]
    BY RenderingExists DEF Rendering
  <1>2. 0 \in 0..Len(queue) /\ \A i \in 1..Len(queue) : i \in 0..Len(queue) /\ i # 0
    OBVIOUS
  <1>3. QED
    BY <1>1, <1>2

RenderingIsStepwise ==
    Len(queue) \in Nat =>
        /\ Rendering[0] = chat
        /\ \A i \in 1..Len(queue) : Rendering[i] = Applied(Rendering[i - 1], queue[i])

LEMMA RenderingAlways == RenderingIsStepwise /\ RenderingIsStepwise'
  <1>1. RenderingIsStepwise
    BY RenderingSteps DEF RenderingIsStepwise
  <1>2. QED
    BY <1>1, PTL

LEMMA RenderedEmpty ==
    /\ queue = <<>> => Rendered = chat
    /\ queue' = <<>> => Rendered' = chat'
  BY RenderingAlways DEF Rendered, RenderingIsStepwise

\* The updates that wait read nothing that the step changes.
UpdatesStand ==
    \A i \in 1..Len(queue) : \A p, u : u = queue[i] => Applied(p, u)' = Applied(p, u)

LEMMA RenderingStays ==
    ASSUME Len(queue) \in Nat, Len(queue') \in Nat, Len(queue') >= Len(queue),
           \A i \in 1..Len(queue) : queue'[i] = queue[i],
           chat' = chat, UpdatesStand
    PROVE  \A i \in 0..Len(queue) : Rendering'[i] = Rendering[i]
  <1> DEFINE S == {n \in Nat : n <= Len(queue) => Rendering'[n] = Rendering[n]}
  <1>1. 0 \in S
    BY RenderingAlways DEF RenderingIsStepwise
  <1>2. ASSUME NEW n \in Nat, n \in S PROVE n + 1 \in S
    <2>1. SUFFICES ASSUME n + 1 <= Len(queue) PROVE Rendering'[n + 1] = Rendering[n + 1]
      OBVIOUS
    <2>2. n + 1 \in 1..Len(queue) /\ n + 1 \in 1..Len(queue') /\ (n + 1) - 1 = n
      BY <2>1
    <2>3. Rendering[n + 1] = Applied(Rendering[n], queue[n + 1])
      BY <2>2, RenderingAlways DEF RenderingIsStepwise
    <2>4. Rendering'[n + 1] = Applied(Rendering[n], queue[n + 1])'
      BY <2>2, RenderingAlways DEF RenderingIsStepwise
    <2>5. Rendering'[n] = Rendering[n]
      BY <1>2, <2>1
    <2>6. PICK p, u : p = Rendering[n] /\ u = queue[n + 1]
      OBVIOUS
    <2>7. Applied(p, u)' = Applied(p, u)
      BY <2>2, <2>6 DEF UpdatesStand
    <2>8. p = Rendering'[n] /\ u = queue'[n + 1]
      BY <2>2, <2>5, <2>6
    <2>9. QED
      BY <2>3, <2>4, <2>6, <2>7, <2>8
  <1>3. Nat \subseteq S
    <2> HIDE DEF S
    <2>1. QED
      BY <1>1, <1>2, SetInduction
  <1>4. QED
    BY <1>3

\* A step that queues nothing leaves what would be shown as it is; one that
\* queues an update applies it.
LEMMA RenderedStays ==
    ASSUME Len(queue) \in Nat, UNCHANGED <<chat, queue>>, UpdatesStand
    PROVE  Rendered' = Rendered
  <1>1. \A i \in 0..Len(queue) : Rendering'[i] = Rendering[i]
    BY RenderingStays
  <1>2. QED
    BY <1>1 DEF Rendered

LEMMA RenderedNext ==
    ASSUME NEW U, queue \in Seq(U), NEW v \in U, queue' = Append(queue, v),
           chat' = chat, UpdatesStand,
           NEW p, p = Rendered
    PROVE  Rendered' = Applied(p, v)'
  <1>1. /\ Len(queue) \in Nat /\ Len(queue') = Len(queue) + 1 /\ queue'[Len(queue')] = v
        /\ \A i \in 1..Len(queue) : queue'[i] = queue[i]
    OBVIOUS
  <1>2. Rendering'[Len(queue)] = p
    BY <1>1, RenderingStays DEF Rendered
  <1>3. Rendering'[Len(queue')] = Applied(Rendering[Len(queue) - 1], queue[Len(queue)])'
    BY <1>1, RenderingAlways DEF RenderingIsStepwise
  <1>4. Len(queue') - 1 = Len(queue)
    BY <1>1
  <1>5. QED
    BY <1>1, <1>2, <1>3, <1>4 DEF Rendered

-----------------------------------------------------------------------------
(* Types, and what the updates that wait read of their streams.            *)

Shown == [conversations : SUBSET ConvIds, currentId : ConvIds \cup {NoConv},
          messages : SUBSET Messages, isStreaming : BOOLEAN]

MetaUpdates == [event : {"meta"}, of : Sends, eager : BOOLEAN]
StreamUpdates == [event : {"chunk", "done", "error"}, of : Sends]
LoadedUpdates == [event : {"loaded"}, of : SUBSET Messages]
ListedUpdates == [event : {"listed"}, of : SUBSET ConvIds]
Updates == MetaUpdates \cup StreamUpdates \cup LoadedUpdates \cup ListedUpdates

ChatTypes ==
    /\ chat \in Shown
    /\ Rendered \in Shown
    /\ queue \in Seq(Updates)
    /\ convOf \in [ConvIds -> ConvIds \cup {NoConv}]
    /\ created \in 0..MaxChats
    /\ stream \in [Sends -> Streams]
    /\ serving \in [Sends -> Servings]
    /\ listing \in [phase : {"asked", "answered", "over"}, convs : SUBSET ConvIds]
    /\ loads \subseteq [conv : ConvIds, answered : BOOLEAN, messages : SUBSET Messages]
    /\ confirm \in [conv : ConvIds \cup {NoConv}, current : ConvIds \cup {NoConv}]
    /\ stored \subseteq (0..MaxSends) \X ConvIds

\* The first event of stream n has come, or it broke before.
Heard(n) == stream[n].phase \notin {"unsent", "sent"}

StreamsFit ==
    \A n \in Sends :
        /\ stream[n].phase = "unsent" => ~stream[n].early
        /\ stream[n].phase # "unsent" => stream[n].target # NoConv
        /\ ~Heard(n) => stream[n].conv = NoConv /\ stream[n].msgId = "local" /\ ~stream[n].late

\* How far the server can be with question n while the page is where it is.
ServingFitsAt(n) ==
    /\ stream[n].phase = "unsent" => serving[n].step = "idle"
    /\ stream[n].phase = "sent" => serving[n].step = "asked"
    /\ stream[n].phase = "heard" =>
           serving[n].step \in {"answering", "failing", "saving", "ending"}
    /\ stream[n].phase = "over" => serving[n].step \in {"asked", "ending", "over"}
    /\ serving[n].step = "asked" => ~Learned(n)
    /\ Learned(n) => serving[n].conv = stream[n].conv

ServingFits == \A n \in Sends : ServingFitsAt(n)

\* An update waits only for a stream that has been heard of.
UpdateFits(u) ==
    /\ u \in MetaUpdates \cup StreamUpdates => Heard(u.of)
    /\ u \in MetaUpdates => stream[u.of].conv # NoConv

QueueFits == \A i \in 1..Len(queue) : UpdateFits(queue[i])

\* What the updates of a stream read of it.
References(n) == <<stream[n].target, stream[n].viewed, stream[n].conv, stream[n].msgId>>
ReferencesStand == \A n \in Sends : Heard(n) => References(n)' = References(n)

LEMMA UpdateKinds ==
    ASSUME NEW u \in Updates
    PROVE  \/ u \in MetaUpdates /\ u.event = "meta"
           \/ u \in StreamUpdates /\ u.event \in {"chunk", "done", "error"}
           \/ u \in LoadedUpdates /\ u.event = "loaded"
           \/ u \in ListedUpdates /\ u.event = "listed"
  BY DEF Updates, MetaUpdates, StreamUpdates, LoadedUpdates, ListedUpdates

LEMMA AppliedStands ==
    ASSUME NEW p, NEW u \in Updates,
           u \in MetaUpdates \cup StreamUpdates => References(u.of)' = References(u.of)
    PROVE  Applied(p, u)' = Applied(p, u)
  <1>1. CASE u \in MetaUpdates
    <2>1. u.event = "meta"
      BY <1>1 DEF MetaUpdates
    <2>2. PICK n, t, v, c :
              /\ n = u.of
              /\ t = stream[n].target /\ v = stream[n].viewed /\ c = stream[n].conv
      OBVIOUS
    <2>3. stream'[n].target = t /\ stream'[n].viewed = v /\ stream'[n].conv = c
      BY <1>1, <2>2 DEF References
    <2>4. OnMeta(p, n, u.eager)' = OnMeta(p, n, u.eager)
      BY <2>2, <2>3, Zenon DEF OnMeta
    <2>5. QED
      BY <2>1, <2>2, <2>4 DEF Applied
  <1>2. CASE u \in StreamUpdates
    <2>1. \A m : IsReply(m, u.of)' <=> IsReply(m, u.of)
      BY <1>2 DEF References, IsReply
    <2>2. Replies(p, u.of)' = Replies(p, u.of)
      BY <2>1 DEF Replies
    <2>3. /\ OnChunk(p, u.of)' = OnChunk(p, u.of)
          /\ OnDone(p, u.of)' = OnDone(p, u.of)
          /\ OnError(p, u.of)' = OnError(p, u.of)
      BY <2>2 DEF OnChunk, OnDone, OnError, Updated, InputFreed
    <2>4. u.event \in {"chunk", "done", "error"}
      BY <1>2 DEF StreamUpdates
    <2>5. QED
      BY <2>3, <2>4 DEF Applied
  <1>3. CASE u.event = "loaded"
    BY <1>3 DEF Applied, OnLoaded
  <1>4. CASE u.event = "listed"
    BY <1>4 DEF Applied, OnListed
  <1>5. QED
    BY <1>1, <1>2, <1>3, <1>4, UpdateKinds

LEMMA UpdatesWait ==
    ASSUME queue \in Seq(Updates), QueueFits, ReferencesStand
    PROVE  Len(queue) \in Nat /\ UpdatesStand
  <1>1. SUFFICES ASSUME NEW i \in 1..Len(queue), NEW p, NEW u, u = queue[i]
                 PROVE  Applied(p, u)' = Applied(p, u)
    BY DEF UpdatesStand
  <1>2. u \in Updates
    BY <1>1
  <1>3. ASSUME u \in MetaUpdates \cup StreamUpdates
        PROVE  References(u.of)' = References(u.of)
    <2>1. Heard(u.of)
      BY <1>1, <1>3 DEF QueueFits, UpdateFits
    <2>2. u.of \in Sends
      BY <1>3 DEF MetaUpdates, StreamUpdates
    <2>3. QED
      BY <2>1, <2>2 DEF ReferencesStand
  <1>4. QED
    BY <1>2, <1>3, AppliedStands

-----------------------------------------------------------------------------
(* What an update makes of what is shown.                                  *)

\* The meta event of stream n makes q of message m.
MetaMade(m, q, n, eager) ==
    /\ q.send = m.send /\ q.role = m.role /\ q.text = m.text /\ q.streaming = m.streaming
    /\ q.conv = IF m.conv = stream[n].target THEN stream[n].conv ELSE m.conv
    /\ q.id = IF eager /\ m.send = n /\ m.role = "assistant" THEN "server" ELSE m.id

\* Another event of stream n makes q of message m.
StreamMade(m, q, n, event) ==
    /\ q.send = m.send /\ q.role = m.role /\ q.id = m.id /\ q.conv = m.conv
    /\ ~IsReply(m, n) => q = m
    /\ IsReply(m, n) =>
          /\ m.text = "words" \/ event = "chunk" => q.text = "words"
          /\ q.streaming = (event = "chunk" /\ m.streaming)

MetaMakes ==
    \A p \in Shown, n \in Sends, eager \in BOOLEAN :
        stream[n] \in Streams /\ stream[n].conv \in ConvIds =>
            /\ OnMeta(p, n, eager) \in Shown
            /\ \A m \in p.messages :
                  \E q \in OnMeta(p, n, eager).messages : MetaMade(m, q, n, eager)
            /\ \A q \in OnMeta(p, n, eager).messages :
                  \E m \in p.messages : MetaMade(m, q, n, eager)

StreamMakes ==
    \A p \in Shown, u \in StreamUpdates :
        /\ Applied(p, u) \in Shown
        /\ \A m \in p.messages :
              \E q \in Applied(p, u).messages : StreamMade(m, q, u.of, u.event)
        /\ \A q \in Applied(p, u).messages :
              \E m \in p.messages : StreamMade(m, q, u.of, u.event)

LEMMA MetaMakesMessages == MetaMakes /\ MetaMakes'
  <1>1. SUFFICES ASSUME NEW p \in Shown, NEW n \in Sends, NEW eager \in BOOLEAN,
                        stream[n] \in Streams, stream[n].conv \in ConvIds
                 PROVE  /\ OnMeta(p, n, eager) \in Shown
                        /\ \A m \in p.messages :
                              \E q \in OnMeta(p, n, eager).messages : MetaMade(m, q, n, eager)
                        /\ \A q \in OnMeta(p, n, eager).messages :
                              \E m \in p.messages : MetaMade(m, q, n, eager)
    <2>1. MetaMakes
      BY <1>1 DEF MetaMakes
    <2>2. QED
      BY <2>1, PTL
  <1> DEFINE t == stream[n].target
             c == stream[n].conv
             Mine(m) == m.send = n /\ m.role = "assistant" /\ m.id = "local"
             named == IF eager
                      THEN {IF Mine(m) THEN [m EXCEPT !.id = "server"] ELSE m : m \in p.messages}
                      ELSE p.messages
  <1>2. p.messages \subseteq Messages
    BY DEF Shown
  <1>3. /\ \A m \in p.messages : \E r \in named :
              /\ r \in Messages /\ r.send = m.send /\ r.role = m.role /\ r.text = m.text
              /\ r.streaming = m.streaming /\ r.conv = m.conv
              /\ r.id = IF eager /\ m.send = n /\ m.role = "assistant" THEN "server" ELSE m.id
        /\ \A r \in named : \E m \in p.messages :
              /\ r \in Messages /\ r.send = m.send /\ r.role = m.role /\ r.text = m.text
              /\ r.streaming = m.streaming /\ r.conv = m.conv
              /\ r.id = IF eager /\ m.send = n /\ m.role = "assistant" THEN "server" ELSE m.id
    <2> DEFINE Server(m) == IF Mine(m) THEN [m EXCEPT !.id = "server"] ELSE m
    <2>1. ASSUME NEW m \in Messages
          PROVE  /\ Server(m) \in Messages /\ Server(m).send = m.send
                 /\ Server(m).role = m.role /\ Server(m).text = m.text
                 /\ Server(m).streaming = m.streaming /\ Server(m).conv = m.conv
                 /\ Server(m).id =
                       IF m.send = n /\ m.role = "assistant" THEN "server" ELSE m.id
      BY DEF Messages
    <2>2. CASE eager
      <3>1. /\ \A m \in p.messages : Server(m) \in named
            /\ \A r \in named : \E m \in p.messages : r = Server(m)
        BY <2>2
      <3> HIDE DEF named, Server
      <3>2. ASSUME NEW m \in p.messages
            PROVE  Server(m) \in named /\ m \in Messages
        BY <1>2, <3>1
      <3>3. QED
        BY <2>1, <2>2, <3>1, <3>2
    <2>3. CASE ~eager
      BY <1>2, <2>3
    <2>4. QED
      BY <2>2, <2>3
  <1>4. OnMeta(p, n, eager) =
            [p EXCEPT !.messages = Moved(named, t, c),
                      !.conversations = Renamed(p.conversations, t, c),
                      !.currentId = IF stream[n].viewed \in {t, NoConv} THEN c ELSE p.currentId]
    BY DEF OnMeta
  <1> HIDE DEF named, Mine
  <1>5. /\ \A r \in named : (IF r.conv = t THEN [r EXCEPT !.conv = c] ELSE r) \in Moved(named, t, c)
        /\ \A q \in Moved(named, t, c) : \E r \in named :
              q = IF r.conv = t THEN [r EXCEPT !.conv = c] ELSE r
    BY DEF Moved
  <1>6. ASSUME NEW r \in Messages
        PROVE  LET q == IF r.conv = t THEN [r EXCEPT !.conv = c] ELSE r
               IN  /\ q \in Messages /\ q.send = r.send /\ q.role = r.role
                   /\ q.text = r.text /\ q.streaming = r.streaming /\ q.id = r.id
                   /\ q.conv = IF r.conv = t THEN c ELSE r.conv
    BY <1>1 DEF Messages
  <1>7. Moved(named, t, c) \subseteq Messages
    BY <1>3, <1>5, <1>6
  <1>8. Renamed(p.conversations, t, c) \subseteq ConvIds
    BY <1>1 DEF Renamed, Shown
  <1>9. OnMeta(p, n, eager) \in Shown /\ OnMeta(p, n, eager).messages = Moved(named, t, c)
    BY <1>1, <1>4, <1>7, <1>8 DEF Shown
  <1>10. ASSUME NEW m \in p.messages
         PROVE  \E q \in Moved(named, t, c) : MetaMade(m, q, n, eager)
    <2>1. PICK r \in named :
              /\ r \in Messages /\ r.send = m.send /\ r.role = m.role /\ r.text = m.text
              /\ r.streaming = m.streaming /\ r.conv = m.conv
              /\ r.id = IF eager /\ m.send = n /\ m.role = "assistant" THEN "server" ELSE m.id
      BY <1>3
    <2>2. QED
      BY <1>5, <1>6, <2>1 DEF MetaMade
  <1>11. ASSUME NEW q \in Moved(named, t, c)
         PROVE  \E m \in p.messages : MetaMade(m, q, n, eager)
    <2>1. PICK r \in named : q = IF r.conv = t THEN [r EXCEPT !.conv = c] ELSE r
      BY <1>5
    <2>2. PICK m \in p.messages :
              /\ r \in Messages /\ r.send = m.send /\ r.role = m.role /\ r.text = m.text
              /\ r.streaming = m.streaming /\ r.conv = m.conv
              /\ r.id = IF eager /\ m.send = n /\ m.role = "assistant" THEN "server" ELSE m.id
      BY <1>3
    <2>3. QED
      BY <1>6, <2>1, <2>2 DEF MetaMade
  <1>12. QED
    BY <1>9, <1>10, <1>11

LEMMA StreamMakesMessages == StreamMakes /\ StreamMakes'
  <1>1. SUFFICES ASSUME NEW p \in Shown, NEW u \in StreamUpdates
                 PROVE  /\ Applied(p, u) \in Shown
                        /\ \A m \in p.messages :
                              \E q \in Applied(p, u).messages : StreamMade(m, q, u.of, u.event)
                        /\ \A q \in Applied(p, u).messages :
                              \E m \in p.messages : StreamMade(m, q, u.of, u.event)
    <2>1. StreamMakes
      BY <1>1 DEF StreamMakes
    <2>2. QED
      BY <2>1, PTL
  <1> DEFINE n == u.of
             Said(m) == CASE u.event = "chunk" -> [m EXCEPT !.text = "words"]
                          [] u.event = "done"  -> [m EXCEPT !.streaming = FALSE]
                          [] u.event = "error" ->
                                [m EXCEPT !.text = IF @ = "none" THEN "error" ELSE @,
                                          !.streaming = FALSE]
             said == {Said(m) : m \in Replies(p, n)}
  <1>2. p.messages \subseteq Messages /\ u.event \in {"chunk", "done", "error"} /\ n \in Sends
    BY DEF Shown, StreamUpdates
  <1>3. ASSUME NEW m \in Messages, IsReply(m, n)
        PROVE  Said(m) \in Messages /\ StreamMade(m, Said(m), n, u.event)
    <2>1. CASE u.event = "chunk"
      BY <1>3, <2>1 DEF Messages, StreamMade
    <2>2. CASE u.event = "done"
      BY <1>3, <2>2 DEF Messages, StreamMade
    <2>3. CASE u.event = "error"
      BY <1>3, <2>3 DEF Messages, StreamMade
    <2>4. QED
      BY <1>2, <2>1, <2>2, <2>3
  <1>4. Applied(p, u) \in {Updated(p, n, said), InputFreed(Updated(p, n, said))}
    <2>1. CASE u.event = "chunk"
      BY <2>1 DEF Applied, OnChunk
    <2>2. CASE u.event = "done"
      BY <2>2 DEF Applied, OnDone
    <2>3. CASE u.event = "error"
      BY <2>3 DEF Applied, OnError
    <2>4. QED
      BY <1>2, <2>1, <2>2, <2>3
  <1> HIDE DEF Said
  <1>5. /\ \A m \in Replies(p, n) : Said(m) \in said
        /\ \A q \in said : \E m \in Replies(p, n) : q = Said(m)
    OBVIOUS
  <1> HIDE DEF said
  <1>6. Replies(p, n) \subseteq p.messages /\ \A m \in p.messages : m \in Replies(p, n) <=> IsReply(m, n)
    BY DEF Replies
  <1>7. said \subseteq Messages
    BY <1>2, <1>3, <1>5, <1>6
  <1> DEFINE b == (p.messages \ Replies(p, n)) \cup said
  <1>8. Updated(p, n, said) \in Shown /\ Updated(p, n, said).messages = b
    BY <1>2, <1>7 DEF Shown, Updated
  <1>9. Applied(p, u) \in Shown /\ Applied(p, u).messages = b
    BY <1>4, <1>8 DEF Shown, InputFreed
  <1>10. ASSUME NEW m \in p.messages PROVE \E q \in b : StreamMade(m, q, n, u.event)
    <2>1. CASE IsReply(m, n)
      BY <1>2, <1>3, <1>5, <1>6, <2>1
    <2>2. CASE ~IsReply(m, n)
      BY <1>6, <2>2 DEF StreamMade
    <2>3. QED
      BY <2>1, <2>2
  <1>11. ASSUME NEW q \in b PROVE \E m \in p.messages : StreamMade(m, q, n, u.event)
    <2>1. CASE q \in said
      BY <1>2, <1>3, <1>5, <1>6, <2>1
    <2>2. CASE q \in p.messages \ Replies(p, n)
      BY <1>6, <2>2 DEF StreamMade
    <2>3. QED
      BY <2>1, <2>2
  <1>12. QED
    BY <1>9, <1>10, <1>11

\* An answer adds messages of its own; a list changes none.
LEMMA AnswersAdd ==
    ASSUME NEW p \in Shown, NEW u \in LoadedUpdates \cup ListedUpdates
    PROVE  /\ Applied(p, u) \in Shown
           /\ p.messages \subseteq Applied(p, u).messages
           /\ u \in LoadedUpdates => Applied(p, u).messages \subseteq p.messages \cup u.of
           /\ u \in ListedUpdates => Applied(p, u).messages = p.messages
  <1>1. CASE u \in LoadedUpdates
    <2>1. u.event = "loaded" /\ u.of \subseteq Messages /\ u \notin ListedUpdates
      BY <1>1 DEF LoadedUpdates, ListedUpdates
    <2> DEFINE added == {m \in u.of : ~ \E q \in p.messages :
                            q.send = m.send /\ q.role = m.role /\ q.id = m.id}
    <2>2. Applied(p, u) = [p EXCEPT !.messages = p.messages \cup added]
      BY <2>1 DEF Applied, OnLoaded
    <2>3. added \subseteq u.of
      OBVIOUS
    <2> HIDE DEF added
    <2>4. QED
      BY <1>1, <2>1, <2>2, <2>3 DEF Shown
  <1>2. CASE u \in ListedUpdates
    <2>1. u.event = "listed" /\ u.of \subseteq ConvIds /\ u \notin LoadedUpdates
      BY <1>2 DEF LoadedUpdates, ListedUpdates
    <2>2. Applied(p, u) = [p EXCEPT !.conversations = u.of]
      BY <2>1 DEF Applied, OnListed
    <2>3. QED
      BY <1>2, <2>1, <2>2 DEF Shown
  <1>3. QED
    BY <1>1, <1>2

-----------------------------------------------------------------------------
(* Steps: what stands of a stream, and what a step leaves waiting.         *)

ChatInv == ChatTypes /\ StreamsFit /\ ServingFits /\ QueueFits

HeardStays == \A n \in Sends : Heard(n) => Heard(n)'

\* Only these steps change a stream.
LEMMA StreamChanges ==
    ASSUME [ChatNext]_chatVars
    PROVE  \/ stream' = stream /\ serving' = serving
           \/ \E n \in Sends : HandleSend(n) \/ StreamStep(n)
  <1>1. CASE UNCHANGED chatVars
    BY <1>1 DEF chatVars
  <1>2. CASE Render \/ HandleNewConversation \/ CancelDelete \/ ConfirmDelete
    BY <1>2 DEF Render, HandleNewConversation, CancelDelete, ConfirmDelete
  <1>3. CASE ServeListing \/ HandleListing \/ ListingFails
    BY <1>3 DEF ServeListing, HandleListing, ListingFails
  <1>4. ASSUME NEW c \in ConvIds, HandleSelectConversation(c) \/ HandleDeleteConversation(c)
        PROVE  stream' = stream /\ serving' = serving
    BY <1>4 DEF HandleSelectConversation, HandleDeleteConversation
  <1>5. ASSUME NEW l \in loads, ServeMessages(l) \/ HandleMessages(l)
        PROVE  stream' = stream /\ serving' = serving
    BY <1>5 DEF ServeMessages, HandleMessages
  <1>6. QED
    BY <1>1, <1>2, <1>3, <1>4, <1>5 DEF ChatNext

\* The conversation the meta event names is one.
LEMMA NoConvIsNone == NoConv \notin ConvIds
  BY DEF ConvIds, OnServer, NoConv, Local

LEMMA ConvNamed ==
    ASSUME ChatTypes, NEW n \in Sends
    PROVE  StoredConvs \subseteq ConvIds /\ OnServer(n) \in ConvIds
  BY DEF ChatTypes, StoredConvs, ConvIds, OnServer, Sends

\* What the meta event does to the stream it is about, once it is heard.
MetaDoes(n, conv, eager) ==
    /\ conv = ServerConv(n)
    /\ queue' = Append(queue, [event |-> "meta", of |-> n, eager |-> eager])
    /\ stream'[n] = [stream[n] EXCEPT !.phase = "heard", !.conv = conv,
                                      !.msgId = "server", !.late = ~eager]
    /\ \A k \in Sends : k # n => stream'[k] = stream[k] /\ serving'[k] = serving[k]
    /\ stream[n].phase = "sent" /\ stream'[n] \in Streams
    /\ serving[n].step = "asked"
    /\ serving'[n] = [step |-> "answering", conv |-> conv]
    /\ serving' \in [Sends -> Servings]
    /\ convOf' = [convOf EXCEPT ![stream[n].target] = conv, ![conv] = conv]
    /\ UNCHANGED <<chat, created, listing, loads, confirm, clicks, stored>>

LEMMA ServerNames ==
    ASSUME ChatTypes, NEW n \in Sends
    PROVE  ServerConv(n) \in ConvIds
  BY ConvNamed DEF ServerConv

LEMMA MetaEffect ==
    ASSUME ChatInv, NEW n \in Sends, Meta(n)
    PROVE  \E conv \in ConvIds, eager \in BOOLEAN : MetaDoes(n, conv, eager)
  <1>1. stream \in [Sends -> Streams] /\ serving \in [Sends -> Servings]
    BY DEF ChatInv, ChatTypes
  <1>2. PICK conv \in ConvIds : conv = ServerConv(n)
    BY ServerNames DEF ChatInv
  <1>3. PICK eager \in BOOLEAN :
            /\ queue' = Append(queue, [event |-> "meta", of |-> n, eager |-> eager])
            /\ stream' = [stream EXCEPT ![n].phase = "heard", ![n].conv = conv,
                                        ![n].msgId = "server", ![n].late = ~eager]
    BY <1>2 DEF Meta
  <1>4. /\ serving[n].step = "asked" /\ stream[n].phase \in {"sent", "heard"}
        /\ convOf' = [convOf EXCEPT ![stream[n].target] = conv, ![conv] = conv]
        /\ UNCHANGED <<chat, created, listing, loads, confirm, clicks, stored>>
    BY <1>2 DEF Meta, Named, Open
  <1>5. stream[n].phase = "sent"
    BY <1>4 DEF ChatInv, ServingFits, ServingFitsAt
  <1>6. /\ stream'[n] = [stream[n] EXCEPT !.phase = "heard", !.conv = conv,
                                          !.msgId = "server", !.late = ~eager]
        /\ \A k \in Sends : k # n => stream'[k] = stream[k]
    BY <1>1, <1>3
  <1>7. serving' = [serving EXCEPT ![n] = [step |-> "answering", conv |-> conv]]
    BY <1>2 DEF Meta
  <1>8. [step |-> "answering", conv |-> conv] \in Servings
    BY DEF Servings, Steps
  <1>9. /\ serving'[n] = [step |-> "answering", conv |-> conv]
        /\ \A k \in Sends : k # n => serving'[k] = serving[k]
        /\ serving' \in [Sends -> Servings]
    BY <1>1, <1>7, <1>8
  <1>10. stream'[n] \in Streams
    BY <1>1, <1>6 DEF Streams, Phases
  <1>11. QED
    BY <1>2, <1>3, <1>4, <1>5, <1>6, <1>9, <1>10 DEF MetaDoes

\* Only the phase of a stream, or the server's step, changes.
PhaseIs(n, phase) ==
    /\ stream'[n].phase = phase
    /\ stream'[n].target = stream[n].target /\ stream'[n].viewed = stream[n].viewed
    /\ stream'[n].asked = stream[n].asked /\ stream'[n].early = stream[n].early
    /\ stream'[n].conv = stream[n].conv /\ stream'[n].msgId = stream[n].msgId
    /\ stream'[n].worded = stream[n].worded /\ stream'[n].late = stream[n].late

StepIs(n, step) == serving'[n].step = step /\ serving'[n].conv = serving[n].conv

OthersStand(n) ==
    /\ \A k \in Sends : k # n => stream'[k] = stream[k] /\ serving'[k] = serving[k]
    /\ stream' \in [Sends -> Streams] /\ serving' \in [Sends -> Servings]

LEMMA EventDoes ==
    ASSUME ChatTypes, NEW n \in Sends, NEW phase \in Phases, NEW step \in Steps,
           stream' = [stream EXCEPT ![n].phase = phase], Step(n, step)
    PROVE  PhaseIs(n, phase) /\ StepIs(n, step) /\ OthersStand(n)
  <1>1. stream \in [Sends -> Streams] /\ serving \in [Sends -> Servings]
    BY DEF ChatTypes
  <1>2. stream[n] \in Streams /\ serving[n] \in Servings
    BY <1>1
  <1>3. /\ stream'[n] = [stream[n] EXCEPT !.phase = phase]
        /\ \A k \in Sends : k # n => stream'[k] = stream[k]
    BY <1>1
  <1>4. PhaseIs(n, phase) /\ stream'[n] \in Streams
    BY <1>2, <1>3 DEF PhaseIs, Streams
  <1>5. /\ serving'[n] = [serving[n] EXCEPT !.step = step]
        /\ \A k \in Sends : k # n => serving'[k] = serving[k]
    BY <1>1 DEF Step
  <1>6. StepIs(n, step) /\ serving'[n] \in Servings
    BY <1>2, <1>5 DEF StepIs, Servings
  <1>7. stream' \in [Sends -> Streams]
    BY <1>1, <1>3, <1>4
  <1>8. serving' \in [Sends -> Servings]
    BY <1>1, <1>5, <1>6 DEF Step
  <1>9. QED
    BY <1>3, <1>4, <1>5, <1>6, <1>7, <1>8 DEF OthersStand

\* What a step that is not heard of does.
LEMMA UnheardDoes ==
    ASSUME ChatInv, NEW n \in Sends, MetaUnheard(n) \/ Commit(n)
    PROVE  /\ stream' = stream /\ stream[n].phase = "over"
           /\ OthersStand(n)
           /\ UNCHANGED <<chat, queue, convOf, created, listing, loads, confirm, clicks>>
           /\ \/ /\ serving[n].step = "asked" /\ serving'[n].step = "ending"
                 /\ stored' = stored
              \/ /\ serving[n].step \in {"asked", "ending"} /\ StepIs(n, "over")
                 /\ \/ /\ serving[n].conv \in ConvIds
                       /\ stored' = stored \cup {<<n, serving[n].conv>>}
                    \/ stored' = stored
  <1>1. stream \in [Sends -> Streams] /\ serving \in [Sends -> Servings]
    BY DEF ChatInv, ChatTypes
  <1>2. ~Open(n) /\ serving[n].step \notin {"idle", "over"}
    BY DEF MetaUnheard, Commit, Unsaved
  <1>3. stream[n].phase = "over" /\ serving[n].step \in {"asked", "ending"}
    <2>1. stream[n].phase \in Phases
      BY <1>1 DEF Streams
    <2>2. QED
      BY <1>2, <2>1 DEF Open, Phases, ChatInv, ServingFits, ServingFitsAt
  <1>4. CASE MetaUnheard(n)
    <2>1. serving' = [serving EXCEPT ![n] = [step |-> "ending", conv |-> ServerConv(n)]]
            /\ stream' = stream
      BY <1>4 DEF MetaUnheard
    <2>2. [step |-> "ending", conv |-> ServerConv(n)] \in Servings
      BY ServerNames DEF Servings, Steps, ChatInv
    <2>3. OthersStand(n) /\ serving'[n].step = "ending"
      BY <1>1, <2>1, <2>2 DEF OthersStand
    <2>4. QED
      BY <1>3, <1>4, <2>1, <2>3 DEF MetaUnheard
  <1>5. CASE Commit(n)
    <2>1. Step(n, "over") /\ stream' = stream
      BY <1>5 DEF Commit
    <2>2. serving'[n] = [serving[n] EXCEPT !.step = "over"]
            /\ \A k \in Sends : k # n => serving'[k] = serving[k]
      BY <1>1, <2>1 DEF Step
    <2>3. StepIs(n, "over") /\ serving'[n] \in Servings
      BY <1>1, <2>2 DEF StepIs, Servings, Steps
    <2>4. serving' \in [Sends -> Servings]
      BY <1>1, <2>1, <2>2, <2>3 DEF Step
    <2>5. OthersStand(n)
      BY <1>1, <2>1, <2>2, <2>4 DEF OthersStand
    <2>6. StoredConvs \cup {OnServer(n)} \subseteq ConvIds
      BY ConvNamed DEF ChatInv
    <2>7. QED
      BY <1>3, <1>5, <2>1, <2>3, <2>5, <2>6 DEF Commit
  <1>6. QED
    BY <1>4, <1>5

\* Where a step that is heard of takes the page and the server.
LEMMA HeardDoes ==
    ASSUME ChatInv, NEW n \in Sends, StreamStep(n),
           ~Meta(n), ~Chunk(n), ~MetaUnheard(n), ~Commit(n)
    PROVE  /\ OthersStand(n) /\ stream[n].phase \in {"sent", "heard"}
           /\ UNCHANGED <<chat, convOf, created, listing, loads, confirm, clicks, stored>>
           /\ \E phase \in {"heard", "over"}, step \in Steps :
                 /\ PhaseIs(n, phase) /\ StepIs(n, step)
                 /\ \/ /\ ErrorEvent(n) /\ phase = "heard"
                       /\ \/ serving[n].step \in {"asked", "answering", "saving"}
                                /\ step = "ending"
                          \/ serving[n].step = "answering" /\ step = "failing"
                    \/ /\ DoneEvent(n) /\ phase = "heard"
                       /\ serving[n].step \in {"answering", "failing"} /\ step = "saving"
                    \/ /\ EndOfStream(n) /\ phase = "over"
                       /\ serving[n].step \in {"saving", "ending"} /\ step = "ending"
                    \/ /\ StreamBreaks(n) /\ phase = "over"
                       /\ \/ serving[n].step = "asked" /\ step = "asked"
                          \/ /\ serving[n].step \in {"answering", "failing", "saving", "ending"}
                             /\ step = "ending"
  <1>1. Open(n)
    BY DEF StreamStep, ErrorEvent, DoneEvent, EndOfStream, StreamBreaks, Hear
  <1>2. UNCHANGED <<chat, convOf, created, listing, loads, confirm, clicks, stored>>
    BY DEF StreamStep, ErrorEvent, DoneEvent, EndOfStream, StreamBreaks
  <1>3. /\ {"heard", "over"} \subseteq Phases
        /\ {"asked", "ending", "failing", "saving"} \subseteq Steps
    BY DEF Phases, Steps
  <1>4. CASE ErrorEvent(n)
    <2>1. stream' = [stream EXCEPT ![n].phase = "heard"]
      BY <1>4 DEF ErrorEvent, Hear
    <2>2. PICK step \in {"ending", "failing"} :
              /\ Step(n, step)
              /\ \/ serving[n].step \in {"asked", "answering", "saving"} /\ step = "ending"
                 \/ serving[n].step = "answering" /\ step = "failing"
      BY <1>4 DEF ErrorEvent
    <2>3. PhaseIs(n, "heard") /\ StepIs(n, step) /\ OthersStand(n)
      BY <1>3, <2>1, <2>2, EventDoes DEF ChatInv
    <2>4. QED
      BY <1>1, <1>2, <1>3, <1>4, <2>2, <2>3 DEF Open
  <1>5. CASE DoneEvent(n)
    <2>1. stream' = [stream EXCEPT ![n].phase = "heard"] /\ Step(n, "saving")
            /\ serving[n].step \in {"answering", "failing"}
      BY <1>5 DEF DoneEvent, Hear
    <2>2. PhaseIs(n, "heard") /\ StepIs(n, "saving") /\ OthersStand(n)
      BY <1>3, <2>1, EventDoes DEF ChatInv
    <2>3. QED
      BY <1>1, <1>2, <1>3, <1>5, <2>1, <2>2 DEF Open
  <1>6. CASE EndOfStream(n)
    <2>1. stream' = [stream EXCEPT ![n].phase = "over"] /\ Step(n, "ending")
            /\ serving[n].step \in {"saving", "ending"}
      BY <1>6 DEF EndOfStream
    <2>2. PhaseIs(n, "over") /\ StepIs(n, "ending") /\ OthersStand(n)
      BY <1>3, <2>1, EventDoes DEF ChatInv
    <2>3. QED
      BY <1>1, <1>2, <1>3, <1>6, <2>1, <2>2 DEF Open
  <1>7. CASE StreamBreaks(n)
    <2>1. stream' = [stream EXCEPT ![n].phase = "over"]
      BY <1>7 DEF StreamBreaks
    <2>2. serving[n].step \in {"asked", "answering", "failing", "saving", "ending"}
      BY <1>1 DEF Open, ChatInv, ServingFits, ServingFitsAt
    <2>3. PICK step \in {"asked", "ending"} :
              /\ Step(n, step)
              /\ \/ serving[n].step = "asked" /\ step = "asked"
                 \/ serving[n].step # "asked" /\ step = "ending"
      BY <1>7 DEF StreamBreaks
    <2>4. PhaseIs(n, "over") /\ StepIs(n, step) /\ OthersStand(n)
      BY <1>3, <2>1, <2>3, EventDoes DEF ChatInv
    <2>5. QED
      BY <1>1, <1>2, <1>3, <1>7, <2>2, <2>3, <2>4 DEF Open
  <1>8. QED
    BY <1>4, <1>5, <1>6, <1>7 DEF StreamStep

LEMMA ChunkDoes ==
    ASSUME ChatInv, NEW n \in Sends, Chunk(n)
    PROVE  /\ serving' = serving /\ OthersStand(n)
           /\ stream[n].phase = "heard" /\ serving[n].step = "answering"
           /\ ~stream[n].worded
           /\ stream'[n] = [stream[n] EXCEPT !.worded = TRUE] /\ stream'[n].worded
           /\ UNCHANGED <<chat, convOf, created, listing, loads, confirm, clicks, stored>>
  <1>1. stream \in [Sends -> Streams] /\ serving \in [Sends -> Servings]
    BY DEF ChatInv, ChatTypes
  <1>2. /\ stream' = [stream EXCEPT ![n].worded = TRUE] /\ serving' = serving
        /\ serving[n].step = "answering" /\ ~stream[n].worded /\ Open(n)
        /\ UNCHANGED <<chat, convOf, created, listing, loads, confirm, clicks, stored>>
    BY DEF Chunk
  <1>3. stream[n].phase = "heard"
    BY <1>2 DEF Open, ChatInv, ServingFits, ServingFitsAt
  <1>4. /\ stream'[n] = [stream[n] EXCEPT !.worded = TRUE]
        /\ \A k \in Sends : k # n => stream'[k] = stream[k]
    BY <1>1, <1>2
  <1>5. stream'[n] \in Streams /\ stream'[n].worded
    BY <1>1, <1>4 DEF Streams
  <1>6. stream' \in [Sends -> Streams]
    BY <1>1, <1>2, <1>4, <1>5
  <1>7. QED
    BY <1>1, <1>2, <1>3, <1>4, <1>5, <1>6 DEF OthersStand

LEMMA StreamStepEffect ==
    ASSUME ChatInv, NEW n \in Sends, StreamStep(n)
    PROVE  /\ chat' = chat
           /\ \A k \in Sends : k # n => stream'[k] = stream[k] /\ serving'[k] = serving[k]
           /\ stream' \in [Sends -> Streams] /\ serving' \in [Sends -> Servings]
           /\ stream[n].phase # "unsent"
           /\ stream'[n] \in Streams
           /\ stream'[n].phase \notin {"unsent", "sent"}
           /\ stream'[n].target = stream[n].target /\ stream'[n].viewed = stream[n].viewed
           /\ stream'[n].asked = stream[n].asked /\ stream'[n].early = stream[n].early
           /\ \/ Meta(n) /\ stream[n].phase = "sent"
              \/ /\ stream'[n].conv = stream[n].conv /\ stream'[n].msgId = stream[n].msgId
                 /\ stream'[n].late = stream[n].late
           /\ Chunk(n) \/ stream'[n].worded = stream[n].worded
           /\ Unsaved(n) /\ ServingFitsAt(n)'
  <1>1. stream \in [Sends -> Streams] /\ ServingFitsAt(n) /\ stream[n] \in Streams
    BY DEF ChatInv, ChatTypes, ServingFits
  <1>2. CASE Meta(n)
    <2>1. PICK conv \in ConvIds, eager \in BOOLEAN : MetaDoes(n, conv, eager)
      BY <1>2, MetaEffect
    <2>2. /\ stream'[n].phase = "heard" /\ stream'[n].conv = conv
          /\ serving'[n].step = "answering" /\ serving'[n].conv = conv
      BY <1>1, <2>1 DEF MetaDoes, Streams
    <2>3. ServingFitsAt(n)' /\ Unsaved(n)
      BY <2>1, <2>2 DEF ServingFitsAt, Learned, Unsaved, MetaDoes
    <2>4. stream' \in [Sends -> Streams]
      BY <1>1, <1>2, <2>1 DEF Meta, MetaDoes
    <2>5. QED
      BY <1>1, <1>2, <2>1, <2>2, <2>3, <2>4 DEF MetaDoes, Streams
  <1>3. CASE Chunk(n)
    <2>1. /\ serving' = serving /\ OthersStand(n) /\ chat' = chat
          /\ stream[n].phase = "heard" /\ serving[n].step = "answering"
          /\ stream'[n] = [stream[n] EXCEPT !.worded = TRUE]
      BY <1>3, ChunkDoes
    <2>2. /\ stream'[n].phase = "heard" /\ stream'[n].conv = stream[n].conv
          /\ stream'[n] \in Streams
      BY <1>1, <2>1 DEF Streams
    <2>3. ServingFitsAt(n)' /\ Unsaved(n)
      BY <1>1, <2>1, <2>2 DEF ServingFitsAt, Learned, Unsaved
    <2>4. QED
      BY <1>1, <1>3, <2>1, <2>2, <2>3 DEF OthersStand, Streams
  <1>4. CASE MetaUnheard(n) \/ Commit(n)
    <2>1. /\ stream' = stream /\ stream[n].phase = "over" /\ OthersStand(n) /\ chat' = chat
          /\ serving[n].step \in {"asked", "ending"}
          /\ serving'[n].step \in {"ending", "over"}
          /\ serving[n].step = "asked" \/ serving'[n].conv = serving[n].conv
      BY <1>4, UnheardDoes DEF StepIs
    <2>2. ServingFitsAt(n)' /\ Unsaved(n)
      BY <1>1, <2>1 DEF ServingFitsAt, Learned, Unsaved
    <2>3. QED
      BY <1>1, <2>1, <2>2 DEF OthersStand
  <1>5. CASE ~Meta(n) /\ ~Chunk(n) /\ ~MetaUnheard(n) /\ ~Commit(n)
    <2>1. PICK phase \in {"heard", "over"}, step \in Steps :
              /\ PhaseIs(n, phase) /\ StepIs(n, step)
              /\ \/ /\ phase = "heard"
                    /\ serving[n].step \in {"asked", "answering", "failing", "saving"}
                    /\ step \in {"ending", "failing", "saving"}
                 \/ /\ phase = "over"
                    /\ serving[n].step \in {"answering", "failing", "saving", "ending"}
                    /\ step = "ending"
                 \/ phase = "over" /\ serving[n].step = "asked" /\ step = "asked"
      BY <1>5, HeardDoes
    <2>2. OthersStand(n) /\ stream[n].phase \in {"sent", "heard"} /\ chat' = chat
      BY <1>5, HeardDoes
    <2>3. ServingFitsAt(n)' /\ Unsaved(n)
      BY <1>1, <2>1 DEF PhaseIs, StepIs, ServingFitsAt, Learned, Unsaved
    <2>4. QED
      BY <1>1, <2>1, <2>2, <2>3 DEF PhaseIs, OthersStand
  <1>6. QED
    BY <1>2, <1>3, <1>4, <1>5

\* What a question does: it has a conversation to write to, and nothing else of
\* it is known.
LEMMA SendEffect ==
    ASSUME ChatTypes, NEW n \in Sends, HandleSend(n)
    PROVE  \E target \in ConvIds :
              /\ stream[n].phase = "unsent" /\ stream'[n].phase = "sent"
              /\ stream'[n].target = target /\ stream'[n].asked = convOf[target]
              /\ stream'[n].conv = NoConv /\ stream'[n].msgId = "local"
              /\ ~stream'[n].worded /\ ~stream'[n].late
              /\ stream'[n].early = \E m \in Sends : Unsaved(m)
              /\ stream'[n] \in Streams /\ stream' \in [Sends -> Streams]
              /\ \A k \in Sends : k # n => stream'[k] = stream[k] /\ serving'[k] = serving[k]
              /\ serving'[n].step = "asked" /\ serving' \in [Sends -> Servings]
              /\ Rendered' \in Shown
              /\ Rendered'.messages = Rendered.messages \cup
                    {Message(n, "user", "local", target, "words", FALSE),
                     Message(n, "assistant", "local", target, "none", TRUE)}
              /\ chat' = Rendered' /\ queue' = <<>> /\ created' \in 0..MaxChats
              /\ UNCHANGED <<convOf, listing, loads, confirm, clicks, stored>>
  <1> DEFINE new == chat.currentId = NoConv
             target == IF new THEN Local(created + 1) ELSE chat.currentId
             asked == convOf[target]
             early == \E m \in Sends : Unsaved(m)
             s == [phase |-> "sent", target |-> target, viewed |-> chat.currentId,
                   asked |-> asked, conv |-> NoConv, msgId |-> "local",
                   worded |-> FALSE, late |-> FALSE, early |-> early]
             asks == {Message(n, "user", "local", target, "words", FALSE),
                      Message(n, "assistant", "local", target, "none", TRUE)}
             p == [Rendered EXCEPT
                     !.conversations = IF new THEN @ \cup {target} ELSE @,
                     !.currentId = IF new THEN target ELSE @,
                     !.messages = @ \cup asks,
                     !.isStreaming = TRUE]
  <1>1. /\ new => created < MaxChats
        /\ created' = IF new THEN created + 1 ELSE created
        /\ stream' = [stream EXCEPT ![n] = s]
        /\ serving' = [serving EXCEPT ![n].step = "asked"]
        /\ Show(p)
        /\ UNCHANGED <<convOf, listing, loads, confirm, clicks, stored>>
        /\ stream[n].phase = "unsent"
    BY DEF HandleSend, Sends
  <1>2. chat' = p /\ queue' = <<>>
    BY <1>1 DEF Show
  <1>3. created' \in 0..MaxChats /\ target \in ConvIds
    <2>1. created \in 0..MaxChats /\ MaxChats \in Nat /\ chat.currentId \in ConvIds \cup {NoConv}
      BY ChatPageAssumption DEF ChatTypes, Shown
    <2>2. CASE new
      BY <1>1, <2>1, <2>2 DEF ConvIds
    <2>3. CASE ~new
      BY <1>1, <2>1, <2>3
    <2>4. QED
      BY <2>2, <2>3
  <1>4. asked \in ConvIds \cup {NoConv} /\ chat.currentId \in ConvIds \cup {NoConv}
          /\ early \in BOOLEAN
    BY <1>3 DEF ChatTypes, Shown
  <1> HIDE DEF early, asked
  <1>5. s \in Streams
    BY <1>3, <1>4 DEF Streams, Phases
  <1>6. /\ stream'[n] = s /\ \A k \in Sends : k # n => stream'[k] = stream[k]
        /\ stream' \in [Sends -> Streams]
    BY <1>1, <1>5 DEF ChatTypes
  <1> HIDE DEF target, new
  <1>7. asks \subseteq Messages
    BY <1>3 DEF Message, Messages, Sends
  <1> HIDE DEF asks
  <1>8. p \in Shown /\ p.messages = Rendered.messages \cup asks
    BY <1>3, <1>7 DEF ChatTypes, Shown
  <1>9. Rendered' = p
    BY <1>2, RenderedEmpty
  <1>10. /\ stream'[n].phase = "sent" /\ stream'[n].target = target
         /\ stream'[n].asked = asked /\ stream'[n].early = early
         /\ stream'[n].conv = NoConv /\ stream'[n].msgId = "local"
         /\ ~stream'[n].worded /\ ~stream'[n].late
    BY <1>6
  <1>11. Rendered'.messages = Rendered.messages \cup asks /\ Rendered' \in Shown
           /\ chat' = Rendered'
    BY <1>2, <1>8, <1>9
  <1>12. stream'[n].early = \E m \in Sends : Unsaved(m)
    BY <1>10 DEF early
  <1> HIDE DEF s, p
  <1>13. /\ \A k \in Sends : k # n => serving'[k] = serving[k]
         /\ serving'[n].step = "asked" /\ serving' \in [Sends -> Servings]
    <2>1. serving \in [Sends -> Servings] /\ serving[n] \in Servings
      BY DEF ChatTypes
    <2>2. serving'[n] = [serving[n] EXCEPT !.step = "asked"]
            /\ \A k \in Sends : k # n => serving'[k] = serving[k]
      BY <1>1, <2>1
    <2>3. serving'[n].step = "asked" /\ serving'[n] \in Servings
      BY <2>1, <2>2 DEF Servings, Steps
    <2>4. QED
      BY <1>1, <2>1, <2>2, <2>3
  <1>14. QED
    BY <1>1, <1>2, <1>3, <1>5, <1>6, <1>10, <1>11, <1>12, <1>13 DEF asked, asks

\* Once a stream has been heard of, what its updates read stands.
LEMMA HeardStands ==
    ASSUME ChatInv, [ChatNext]_chatVars
    PROVE  /\ ReferencesStand
           /\ \A n \in Sends : Heard(n) => stream'[n].phase \notin {"unsent", "sent"}
           /\ stream' \in [Sends -> Streams] /\ serving' \in [Sends -> Servings]
           /\ StreamsFit' /\ ServingFits'
  <1>0. /\ stream \in [Sends -> Streams] /\ serving \in [Sends -> Servings]
        /\ NoConv \notin ConvIds /\ StreamsFit /\ ServingFits
    BY NoConvIsNone DEF ChatInv, ChatTypes
  <1>1. CASE stream' = stream /\ serving' = serving
    BY <1>0, <1>1
       DEF ReferencesStand, References, Heard, StreamsFit, ServingFits, ServingFitsAt, Learned
  <1>2. ASSUME NEW n \in Sends, HandleSend(n)
        PROVE  /\ ReferencesStand
               /\ \A k \in Sends : Heard(k) => stream'[k].phase \notin {"unsent", "sent"}
               /\ stream' \in [Sends -> Streams] /\ serving' \in [Sends -> Servings]
               /\ StreamsFit' /\ ServingFits'
    <2>1. PICK target \in ConvIds :
              /\ stream[n].phase = "unsent" /\ stream'[n].phase = "sent"
              /\ stream'[n].target = target
              /\ stream'[n].conv = NoConv /\ stream'[n].msgId = "local" /\ ~stream'[n].late
              /\ stream'[n] \in Streams /\ stream' \in [Sends -> Streams]
              /\ \A k \in Sends : k # n => stream'[k] = stream[k] /\ serving'[k] = serving[k]
              /\ serving'[n].step = "asked" /\ serving' \in [Sends -> Servings]
      BY <1>2, SendEffect DEF ChatInv
    <2>2. ServingFits'
      <3>1. SUFFICES ASSUME NEW k \in Sends PROVE ServingFitsAt(k)'
        BY DEF ServingFits
      <3>2. CASE k = n
        BY <2>1, <3>2 DEF ServingFitsAt, Learned
      <3>3. CASE k # n
        BY <1>0, <2>1, <3>3 DEF ServingFits, ServingFitsAt, Learned
      <3>4. QED
        BY <3>2, <3>3
    <2>3. QED
      BY <1>0, <2>1, <2>2 DEF ReferencesStand, References, Heard, StreamsFit
  <1>3. ASSUME NEW n \in Sends, StreamStep(n)
        PROVE  /\ ReferencesStand
               /\ \A k \in Sends : Heard(k) => stream'[k].phase \notin {"unsent", "sent"}
               /\ stream' \in [Sends -> Streams] /\ serving' \in [Sends -> Servings]
               /\ StreamsFit' /\ ServingFits'
    <2>1. /\ \A k \in Sends : k # n => stream'[k] = stream[k] /\ serving'[k] = serving[k]
          /\ stream' \in [Sends -> Streams] /\ serving' \in [Sends -> Servings]
          /\ stream[n].phase # "unsent"
          /\ stream'[n] \in Streams
          /\ stream'[n].phase \notin {"unsent", "sent"}
          /\ stream'[n].target = stream[n].target /\ stream'[n].viewed = stream[n].viewed
          /\ \/ stream[n].phase = "sent"
             \/ stream'[n].conv = stream[n].conv /\ stream'[n].msgId = stream[n].msgId
          /\ ServingFitsAt(n)'
      BY <1>3, StreamStepEffect
    <2>2. ServingFits'
      <3>1. SUFFICES ASSUME NEW k \in Sends, k # n PROVE ServingFitsAt(k)'
        BY <2>1 DEF ServingFits
      <3>2. QED
        BY <1>0, <2>1, <3>1 DEF ServingFits, ServingFitsAt, Learned
    <2>3. QED
      BY <1>0, <2>1, <2>2 DEF ReferencesStand, References, Heard, StreamsFit
  <1>4. QED
    BY <1>1, <1>2, <1>3, StreamChanges

-----------------------------------------------------------------------------
(* What each step makes of Rendered.                                       *)

\* What waits after a step.
LEMMA QueueStands ==
    ASSUME ChatInv, [ChatNext]_chatVars,
           \/ queue' = <<>> \/ queue' = queue
           \/ \E v \in Updates : UpdateFits(v)' /\ queue' = Append(queue, v)
    PROVE  queue' \in Seq(Updates) /\ QueueFits'
  <1>1. queue \in Seq(Updates) /\ ReferencesStand
          /\ \A n \in Sends : Heard(n) => stream'[n].phase \notin {"unsent", "sent"}
    BY HeardStands DEF ChatInv, ChatTypes
  <1>2. ASSUME NEW u \in Updates, UpdateFits(u) PROVE UpdateFits(u)'
    <2>1. u \in MetaUpdates \cup StreamUpdates => u.of \in Sends
      BY DEF MetaUpdates, StreamUpdates
    <2>2. u \in MetaUpdates => stream'[u.of].conv = stream[u.of].conv
      BY <1>1, <1>2, <2>1 DEF UpdateFits, ReferencesStand, References
    <2>3. QED
      BY <1>1, <1>2, <2>1, <2>2 DEF UpdateFits, Heard
  <1>3. CASE queue' = <<>>
    BY <1>3 DEF QueueFits
  <1>4. CASE queue' = queue
    <2>1. SUFFICES ASSUME NEW i \in 1..Len(queue), NEW u, u = queue[i]
                   PROVE  UpdateFits(u)'
      BY <1>1, <1>4 DEF QueueFits
    <2>2. u \in Updates /\ UpdateFits(u)
      BY <1>1, <2>1 DEF ChatInv, QueueFits
    <2>3. QED
      BY <1>2, <2>2
  <1>5. ASSUME NEW v \in Updates, UpdateFits(v)', queue' = Append(queue, v)
        PROVE  queue' \in Seq(Updates) /\ QueueFits'
    <2>1. queue' \in Seq(Updates)
      BY <1>1, <1>5
    <2>2. SUFFICES ASSUME NEW i \in 1..Len(queue'), NEW u, u = queue'[i]
                   PROVE  UpdateFits(u)'
      BY <2>1 DEF QueueFits
    <2>3. CASE i = Len(queue')
      BY <1>1, <1>5, <2>2, <2>3
    <2>4. CASE i # Len(queue')
      <3>1. i \in 1..Len(queue) /\ u = queue[i]
        BY <1>1, <1>5, <2>2, <2>4
      <3>2. u \in Updates /\ UpdateFits(u)
        BY <1>1, <3>1 DEF ChatInv, QueueFits
      <3>3. QED
        BY <1>2, <3>2
    <2>5. QED
      BY <2>3, <2>4
  <1>6. QED
    BY <1>3, <1>4, <1>5

\* An update that is queued is applied.
LEMMA QueuedIsApplied ==
    ASSUME ChatInv, [ChatNext]_chatVars, chat' = chat,
           NEW v \in Updates, queue' = Append(queue, v)
    PROVE  \E p \in Shown : p = Rendered /\ Rendered' = Applied(p, v)'
  <1>1. queue \in Seq(Updates) /\ QueueFits /\ ReferencesStand /\ Rendered \in Shown
    BY HeardStands DEF ChatInv, ChatTypes
  <1>2. UpdatesStand
    BY <1>1, UpdatesWait
  <1>3. PICK p : p = Rendered
    OBVIOUS
  <1>4. Rendered' = Applied(p, v)'
    BY <1>1, <1>2, <1>3, RenderedNext
  <1>5. QED
    BY <1>1, <1>3, <1>4

LEMMA NothingIsApplied ==
    ASSUME ChatInv, [ChatNext]_chatVars, UNCHANGED <<chat, queue>>
    PROVE  Rendered' = Rendered
  <1>1. queue \in Seq(Updates) /\ QueueFits /\ ReferencesStand
    BY HeardStands DEF ChatInv, ChatTypes
  <1>2. QED
    BY <1>1, UpdatesWait, RenderedStays

\* The messages that would be shown after a step of stream n, compared with those
\* before: renamed by its meta event, or changed by another.
Renames(n, eager) ==
    /\ \A m \in Rendered.messages : \E q \in Rendered'.messages : MetaMade(m, q, n, eager)'
    /\ \A q \in Rendered'.messages : \E m \in Rendered.messages : MetaMade(m, q, n, eager)'

Changes(n, event) ==
    /\ \A m \in Rendered.messages : \E q \in Rendered'.messages : StreamMade(m, q, n, event)'
    /\ \A q \in Rendered'.messages : \E m \in Rendered.messages : StreamMade(m, q, n, event)'

LEMMA MetaRenders ==
    ASSUME ChatInv, NEW n \in Sends, Meta(n), [ChatNext]_chatVars
    PROVE  /\ Rendered' \in Shown /\ queue' \in Seq(Updates) /\ QueueFits'
           /\ \E eager \in BOOLEAN : stream'[n].late = ~eager /\ Renames(n, eager)
  <1>1. PICK conv \in ConvIds, eager \in BOOLEAN : MetaDoes(n, conv, eager)
    BY MetaEffect DEF ChatInv
  <1>2. /\ stream'[n].conv = conv /\ stream'[n].late = ~eager
        /\ stream'[n].phase = "heard" /\ stream'[n] \in Streams /\ chat' = chat
        /\ queue' = Append(queue, [event |-> "meta", of |-> n, eager |-> eager])
    BY <1>1 DEF MetaDoes, ChatInv, ChatTypes, Streams
  <1>3. PICK v : v = [event |-> "meta", of |-> n, eager |-> eager]
    OBVIOUS
  <1>4. /\ v \in Updates /\ v \in MetaUpdates /\ v.event = "meta" /\ v.of = n
        /\ v.eager = eager
    BY <1>3 DEF Updates, MetaUpdates
  <1>5. UpdateFits(v)'
    BY <1>2, <1>4, NoConvIsNone DEF UpdateFits, Heard
  <1>6. PICK p \in Shown : p = Rendered /\ Rendered' = Applied(p, v)'
    BY <1>2, <1>3, <1>4, QueuedIsApplied
  <1>7. Rendered' = OnMeta(p, n, eager)'
    BY <1>4, <1>6 DEF Applied
  <1>8. /\ OnMeta(p, n, eager)' \in Shown
        /\ \A m \in p.messages : \E q \in OnMeta(p, n, eager)'.messages :
              MetaMade(m, q, n, eager)'
        /\ \A q \in OnMeta(p, n, eager)'.messages : \E m \in p.messages :
              MetaMade(m, q, n, eager)'
    <2>1. MetaMakes'
      BY MetaMakesMessages
    <2>2. QED
      BY <1>2, <2>1 DEF MetaMakes
  <1>9. Renames(n, eager) /\ Rendered' \in Shown
    BY <1>6, <1>7, <1>8 DEF Renames
  <1>10. queue' \in Seq(Updates) /\ QueueFits'
    BY <1>2, <1>3, <1>4, <1>5, QueueStands
  <1>11. QED
    BY <1>2, <1>9, <1>10

LEMMA EventRenders ==
    ASSUME ChatInv, [ChatNext]_chatVars, NEW n \in Sends,
           NEW event \in {"chunk", "done", "error"},
           chat' = chat, Enqueue(event, n), stream'[n].phase \notin {"unsent", "sent"}
    PROVE  /\ Rendered' \in Shown /\ queue' \in Seq(Updates) /\ QueueFits'
           /\ Changes(n, event)
  <1>1. PICK v : v = [event |-> event, of |-> n]
    OBVIOUS
  <1>2. /\ v \in Updates /\ v \in StreamUpdates /\ v.event = event /\ v.of = n
        /\ v \notin MetaUpdates
    BY <1>1 DEF Updates, StreamUpdates, MetaUpdates
  <1>3. queue' = Append(queue, v)
    BY <1>1 DEF Enqueue
  <1>4. UpdateFits(v)'
    BY <1>2 DEF UpdateFits, Heard
  <1>5. PICK p \in Shown : p = Rendered /\ Rendered' = Applied(p, v)'
    BY <1>2, <1>3, QueuedIsApplied
  <1>6. /\ Applied(p, v)' \in Shown
        /\ \A m \in p.messages : \E q \in Applied(p, v)'.messages :
              StreamMade(m, q, v.of, v.event)'
        /\ \A q \in Applied(p, v)'.messages : \E m \in p.messages :
              StreamMade(m, q, v.of, v.event)'
    BY <1>2, StreamMakesMessages DEF StreamMakes
  <1>7. Changes(n, event) /\ Rendered' \in Shown
    BY <1>2, <1>5, <1>6 DEF Changes
  <1>8. queue' \in Seq(Updates) /\ QueueFits'
    BY <1>2, <1>3, <1>4, QueueStands
  <1>9. QED
    BY <1>7, <1>8

LEMMA StreamRenders ==
    ASSUME ChatInv, NEW n \in Sends, StreamStep(n), [ChatNext]_chatVars
    PROVE  /\ Rendered' \in Shown /\ queue' \in Seq(Updates) /\ QueueFits'
           /\ \/ /\ MetaUnheard(n) \/ Commit(n)
                 /\ Rendered' = Rendered /\ stream' = stream
              \/ /\ Meta(n)
                 /\ \E eager \in BOOLEAN : stream'[n].late = ~eager /\ Renames(n, eager)
              \/ Chunk(n) /\ Changes(n, "chunk")
              \/ (DoneEvent(n) \/ EndOfStream(n)) /\ Changes(n, "done")
              \/ (ErrorEvent(n) \/ StreamBreaks(n)) /\ Changes(n, "error")
  <1>1. chat' = chat /\ stream'[n].phase \notin {"unsent", "sent"}
    BY StreamStepEffect
  <1>2. CASE Meta(n)
    BY <1>2, MetaRenders
  <1>3. CASE MetaUnheard(n) \/ Commit(n)
    <2>1. queue' = queue /\ stream' = stream
      BY <1>3, UnheardDoes
    <2>2. Rendered' = Rendered
      BY <1>1, <2>1, NothingIsApplied
    <2>3. QED
      BY <1>3, <2>1, <2>2, QueueStands DEF ChatInv, ChatTypes
  <1>4. CASE Chunk(n)
    <2>1. Enqueue("chunk", n)
      BY <1>4 DEF Chunk
    <2>2. QED
      BY <1>1, <1>4, <2>1, EventRenders
  <1>5. CASE DoneEvent(n) \/ EndOfStream(n)
    <2>1. Enqueue("done", n)
      BY <1>5 DEF DoneEvent, EndOfStream, Hear
    <2>2. QED
      BY <1>1, <1>5, <2>1, EventRenders
  <1>6. CASE ErrorEvent(n) \/ StreamBreaks(n)
    <2>1. Enqueue("error", n)
      BY <1>6 DEF ErrorEvent, StreamBreaks, Hear
    <2>2. QED
      BY <1>1, <1>6, <2>1, EventRenders
  <1>7. QED
    BY <1>2, <1>3, <1>4, <1>5, <1>6 DEF StreamStep

\* The answer to a request for messages may add messages of its own.
LEMMA AnswerRenders ==
    ASSUME ChatInv, [ChatNext]_chatVars, NEW l \in loads, HandleMessages(l)
    PROVE  /\ Rendered' \in Shown /\ queue' \in Seq(Updates) /\ QueueFits'
           /\ Rendered.messages \subseteq Rendered'.messages
           /\ Rendered'.messages \subseteq Rendered.messages \cup l.messages
           /\ \/ queue' = queue
              \/ queue' = Append(queue, [event |-> "loaded", of |-> l.messages])
  <1>1. chat' = chat /\ l.messages \subseteq Messages /\ Rendered \in Shown
          /\ queue \in Seq(Updates)
    BY DEF HandleMessages, ChatInv, ChatTypes
  <1>2. CASE l.messages = {}
    <2>1. queue' = queue
      BY <1>2 DEF HandleMessages
    <2>2. Rendered' = Rendered
      BY <1>1, <2>1, NothingIsApplied
    <2>3. QED
      BY <1>1, <2>1, <2>2, QueueStands
  <1>3. CASE l.messages # {}
    <2>1. PICK v : v = [event |-> "loaded", of |-> l.messages]
      OBVIOUS
    <2>2. v \in Updates /\ v \in LoadedUpdates /\ v \notin MetaUpdates \cup StreamUpdates
            /\ v.of = l.messages
      BY <1>1, <2>1 DEF Updates, LoadedUpdates, MetaUpdates, StreamUpdates
    <2>3. queue' = Append(queue, v)
      BY <1>3, <2>1 DEF HandleMessages, Enqueue
    <2>4. UpdateFits(v)'
      BY <2>2 DEF UpdateFits
    <2>5. PICK p \in Shown : p = Rendered /\ Rendered' = Applied(p, v)'
      BY <1>1, <2>2, <2>3, QueuedIsApplied
    <2>6. Applied(p, v)' = Applied(p, v)
      BY <2>2, AppliedStands
    <2>7. /\ Rendered' \in Shown /\ Rendered.messages \subseteq Rendered'.messages
          /\ Rendered'.messages \subseteq Rendered.messages \cup l.messages
      BY <2>2, <2>5, <2>6, AnswersAdd
    <2>8. QED
      BY <2>1, <2>2, <2>3, <2>4, <2>7, QueueStands
  <1>4. QED
    BY <1>2, <1>3

\* Nothing else adds a message or changes one.
LEMMA OthersRender ==
    ASSUME ChatInv, [ChatNext]_chatVars,
           \A n \in Sends : ~HandleSend(n) /\ ~StreamStep(n),
           \A l \in loads : ~HandleMessages(l)
    PROVE  /\ Rendered' \in Shown /\ chat' \in Shown
           /\ queue' \in Seq(Updates) /\ QueueFits'
           /\ \/ Rendered'.messages = Rendered.messages
              \/ \E c \in ConvIds \cup {NoConv} :
                    Rendered'.messages = {m \in Rendered.messages : m.conv # c}
           /\ created' \in 0..MaxChats
           /\ \/ queue' = queue \/ queue' = <<>>
              \/ queue' = Append(queue, [event |-> "listed", of |-> listing.convs])
  <1>1. /\ Rendered \in Shown /\ chat \in Shown /\ queue \in Seq(Updates)
        /\ created \in 0..MaxChats /\ MaxChats \in Nat
    BY ChatPageAssumption DEF ChatInv, ChatTypes
  <1> DEFINE Effect == /\ Rendered' \in Shown /\ chat' \in Shown
                       /\ \/ Rendered'.messages = Rendered.messages
                          \/ \E c \in ConvIds \cup {NoConv} :
                                Rendered'.messages = {m \in Rendered.messages : m.conv # c}
                       /\ created' \in 0..MaxChats
                       /\ \/ queue' = queue \/ queue' = <<>>
                          \/ queue' = Append(queue, [event |-> "listed", of |-> listing.convs])
  <1>2. ASSUME NEW p \in Shown, chat' = p, queue' = <<>>, created' \in 0..MaxChats,
               \/ p.messages = Rendered.messages
               \/ \E c \in ConvIds \cup {NoConv} :
                     p.messages = {m \in Rendered.messages : m.conv # c}
        PROVE  Effect
    BY <1>2, RenderedEmpty
  <1>3. ASSUME UNCHANGED <<chat, queue, created>> PROVE Effect
    BY <1>1, <1>3, NothingIsApplied
  <1> HIDE DEF Effect
  <1>4. ASSUME Render PROVE Effect
    BY <1>1, <1>2, <1>4 DEF Render
  <1>5. ASSUME HandleNewConversation PROVE Effect
    <2> DEFINE p == [Rendered EXCEPT !.conversations = @ \cup {Local(created + 1)},
                                     !.currentId = Local(created + 1)]
    <2>1. chat' = p /\ queue' = <<>> /\ created' = created + 1 /\ created < MaxChats
      BY <1>5 DEF HandleNewConversation, Show
    <2>2. Local(created + 1) \in ConvIds /\ created' \in 0..MaxChats
      BY <1>1, <2>1 DEF ConvIds
    <2>3. p \in Shown /\ p.messages = Rendered.messages
      BY <1>1, <2>2 DEF Shown
    <2> HIDE DEF p
    <2>4. QED
      BY <1>2, <2>1, <2>2, <2>3
  <1>6. ASSUME NEW c \in ConvIds, HandleSelectConversation(c) PROVE Effect
    <2> DEFINE p == [Rendered EXCEPT !.currentId = c]
    <2>1. chat' = p /\ queue' = <<>> /\ created' = created
      BY <1>6 DEF HandleSelectConversation, Show
    <2>2. p \in Shown /\ p.messages = Rendered.messages
      BY <1>1 DEF Shown
    <2> HIDE DEF p
    <2>3. QED
      BY <1>1, <1>2, <2>1, <2>2
  <1>7. ASSUME NEW c \in ConvIds, HandleDeleteConversation(c) PROVE Effect
    BY <1>1, <1>2, <1>7 DEF HandleDeleteConversation, Show
  <1>8. ASSUME ConfirmDelete PROVE Effect
    <2> DEFINE kept == {m \in Rendered.messages : m.conv # confirm.conv}
               p == [Rendered EXCEPT
                        !.conversations = @ \ {confirm.conv},
                        !.messages = {m \in @ : m.conv # confirm.conv},
                        !.currentId = IF confirm.current = confirm.conv THEN NoConv ELSE @]
    <2>1. chat' = p /\ queue' = <<>> /\ created' = created
      BY <1>8 DEF ConfirmDelete, Show
    <2>2. kept \subseteq Rendered.messages /\ confirm.conv \in ConvIds \cup {NoConv}
      BY DEF ChatInv, ChatTypes
    <2>3. p = [Rendered EXCEPT
                  !.conversations = @ \ {confirm.conv}, !.messages = kept,
                  !.currentId = IF confirm.current = confirm.conv THEN NoConv ELSE @]
      OBVIOUS
    <2>4. kept = {m \in Rendered.messages : m.conv # confirm.conv}
      OBVIOUS
    <2> HIDE DEF p, kept
    <2>5. p \in Shown /\ p.messages = kept
      BY <1>1, <2>2, <2>3 DEF Shown
    <2>6. QED
      BY <1>1, <1>2, <2>1, <2>2, <2>4, <2>5
  <1>9. ASSUME CancelDelete \/ ServeListing \/ ListingFails \/ UNCHANGED chatVars
        PROVE  Effect
    BY <1>3, <1>9 DEF CancelDelete, ServeListing, ListingFails, chatVars
  <1>10. ASSUME NEW l \in loads, ServeMessages(l) PROVE Effect
    BY <1>3, <1>10 DEF ServeMessages
  <1>11. HandleListing => Effect /\ queue' \in Seq(Updates) /\ QueueFits'
    <2>1. SUFFICES ASSUME HandleListing PROVE Effect /\ queue' \in Seq(Updates) /\ QueueFits'
      OBVIOUS
    <2>2. UNCHANGED <<chat, created>> /\ listing.convs \subseteq ConvIds
      BY <2>1 DEF HandleListing, ChatInv, ChatTypes
    <2>3. CASE listing.convs = {}
      <3>1. queue' = queue
        BY <2>1, <2>3 DEF HandleListing
      <3>2. QED
        BY <1>1, <1>3, <2>2, <3>1, QueueStands
    <2>4. CASE listing.convs # {}
      <3>1. PICK v : v = [event |-> "listed", of |-> listing.convs]
        OBVIOUS
      <3>2. v \in Updates /\ v \in ListedUpdates /\ v \notin MetaUpdates \cup StreamUpdates
        BY <2>2, <3>1 DEF Updates, ListedUpdates, MetaUpdates, StreamUpdates
      <3>3. queue' = Append(queue, v)
        BY <2>1, <2>4, <3>1 DEF HandleListing, Enqueue
      <3>4. UpdateFits(v)'
        BY <3>2 DEF UpdateFits
      <3>5. PICK p \in Shown : p = Rendered /\ Rendered' = Applied(p, v)'
        BY <2>2, <3>2, <3>3, QueuedIsApplied
      <3>6. Applied(p, v)' = Applied(p, v)
        BY <3>2, AppliedStands
      <3>7. Rendered' \in Shown /\ Rendered'.messages = Rendered.messages
        BY <3>2, <3>5, <3>6, AnswersAdd
      <3>8. QED
        BY <1>1, <2>2, <3>1, <3>2, <3>3, <3>4, <3>7, QueueStands DEF Effect
    <2>5. QED
      BY <2>3, <2>4
  <1>12. Effect
    BY <1>4, <1>5, <1>6, <1>7, <1>8, <1>9, <1>10, <1>11 DEF ChatNext
  <1>13. queue' = queue \/ queue' = <<>> \/ HandleListing
    BY DEF ChatNext, Render, HandleNewConversation, HandleSelectConversation,
           HandleDeleteConversation, CancelDelete, ConfirmDelete, ServeListing, ListingFails,
           ServeMessages, Show, chatVars
  <1>14. queue' \in Seq(Updates) /\ QueueFits'
    BY <1>11, <1>13, QueueStands
  <1>15. QED
    BY <1>12, <1>14 DEF Effect

-----------------------------------------------------------------------------
(* The types.                                                              *)

RestTypes ==
    /\ convOf \in [ConvIds -> ConvIds \cup {NoConv}]
    /\ listing \in [phase : {"asked", "answered", "over"}, convs : SUBSET ConvIds]
    /\ loads \subseteq [conv : ConvIds, answered : BOOLEAN, messages : SUBSET Messages]
    /\ confirm \in [conv : ConvIds \cup {NoConv}, current : ConvIds \cup {NoConv}]
    /\ stored \subseteq (0..MaxSends) \X ConvIds

LEMMA ChatStarts == ChatInit => ChatInv
  <1>1. SUFFICES ASSUME ChatInit PROVE ChatInv
    OBVIOUS
  <1>2. chat \in Shown /\ queue \in Seq(Updates)
    BY <1>1 DEF ChatInit, Shown
  <1>3. Rendered = chat
    BY <1>1, RenderedEmpty DEF ChatInit
  <1>4. stored \subseteq (0..MaxSends) \X ConvIds
    <2>1. 0 \in 0..MaxSends
      BY ChatPageAssumption
    <2>2. QED
      BY <1>1, <2>1 DEF ChatInit, ConvIds
  <1>5. stream \in [Sends -> Streams] /\ serving \in [Sends -> Servings]
    BY <1>1 DEF ChatInit, Streams, Phases, Servings, Steps
  <1>6. listing \in [phase : {"asked", "answered", "over"}, convs : SUBSET ConvIds]
    BY <1>1 DEF ChatInit
  <1>7. confirm \in [conv : ConvIds \cup {NoConv}, current : ConvIds \cup {NoConv}]
    BY <1>1 DEF ChatInit, NoDialog
  <1>8. convOf \in [ConvIds -> ConvIds \cup {NoConv}] /\ loads = {} /\ created \in 0..MaxChats
    BY <1>1, ChatPageAssumption DEF ChatInit
  <1>9. StreamsFit /\ ServingFits /\ QueueFits
    BY <1>1 DEF ChatInit, StreamsFit, Heard, QueueFits, ServingFits, ServingFitsAt, Learned
  <1>10. QED
    BY <1>2, <1>3, <1>4, <1>5, <1>6, <1>7, <1>8, <1>9 DEF ChatInv, ChatTypes

LEMMA StoredMessagesAre ==
    ASSUME ChatTypes, NEW c \in ConvIds, NEW m \in StoredMessages(c)
    PROVE  /\ m \in Messages
           /\ \E x \in stored :
                 x[2] = c /\ m.send = x[1] /\ m.id = "server" /\ m.conv = c
  <1> DEFINE mine == {y \in stored : y[2] = c}
             rows(n) == {Message(n, "user", "server", c, "words", FALSE),
                         Message(n, "assistant", "server", c, "words", FALSE)}
  <1>1. PICK r \in {rows(x[1]) : x \in mine} : m \in r
    BY DEF StoredMessages
  <1>2. PICK x \in stored : x[2] = c /\ r = rows(x[1])
    BY <1>1
  <1>3. \/ m = Message(x[1], "user", "server", c, "words", FALSE)
        \/ m = Message(x[1], "assistant", "server", c, "words", FALSE)
    BY <1>1, <1>2
  <1>4. x[1] \in 0..MaxSends
    BY DEF ChatTypes
  <1>5. m \in Messages /\ m.send = x[1] /\ m.id = "server" /\ m.conv = c
    <2>1. PICK k \in 0..MaxSends, role \in {"user", "assistant"} :
              k = x[1] /\ m = Message(k, role, "server", c, "words", FALSE)
      BY <1>3, <1>4
    <2>2. QED
      BY <2>1 DEF Message, Messages
  <1>6. QED
    BY <1>2, <1>5

LEMMA OthersTyped ==
    ASSUME ChatInv, [ChatNext]_chatVars,
           \A n \in Sends : ~HandleSend(n) /\ ~StreamStep(n)
    PROVE  RestTypes'
  <1>1. RestTypes /\ chat \in Shown
    BY DEF ChatInv, ChatTypes, RestTypes
  <1>2. CASE Render \/ HandleNewConversation \/ UNCHANGED chatVars
    BY <1>1, <1>2 DEF Render, HandleNewConversation, chatVars, RestTypes
  <1>3. ASSUME NEW c \in ConvIds, HandleSelectConversation(c) PROVE RestTypes'
    <2>1. [conv |-> c, answered |-> FALSE, messages |-> {}] \in
              [conv : ConvIds, answered : BOOLEAN, messages : SUBSET Messages]
      OBVIOUS
    <2>2. UNCHANGED <<convOf, listing, confirm, stored>>
      BY <1>3 DEF HandleSelectConversation
    <2>3. loads' \subseteq loads \cup {[conv |-> c, answered |-> FALSE, messages |-> {}]}
      BY <1>3 DEF HandleSelectConversation
    <2>4. QED
      BY <1>1, <2>1, <2>2, <2>3 DEF RestTypes
  <1>4. ASSUME NEW c \in ConvIds, HandleDeleteConversation(c) PROVE RestTypes'
    BY <1>1, <1>4 DEF HandleDeleteConversation, RestTypes, Shown
  <1>5. CASE CancelDelete
    BY <1>1, <1>5 DEF CancelDelete, RestTypes, NoDialog
  <1>6. CASE ConfirmDelete
    <2>1. stored' \subseteq stored
      BY <1>6 DEF ConfirmDelete
    <2>2. UNCHANGED <<convOf, listing, loads>> /\ confirm' = NoDialog
      BY <1>6 DEF ConfirmDelete
    <2>3. QED
      BY <1>1, <2>1, <2>2 DEF RestTypes, NoDialog
  <1>7. CASE ServeListing \/ HandleListing \/ ListingFails
    <2>1. StoredConvs \subseteq ConvIds
      BY <1>1 DEF RestTypes, StoredConvs
    <2>2. QED
      BY <1>1, <1>7, <2>1 DEF ServeListing, HandleListing, ListingFails, RestTypes
  <1>8. ASSUME NEW l \in loads, ServeMessages(l) PROVE RestTypes'
    <2>1. l \in [conv : ConvIds, answered : BOOLEAN, messages : SUBSET Messages]
      BY <1>1 DEF RestTypes
    <2>2. PICK answer \in MessagesOf(l.conv) :
              loads' = (loads \ {l}) \cup {[l EXCEPT !.answered = TRUE, !.messages = answer]}
      BY <1>8 DEF ServeMessages
    <2>3. answer \subseteq Messages
      BY <2>1, StoredMessagesAre DEF ChatInv, MessagesOf
    <2>4. [l EXCEPT !.answered = TRUE, !.messages = answer] \in
              [conv : ConvIds, answered : BOOLEAN, messages : SUBSET Messages]
      BY <2>1, <2>3
    <2>5. UNCHANGED <<convOf, listing, confirm, stored>>
      BY <1>8 DEF ServeMessages
    <2>6. QED
      BY <1>1, <2>2, <2>4, <2>5 DEF RestTypes
  <1>9. ASSUME NEW l \in loads, HandleMessages(l) PROVE RestTypes'
    BY <1>1, <1>9 DEF HandleMessages, RestTypes
  <1>10. QED
    BY <1>2, <1>3, <1>4, <1>5, <1>6, <1>7, <1>8, <1>9 DEF ChatNext

LEMMA StreamTyped ==
    ASSUME ChatInv, NEW n \in Sends, StreamStep(n)
    PROVE  RestTypes' /\ created' = created
  <1>1. RestTypes
    BY DEF ChatInv, ChatTypes, RestTypes
  <1>2. CASE Meta(n)
    <2>1. PICK conv \in ConvIds, eager \in BOOLEAN : MetaDoes(n, conv, eager)
      BY <1>2, MetaEffect
    <2>2. stream[n].target \in ConvIds
      BY <2>1 DEF MetaDoes, ChatInv, ChatTypes, StreamsFit, Streams
    <2>3. QED
      BY <1>1, <2>1, <2>2 DEF MetaDoes, RestTypes
  <1>3. CASE MetaUnheard(n) \/ Commit(n)
    <2>1. /\ UNCHANGED <<convOf, created, listing, loads, confirm>>
          /\ \/ stored' = stored
             \/ /\ serving[n].conv \in ConvIds
                /\ stored' = stored \cup {<<n, serving[n].conv>>}
      BY <1>3, UnheardDoes
    <2>2. n \in 0..MaxSends
      BY DEF Sends
    <2>3. QED
      BY <1>1, <2>1, <2>2 DEF RestTypes
  <1>4. CASE Chunk(n) \/ ErrorEvent(n) \/ DoneEvent(n) \/ EndOfStream(n) \/ StreamBreaks(n)
    BY <1>1, <1>4 DEF Chunk, ErrorEvent, DoneEvent, EndOfStream, StreamBreaks, RestTypes
  <1>5. QED
    BY <1>2, <1>3, <1>4 DEF StreamStep

LEMMA ChatKeepsTypes == ChatInv /\ [ChatNext]_chatVars => ChatInv'
  <1>1. SUFFICES ASSUME ChatInv, [ChatNext]_chatVars PROVE ChatInv'
    OBVIOUS
  <1>2. stream' \in [Sends -> Streams] /\ serving' \in [Sends -> Servings]
          /\ StreamsFit' /\ ServingFits' /\ chat \in Shown /\ created \in 0..MaxChats
    BY <1>1, HeardStands DEF ChatInv, ChatTypes
  <1>3. SUFFICES /\ chat' \in Shown /\ Rendered' \in Shown
                 /\ queue' \in Seq(Updates) /\ QueueFits'
                 /\ created' \in 0..MaxChats /\ RestTypes'
    BY <1>2 DEF ChatInv, ChatTypes, RestTypes
  <1>4. ASSUME NEW n \in Sends, HandleSend(n)
        PROVE  /\ chat' \in Shown /\ Rendered' \in Shown
               /\ queue' \in Seq(Updates) /\ QueueFits'
               /\ created' \in 0..MaxChats /\ RestTypes'
    <2>1. /\ Rendered' \in Shown /\ chat' = Rendered' /\ queue' = <<>>
          /\ created' \in 0..MaxChats
          /\ UNCHANGED <<convOf, listing, loads, confirm, clicks, stored>>
      BY <1>1, <1>4, SendEffect DEF ChatInv
    <2>2. QED
      BY <1>1, <2>1 DEF ChatInv, ChatTypes, RestTypes, QueueFits
  <1>5. ASSUME NEW n \in Sends, StreamStep(n)
        PROVE  /\ chat' \in Shown /\ Rendered' \in Shown
               /\ queue' \in Seq(Updates) /\ QueueFits'
               /\ created' \in 0..MaxChats /\ RestTypes'
    <2>1. chat' = chat
      BY <1>1, <1>5, StreamStepEffect DEF ChatInv
    <2>2. QED
      BY <1>1, <1>2, <1>5, <2>1, StreamRenders, StreamTyped
  <1>6. CASE \A n \in Sends : ~HandleSend(n) /\ ~StreamStep(n)
    <2>1. RestTypes'
      BY <1>1, <1>6, OthersTyped
    <2>2. ASSUME NEW l \in loads, HandleMessages(l)
          PROVE  /\ chat' \in Shown /\ Rendered' \in Shown
                 /\ queue' \in Seq(Updates) /\ QueueFits' /\ created' \in 0..MaxChats
      <3>1. chat' = chat /\ created' = created
        BY <2>2 DEF HandleMessages
      <3>2. QED
        BY <1>1, <1>2, <2>2, <3>1, AnswerRenders
    <2>3. CASE \A l \in loads : ~HandleMessages(l)
      BY <1>1, <1>6, <2>1, <2>3, OthersRender
    <2>4. QED
      BY <2>1, <2>2, <2>3
  <1>7. QED
    BY <1>4, <1>5, <1>6

-----------------------------------------------------------------------------
(* What is stored, answered and shown belongs to a question that was asked. *)

\* The message is one the server gave, of an exchange it stored: where the page
\* knows it to be, if it does.
Known(m) ==
    m.send \in Sends =>
        /\ m.id = "server" /\ Heard(m.send)
        /\ Learned(m.send) => m.conv = stream[m.send].conv

StoredKnown ==
    \A x \in stored : x[1] \in Sends =>
        serving[x[1]].step = "over" /\ x[2] = serving[x[1]].conv

AnswersKnown == \A l \in loads : \A m \in l.messages : Known(m)

ShownAsked ==
    \A m \in Rendered.messages : m.send \in Sends => stream[m.send].phase # "unsent"

ChatKnows == ChatInv /\ StoredKnown /\ AnswersKnown /\ ShownAsked

LEMMA KnowsStarts == ChatInit => ChatKnows
  <1>1. SUFFICES ASSUME ChatInit PROVE StoredKnown /\ AnswersKnown /\ ShownAsked
    BY ChatStarts DEF ChatKnows
  <1>2. Rendered = chat
    BY <1>1, RenderedEmpty DEF ChatInit
  <1>3. StoredKnown
    BY <1>1 DEF ChatInit, StoredKnown, Sends
  <1>4. QED
    BY <1>1, <1>2, <1>3 DEF ChatInit, AnswersKnown, ShownAsked

\* A question that was asked stays asked.
LEMMA AskedStays ==
    ASSUME ChatInv, [ChatNext]_chatVars, NEW k \in Sends, stream[k].phase # "unsent"
    PROVE  stream'[k].phase # "unsent"
  <1>1. ASSUME NEW n \in Sends, HandleSend(n) PROVE stream'[k].phase # "unsent"
    BY <1>1, SendEffect DEF ChatInv
  <1>2. ASSUME NEW n \in Sends, StreamStep(n) PROVE stream'[k].phase # "unsent"
    BY <1>2, StreamStepEffect
  <1>3. QED
    BY <1>1, <1>2, StreamChanges

LEMMA KnownStays ==
    ASSUME ChatInv, [ChatNext]_chatVars, NEW m, Known(m)
    PROVE  Known(m)'
  <1>1. ReferencesStand /\ \A n \in Sends : Heard(n) => stream'[n].phase \notin {"unsent", "sent"}
    BY HeardStands
  <1>2. m.send \in Sends /\ Heard(m.send) => stream'[m.send].conv = stream[m.send].conv
    BY <1>1 DEF ReferencesStand, References
  <1>3. QED
    BY <1>1, <1>2 DEF Known, Heard, Learned

LEMMA StoredStaysKnown ==
    ASSUME ChatKnows, [ChatNext]_chatVars
    PROVE  StoredKnown'
  <1>1. ASSUME NEW x \in stored, x[1] \in Sends
        PROVE  serving'[x[1]].step = "over" /\ x[2] = serving'[x[1]].conv
    <2>1. serving[x[1]].step = "over" /\ x[2] = serving[x[1]].conv
      BY <1>1 DEF ChatKnows, StoredKnown
    <2>2. ASSUME NEW n \in Sends, HandleSend(n) PROVE serving'[x[1]] = serving[x[1]]
      <3>1. stream[n].phase = "unsent"
              /\ \A k \in Sends : k # n => serving'[k] = serving[k]
        BY <2>2, SendEffect DEF ChatKnows, ChatInv
      <3>2. serving[n].step = "idle"
        BY <3>1 DEF ChatKnows, ChatInv, ServingFits, ServingFitsAt
      <3>3. QED
        BY <1>1, <2>1, <3>1, <3>2
    <2>3. ASSUME NEW n \in Sends, StreamStep(n) PROVE serving'[x[1]] = serving[x[1]]
      <3>1. Unsaved(n) /\ \A k \in Sends : k # n => serving'[k] = serving[k]
        BY <2>3, StreamStepEffect DEF ChatKnows
      <3>2. QED
        BY <1>1, <2>1, <3>1 DEF Unsaved
    <2>4. QED
      BY <2>1, <2>2, <2>3, StreamChanges
  <1>2. ASSUME NEW n \in Sends, Commit(n) PROVE StoredKnown'
    <2>1. /\ serving'[n].step = "over" /\ serving'[n].conv = serving[n].conv
          /\ stored' \subseteq stored \cup {<<n, serving[n].conv>>}
      <3>1. serving[n].step # "over"
        BY <1>2 DEF Commit, Unsaved
      <3>2. StepIs(n, "over")
        <4>1. serving' = [serving EXCEPT ![n].step = "over"]
          BY <1>2 DEF Commit, Step
        <4>2. QED
          BY <4>1 DEF StepIs, ChatKnows, ChatInv, ChatTypes, Servings
      <3>3. QED
        BY <1>2, <3>2 DEF Commit, StepIs
    <2> DEFINE new == <<n, serving[n].conv>>
    <2>2. new[1] = n /\ new[2] = serving[n].conv
      OBVIOUS
    <2> HIDE DEF new
    <2>3. QED
      BY <1>1, <2>1, <2>2 DEF StoredKnown, new
  <1>3. stored' \subseteq stored \/ \E n \in Sends : Commit(n)
    BY DEF ChatNext, Render, HandleNewConversation, HandleSelectConversation,
           HandleDeleteConversation, CancelDelete, ConfirmDelete, ServeListing, HandleListing,
           ListingFails, ServeMessages, HandleMessages, HandleSend, StreamStep, Meta,
           MetaUnheard, Chunk, ErrorEvent, DoneEvent, EndOfStream, StreamBreaks, chatVars
  <1>4. QED
    BY <1>1, <1>2, <1>3 DEF StoredKnown

LEMMA AnswersStayKnown ==
    ASSUME ChatKnows, [ChatNext]_chatVars
    PROVE  AnswersKnown'
  <1>1. ASSUME NEW l \in loads, NEW m \in l.messages PROVE Known(m)'
    BY <1>1, KnownStays DEF ChatKnows, AnswersKnown
  <1>2. ASSUME NEW l \in loads, ServeMessages(l) PROVE AnswersKnown'
    <2>1. l.conv \in ConvIds
      BY DEF ChatKnows, ChatInv, ChatTypes
    <2>2. PICK answer \in MessagesOf(l.conv) :
              loads' = (loads \ {l}) \cup {[l EXCEPT !.answered = TRUE, !.messages = answer]}
      BY <1>2 DEF ServeMessages
    <2> DEFINE r == [l EXCEPT !.answered = TRUE, !.messages = answer]
    <2>3. r.messages \subseteq StoredMessages(l.conv)
      BY <2>2 DEF ChatKnows, ChatInv, ChatTypes, MessagesOf
    <2>4. ASSUME NEW m \in StoredMessages(l.conv) PROVE Known(m)'
      <3>1. PICK x \in stored : x[2] = l.conv /\ m.send = x[1] /\ m.id = "server"
                                  /\ m.conv = l.conv
        BY <2>1, StoredMessagesAre DEF ChatKnows, ChatInv
      <3>2. ASSUME m.send \in Sends
            PROVE  /\ Heard(m.send)
                   /\ Learned(m.send) => m.conv = stream[m.send].conv
        <4>1. serving[m.send].step = "over" /\ m.conv = serving[m.send].conv
          BY <3>1, <3>2 DEF ChatKnows, StoredKnown
        <4>2. ServingFitsAt(m.send)
          BY <3>2 DEF ChatKnows, ChatInv, ServingFits
        <4>3. QED
          BY <4>1, <4>2 DEF ServingFitsAt, Heard
      <3>3. Known(m)
        BY <3>1, <3>2 DEF Known
      <3>4. QED
        BY <3>3, KnownStays DEF ChatKnows
    <2>5. loads' = (loads \ {l}) \cup {r}
      BY <2>2
    <2> HIDE DEF r
    <2>6. QED
      BY <1>1, <2>3, <2>4, <2>5 DEF AnswersKnown
  <1>3. ASSUME NEW c \in ConvIds, HandleSelectConversation(c) PROVE AnswersKnown'
    <2>1. PICK r : r = [conv |-> c, answered |-> FALSE, messages |-> {}]
      OBVIOUS
    <2>2. r.messages = {} /\ loads' \subseteq loads \cup {r}
      BY <1>3, <2>1 DEF HandleSelectConversation
    <2>3. QED
      BY <1>1, <2>2 DEF AnswersKnown
  <1>4. \/ loads' \subseteq loads
        \/ \E l \in loads : ServeMessages(l)
        \/ \E c \in ConvIds : HandleSelectConversation(c)
    BY DEF ChatNext, Render, HandleNewConversation, HandleDeleteConversation, CancelDelete,
           ConfirmDelete, ServeListing, HandleListing, ListingFails, HandleMessages, HandleSend,
           StreamStep, Meta, MetaUnheard, Chunk, ErrorEvent, DoneEvent, EndOfStream,
           StreamBreaks, Commit, chatVars
  <1>5. QED
    BY <1>1, <1>2, <1>3, <1>4 DEF AnswersKnown

LEMMA ShownStaysAsked ==
    ASSUME ChatKnows, [ChatNext]_chatVars
    PROVE  ShownAsked'
  <1>1. ASSUME NEW m \in Rendered.messages, m.send \in Sends
        PROVE  stream'[m.send].phase # "unsent"
    BY <1>1, AskedStays DEF ChatKnows, ShownAsked
  <1>2. ASSUME NEW n \in Sends, HandleSend(n) PROVE ShownAsked'
    <2>1. PICK target \in ConvIds :
              /\ stream'[n].phase = "sent"
              /\ Rendered'.messages = Rendered.messages \cup
                    {Message(n, "user", "local", target, "words", FALSE),
                     Message(n, "assistant", "local", target, "none", TRUE)}
      BY <1>2, SendEffect DEF ChatKnows, ChatInv
    <2>2. \A m \in Rendered'.messages : m \in Rendered.messages \/ m.send = n
      BY <2>1 DEF Message
    <2>3. QED
      BY <1>1, <2>1, <2>2 DEF ShownAsked
  <1>3. ASSUME NEW n \in Sends, StreamStep(n) PROVE ShownAsked'
    <2>1. \A q \in Rendered'.messages : \E m \in Rendered.messages : q.send = m.send
      BY <1>3, StreamRenders DEF ChatKnows, Renames, Changes, MetaMade, StreamMade
    <2>2. QED
      BY <1>1, <2>1 DEF ShownAsked
  <1>4. ASSUME NEW l \in loads, HandleMessages(l) PROVE ShownAsked'
    <2>1. Rendered'.messages \subseteq Rendered.messages \cup l.messages
      BY <1>4, AnswerRenders DEF ChatKnows
    <2>2. \A m \in l.messages : m.send \in Sends => stream[m.send].phase # "unsent"
      BY DEF ChatKnows, AnswersKnown, Known, Heard
    <2>3. \A m \in l.messages : m.send \in Sends => stream'[m.send].phase # "unsent"
      BY <2>2, AskedStays DEF ChatKnows
    <2>4. QED
      BY <1>1, <2>1, <2>3 DEF ShownAsked
  <1>5. CASE /\ \A n \in Sends : ~HandleSend(n) /\ ~StreamStep(n)
             /\ \A l \in loads : ~HandleMessages(l)
    <2>1. Rendered'.messages \subseteq Rendered.messages
      BY <1>5, OthersRender DEF ChatKnows
    <2>2. QED
      BY <1>1, <2>1 DEF ShownAsked
  <1>6. QED
    BY <1>2, <1>3, <1>4, <1>5

LEMMA KnowsStays == ChatKnows /\ [ChatNext]_chatVars => ChatKnows'
  BY ChatKeepsTypes, StoredStaysKnown, AnswersStayKnown, ShownStaysAsked DEF ChatKnows

-----------------------------------------------------------------------------
(* Answers arrive.                                                         *)

\* The answer r stands with the question q of n.
Answers(r, q, n) ==
    /\ IsReply(r, n) /\ r.conv = q.conv
    /\ stream[n].phase = "over" => ~r.streaming
    /\ stream[n].worded => r.text = "words"

AskedBy(q, n) == q.send = n /\ q.role = "user" /\ q.id = "local"

\* Every question shown has its answer with it, in what would be rendered.
RepliesStand ==
    \A n \in Sends : stream[n].phase # "unsent" /\ ~stream[n].late =>
        \A q \in Rendered.messages : AskedBy(q, n) =>
            \E r \in Rendered.messages : Answers(r, q, n)

LEMMA RepliesStart == ChatInit => RepliesStand
  BY DEF ChatInit, RepliesStand

LEMMA SendKeepsReplies ==
    ASSUME ChatKnows, RepliesStand, NEW n \in Sends, HandleSend(n)
    PROVE  RepliesStand'
  <1>1. PICK target \in ConvIds :
            /\ stream[n].phase = "unsent" /\ stream'[n].phase = "sent"
            /\ stream'[n].msgId = "local" /\ ~stream'[n].worded
            /\ \A k \in Sends : k # n => stream'[k] = stream[k]
            /\ Rendered'.messages = Rendered.messages \cup
                  {Message(n, "user", "local", target, "words", FALSE),
                   Message(n, "assistant", "local", target, "none", TRUE)}
    BY SendEffect DEF ChatKnows, ChatInv
  <1>2. PICK ask, reply :
            /\ ask = Message(n, "user", "local", target, "words", FALSE)
            /\ reply = Message(n, "assistant", "local", target, "none", TRUE)
    OBVIOUS
  <1>3. /\ ask.send = n /\ ask.role = "user" /\ ask.conv = target
        /\ reply.send = n /\ reply.role = "assistant" /\ reply.id = "local"
        /\ reply.conv = target
    BY <1>2 DEF Message
  <1>4. SUFFICES ASSUME NEW k \in Sends, stream'[k].phase # "unsent", ~stream'[k].late,
                        NEW q \in Rendered'.messages, AskedBy(q, k)
                 PROVE  \E r \in Rendered'.messages : Answers(r, q, k)'
    BY DEF RepliesStand, AskedBy
  <1>5. Rendered'.messages = Rendered.messages \cup {ask, reply}
    BY <1>1, <1>2
  <1>6. CASE k = n
    <2>1. q \notin Rendered.messages
      BY <1>1, <1>4, <1>6 DEF AskedBy, ChatKnows, ShownAsked
    <2>2. q.conv = target
      BY <1>3, <1>5, <2>1
    <2>3. Answers(reply, q, k)'
      BY <1>1, <1>3, <1>6, <2>2 DEF Answers, IsReply
    <2>4. QED
      BY <1>5, <2>3
  <1>7. CASE k # n
    <2>1. stream'[k] = stream[k]
      BY <1>1, <1>7
    <2>2. q \in Rendered.messages
      BY <1>3, <1>4, <1>5, <1>7 DEF AskedBy
    <2>3. PICK r \in Rendered.messages : Answers(r, q, k)
      BY <1>4, <2>1, <2>2 DEF RepliesStand
    <2>4. Answers(r, q, k)'
      BY <2>1, <2>3 DEF Answers, IsReply
    <2>5. QED
      BY <1>5, <2>4
  <1>8. QED
    BY <1>6, <1>7

LEMMA MetaKeepsReplies ==
    ASSUME ChatKnows, RepliesStand, [ChatNext]_chatVars, NEW n \in Sends, Meta(n)
    PROVE  RepliesStand'
  <1>1. PICK eager \in BOOLEAN : stream'[n].late = ~eager /\ Renames(n, eager)
    BY MetaRenders DEF ChatKnows
  <1>2. PICK conv \in ConvIds, e \in BOOLEAN : MetaDoes(n, conv, e)
    BY MetaEffect DEF ChatKnows
  <1>3. /\ stream'[n].msgId = "server" /\ stream'[n].worded = stream[n].worded
        /\ stream'[n].phase = "heard" /\ stream[n].phase = "sent"
        /\ stream[n].msgId = "local" /\ ~stream[n].late
        /\ \A k \in Sends : k # n => stream'[k] = stream[k]
    BY <1>2 DEF MetaDoes, ChatKnows, ChatInv, ChatTypes, Streams, StreamsFit, Heard
  <1>4. SUFFICES ASSUME NEW k \in Sends, stream'[k].phase # "unsent", ~stream'[k].late,
                        NEW q \in Rendered'.messages, AskedBy(q, k)
                 PROVE  \E r \in Rendered'.messages : Answers(r, q, k)'
    BY DEF RepliesStand, AskedBy
  <1>5. PICK p \in Rendered.messages : MetaMade(p, q, n, eager)'
    BY <1>1 DEF Renames
  <1>6. AskedBy(p, k)
    BY <1>4, <1>5 DEF AskedBy, MetaMade
  <1>7. \A s \in Rendered.messages : \E r \in Rendered'.messages : MetaMade(s, r, n, eager)'
    BY <1>1 DEF Renames
  <1>8. CASE k = n
    <2>1. PICK s \in Rendered.messages : Answers(s, p, n)
      BY <1>3, <1>6, <1>8 DEF RepliesStand
    <2>2. PICK r \in Rendered'.messages : MetaMade(s, r, n, eager)'
      BY <1>7
    <2>3. eager
      BY <1>1, <1>4, <1>8
    <2>4. Answers(r, q, n)'
      BY <1>3, <1>5, <2>1, <2>2, <2>3 DEF Answers, IsReply, MetaMade
    <2>5. QED
      BY <1>8, <2>4
  <1>9. CASE k # n
    <2>1. stream'[k] = stream[k]
      BY <1>3, <1>9
    <2>2. PICK s \in Rendered.messages : Answers(s, p, k)
      BY <1>4, <1>6, <2>1 DEF RepliesStand
    <2>3. PICK r \in Rendered'.messages : MetaMade(s, r, n, eager)'
      BY <1>7
    <2>4. Answers(r, q, k)'
      BY <1>5, <1>9, <2>1, <2>2, <2>3 DEF Answers, IsReply, MetaMade
    <2>5. QED
      BY <2>4
  <1>10. QED
    BY <1>8, <1>9

LEMMA EventKeepsReplies ==
    ASSUME ChatKnows, RepliesStand, NEW n \in Sends, StreamStep(n), ~Meta(n),
           NEW event \in {"chunk", "done", "error"}, Changes(n, event),
           Chunk(n) => event = "chunk",
           stream'[n].phase = "over" => event # "chunk"
    PROVE  RepliesStand'
  <1>1. /\ \A k \in Sends : k # n => stream'[k] = stream[k]
        /\ stream[n].phase # "unsent"
        /\ stream'[n].msgId = stream[n].msgId /\ stream'[n].late = stream[n].late
        /\ Chunk(n) \/ stream'[n].worded = stream[n].worded
    BY StreamStepEffect DEF ChatKnows, ChatInv
  <1>2. SUFFICES ASSUME NEW k \in Sends, stream'[k].phase # "unsent", ~stream'[k].late,
                        NEW q \in Rendered'.messages, AskedBy(q, k)
                 PROVE  \E r \in Rendered'.messages : Answers(r, q, k)'
    BY DEF RepliesStand, AskedBy
  <1>3. PICK p \in Rendered.messages : StreamMade(p, q, n, event)'
    BY DEF Changes
  <1>4. q.send = p.send /\ q.role = p.role /\ q.id = p.id /\ q.conv = p.conv
    BY <1>3 DEF StreamMade
  <1>5. stream[k].phase # "unsent" /\ ~stream[k].late /\ stream'[k].msgId = stream[k].msgId
    BY <1>1, <1>2
  <1>6. PICK s \in Rendered.messages : Answers(s, p, k)
    BY <1>2, <1>4, <1>5 DEF RepliesStand, AskedBy
  <1>7. PICK r \in Rendered'.messages : StreamMade(s, r, n, event)'
    BY DEF Changes
  <1>8. r.send = s.send /\ r.role = s.role /\ r.id = s.id /\ r.conv = s.conv
    BY <1>7 DEF StreamMade
  <1>9. IsReply(s, k) /\ s.conv = p.conv /\ (IsReply(s, n)' <=> IsReply(s, n))
    BY <1>1, <1>6 DEF Answers, IsReply
  <1>10. IsReply(r, k)' /\ r.conv = q.conv
    BY <1>4, <1>5, <1>8, <1>9 DEF IsReply
  <1>11. CASE k = n
    <2>1. /\ s.text = "words" \/ event = "chunk" => r.text = "words"
          /\ r.streaming = (event = "chunk" /\ s.streaming)
      BY <1>7, <1>9, <1>11 DEF StreamMade
    <2>2. stream'[n].worded => r.text = "words"
      BY <1>1, <1>6, <1>11, <2>1 DEF Answers
    <2>3. stream'[n].phase = "over" => ~r.streaming
      BY <2>1
    <2>4. QED
      BY <1>10, <1>11, <2>2, <2>3 DEF Answers
  <1>12. CASE k # n
    <2>1. r = s
      BY <1>7, <1>9, <1>12 DEF StreamMade, IsReply
    <2>2. stream'[k] = stream[k]
      BY <1>1, <1>12
    <2>3. QED
      BY <1>6, <1>10, <2>1, <2>2 DEF Answers
  <1>13. QED
    BY <1>11, <1>12

LEMMA OthersKeepReplies ==
    ASSUME ChatKnows, RepliesStand, [ChatNext]_chatVars,
           \A n \in Sends : ~HandleSend(n) /\ ~StreamStep(n)
    PROVE  RepliesStand'
  <1>1. stream' = stream
    BY StreamChanges
  <1>2. SUFFICES ASSUME NEW k \in Sends, stream[k].phase # "unsent", ~stream[k].late,
                        NEW q \in Rendered'.messages, AskedBy(q, k)
                 PROVE  \E r \in Rendered'.messages : Answers(r, q, k)
    BY <1>1 DEF RepliesStand, AskedBy, Answers, IsReply
  <1>3. ASSUME q \in Rendered.messages
        PROVE  \E r \in Rendered.messages : Answers(r, q, k)
    BY <1>2, <1>3 DEF RepliesStand
  <1>4. ASSUME NEW l \in loads, HandleMessages(l)
        PROVE  \E r \in Rendered'.messages : Answers(r, q, k)
    <2>1. /\ Rendered.messages \subseteq Rendered'.messages
          /\ Rendered'.messages \subseteq Rendered.messages \cup l.messages
      BY <1>4, AnswerRenders DEF ChatKnows
    <2>2. q \notin l.messages
      BY <1>2 DEF ChatKnows, AnswersKnown, Known, AskedBy
    <2>3. QED
      BY <1>3, <2>1, <2>2
  <1>5. CASE \A l \in loads : ~HandleMessages(l)
    <2>1. \/ Rendered'.messages = Rendered.messages
          \/ \E c \in ConvIds \cup {NoConv} :
                Rendered'.messages = {m \in Rendered.messages : m.conv # c}
      BY <1>5, OthersRender DEF ChatKnows
    <2>2. ASSUME NEW c \in ConvIds \cup {NoConv},
                 Rendered'.messages = {m \in Rendered.messages : m.conv # c}
          PROVE  \E r \in Rendered'.messages : Answers(r, q, k)
      <3>1. q \in Rendered.messages /\ q.conv # c
        BY <2>2
      <3>2. PICK r \in Rendered.messages : Answers(r, q, k)
        BY <1>3, <3>1
      <3>3. r \in Rendered'.messages
        BY <2>2, <3>1, <3>2 DEF Answers
      <3>4. QED
        BY <3>2, <3>3
    <2>3. QED
      BY <1>3, <2>1, <2>2
  <1>6. QED
    BY <1>4, <1>5

LEMMA RepliesKept == ChatKnows /\ RepliesStand /\ [ChatNext]_chatVars => RepliesStand'
  <1>1. SUFFICES ASSUME ChatKnows, RepliesStand, [ChatNext]_chatVars PROVE RepliesStand'
    OBVIOUS
  <1>2. ASSUME NEW n \in Sends, StreamStep(n), ~Meta(n) PROVE RepliesStand'
    <2>1. CASE Rendered' = Rendered /\ stream' = stream
      BY <1>1, <2>1 DEF RepliesStand, Answers, IsReply, AskedBy
    <2>2. CASE Chunk(n) /\ Changes(n, "chunk")
      <3>1. stream[n].phase = "heard" /\ stream'[n] = [stream[n] EXCEPT !.worded = TRUE]
        BY <1>1, <2>2, ChunkDoes DEF ChatKnows
      <3>2. stream'[n].phase # "over"
        BY <3>1 DEF ChatKnows, ChatInv, ChatTypes, Streams
      <3>3. QED
        BY <1>1, <1>2, <2>2, <3>2, EventKeepsReplies
    <2>3. ASSUME Chunk(n) PROVE ~(DoneEvent(n) \/ EndOfStream(n))
                                  /\ ~(ErrorEvent(n) \/ StreamBreaks(n))
      <3>1. serving[n].step = "answering" /\ serving' = serving
              /\ stream'[n] = [stream[n] EXCEPT !.worded = TRUE]
              /\ stream[n].phase = "heard"
        BY <1>1, <2>3, ChunkDoes DEF ChatKnows
      <3>2. stream'[n].phase = "heard"
        BY <3>1 DEF ChatKnows, ChatInv, ChatTypes, Streams
      <3>3. ~EndOfStream(n) /\ ~StreamBreaks(n)
        BY <1>1, <3>2 DEF EndOfStream, StreamBreaks, ChatKnows, ChatInv, ChatTypes, Streams
      <3>4. ASSUME NEW step, Step(n, step) PROVE step = "answering"
        BY <1>1, <3>1, <3>4 DEF Step, ChatKnows, ChatInv, ChatTypes, Servings
      <3>5. ~Step(n, "saving") /\ ~Step(n, "ending") /\ ~Step(n, "failing")
        BY <3>4
      <3>6. ~DoneEvent(n) /\ ~ErrorEvent(n)
        BY <3>5 DEF DoneEvent, ErrorEvent
      <3>7. QED
        BY <3>3, <3>6
    <2>4. CASE (DoneEvent(n) \/ EndOfStream(n)) /\ Changes(n, "done")
      BY <1>1, <1>2, <2>3, <2>4, EventKeepsReplies
    <2>5. CASE (ErrorEvent(n) \/ StreamBreaks(n)) /\ Changes(n, "error")
      BY <1>1, <1>2, <2>3, <2>5, EventKeepsReplies
    <2>6. QED
      BY <1>1, <1>2, <2>1, <2>2, <2>4, <2>5, StreamRenders DEF ChatKnows
  <1>3. CASE \A n \in Sends : ~HandleSend(n) /\ ~StreamStep(n)
    BY <1>1, <1>3, OthersKeepReplies
  <1>4. QED
    BY <1>1, <1>2, <1>3, SendKeepsReplies, MetaKeepsReplies

LEMMA RepliesShown == RepliesStand => RepliesArrive
  BY RenderedEmpty DEF RepliesStand, RepliesArrive, Answers, AskedBy

-----------------------------------------------------------------------------
(* What is shown together is stored together.                              *)

NeverEarly == \A n \in Sends : ~stream[n].early

\* The exchange is stored where the page knows it to be, or may still be.
Alive(n) ==
    /\ Learned(n)
    /\ Unsaved(n) \/ <<n, stream[n].conv>> \in stored

OneUnsaved == \A m, n \in Sends : Unsaved(m) /\ Unsaved(n) => m = n

\* The server's name of a conversation is known to be itself.
NamesStand == \A n \in Sends : Alive(n) => convOf[stream[n].conv] = stream[n].conv

\* An exchange is shown in its conversation, or where it was asked.
AliveShown ==
    \A m \in Rendered.messages : m.send \in Sends /\ Alive(m.send) =>
        m.conv = stream[m.send].conv

SentShown ==
    \A m \in Rendered.messages : m.send \in Sends /\ stream[m.send].phase = "sent" =>
        m.conv = stream[m.send].target

\* The name that the server was given is still the one the page would give.
AskedStands ==
    \A n \in Sends : stream[n].phase = "sent" => stream[n].asked = convOf[stream[n].target]

Orderly == OneUnsaved /\ NamesStand /\ AliveShown /\ SentShown /\ AskedStands

TogetherStands == NeverEarly => Orderly

LEMMA TogetherStarts == ChatInit => TogetherStands
  <1>1. SUFFICES ASSUME ChatInit PROVE Orderly
    BY DEF TogetherStands
  <1>2. \A n \in Sends : /\ stream[n].phase = "unsent" /\ stream[n].conv = NoConv
                         /\ serving[n].step = "idle"
    BY <1>1 DEF ChatInit
  <1>3. Rendered.messages = {}
    BY <1>1, RenderedEmpty DEF ChatInit
  <1>4. QED
    BY <1>2, <1>3
       DEF Orderly, OneUnsaved, NamesStand, AliveShown, SentShown, AskedStands, Alive, Unsaved,
           Learned

LEMMA EarlyStays ==
    ASSUME ChatKnows, [ChatNext]_chatVars, NeverEarly'
    PROVE  NeverEarly
  <1>1. SUFFICES ASSUME NEW k \in Sends, stream[k].early PROVE FALSE
    BY DEF NeverEarly
  <1>2. stream[k].phase # "unsent"
    BY <1>1 DEF ChatKnows, ChatInv, StreamsFit
  <1>3. ASSUME NEW n \in Sends, HandleSend(n) PROVE stream'[k] = stream[k]
    BY <1>2, <1>3, SendEffect DEF ChatKnows, ChatInv
  <1>4. ASSUME NEW n \in Sends, StreamStep(n) PROVE stream'[k].early = stream[k].early
    BY <1>4, StreamStepEffect DEF ChatKnows, ChatInv
  <1>5. stream'[k].early = stream[k].early
    BY <1>3, <1>4, StreamChanges
  <1>6. QED
    BY <1>1, <1>5 DEF NeverEarly

LEMMA SendKeepsOrder ==
    ASSUME ChatKnows, Orderly, NEW n \in Sends, HandleSend(n), NeverEarly'
    PROVE  Orderly'
  <1>1. PICK target \in ConvIds :
            /\ stream[n].phase = "unsent" /\ stream'[n].phase = "sent"
            /\ stream'[n].target = target /\ stream'[n].asked = convOf[target]
            /\ stream'[n].conv = NoConv
            /\ stream'[n].early = \E m \in Sends : Unsaved(m)
            /\ \A k \in Sends : k # n => stream'[k] = stream[k] /\ serving'[k] = serving[k]
            /\ Rendered'.messages = Rendered.messages \cup
                  {Message(n, "user", "local", target, "words", FALSE),
                   Message(n, "assistant", "local", target, "none", TRUE)}
            /\ convOf' = convOf /\ stored' = stored
    BY SendEffect DEF ChatKnows, ChatInv
  <1>2. \A m \in Sends : ~Unsaved(m)
    BY <1>1 DEF NeverEarly
  <1>3. \A k \in Sends : k # n => (Alive(k)' <=> Alive(k)) /\ (Unsaved(k)' <=> Unsaved(k))
    BY <1>1 DEF Alive, Unsaved, Learned
  <1>4. ~Alive(n)'
    BY <1>1 DEF Alive, Learned
  <1>5. OneUnsaved'
    BY <1>2, <1>3 DEF OneUnsaved
  <1>6. NamesStand'
    BY <1>1, <1>3, <1>4 DEF Orderly, NamesStand
  <1>7. \A m \in Rendered'.messages : m \in Rendered.messages \/ (m.send = n /\ m.conv = target)
    BY <1>1 DEF Message
  <1>8. \A m \in Rendered.messages : m.send # n
    BY <1>1 DEF ChatKnows, ShownAsked
  <1>9. AliveShown'
    BY <1>1, <1>3, <1>4, <1>7 DEF Orderly, AliveShown
  <1>10. SentShown'
    BY <1>1, <1>7, <1>8 DEF Orderly, SentShown
  <1>11. AskedStands'
    BY <1>1 DEF Orderly, AskedStands
  <1>12. QED
    BY <1>5, <1>6, <1>9, <1>10, <1>11 DEF Orderly

\* A step after which no more is alive, and nothing else is shown of it.
LEMMA OrderKept ==
    ASSUME Orderly, convOf' = convOf,
           \A k \in Sends : Unsaved(k)' => Unsaved(k),
           \A k \in Sends : Alive(k)' => Alive(k) /\ stream'[k].conv = stream[k].conv,
           \A k \in Sends : stream'[k].phase = "sent" => stream'[k] = stream[k],
           \A q \in Rendered'.messages : q.send \in Sends =>
               \/ \E m \in Rendered.messages : m.send = q.send /\ m.conv = q.conv
               \/ /\ Learned(q.send)' => q.conv = stream'[q.send].conv
                  /\ stream'[q.send].phase # "sent"
    PROVE  Orderly'
  <1>1. OneUnsaved'
    BY DEF Orderly, OneUnsaved
  <1>2. NamesStand'
    BY DEF Orderly, NamesStand
  <1>3. AliveShown'
    BY DEF Orderly, AliveShown, Alive
  <1>4. SentShown'
    BY DEF Orderly, SentShown
  <1>5. AskedStands'
    BY DEF Orderly, AskedStands
  <1>6. QED
    BY <1>1, <1>2, <1>3, <1>4, <1>5 DEF Orderly

LEMMA EventKeepsOrder ==
    ASSUME ChatKnows, Orderly, [ChatNext]_chatVars, NEW n \in Sends, StreamStep(n), ~Meta(n)
    PROVE  Orderly'
  <1>1. /\ \A k \in Sends : k # n => stream'[k] = stream[k] /\ serving'[k] = serving[k]
        /\ stream'[n].phase \notin {"unsent", "sent"}
        /\ stream'[n].conv = stream[n].conv
        /\ Unsaved(n)
    BY StreamStepEffect DEF ChatKnows
  <1>2. convOf' = convOf
    BY DEF StreamStep, MetaUnheard, Chunk, ErrorEvent, DoneEvent, EndOfStream, StreamBreaks,
           Commit
  <1>3. stored' = stored \/ stored' = stored \cup {<<n, serving[n].conv>>}
    BY DEF StreamStep, MetaUnheard, Chunk, ErrorEvent, DoneEvent, EndOfStream, StreamBreaks,
           Commit
  <1>4. \A k \in Sends : Unsaved(k)' => Unsaved(k)
    BY <1>1 DEF Unsaved
  <1>5. \A k \in Sends : Alive(k)' => Alive(k) /\ stream'[k].conv = stream[k].conv
    <2>1. ASSUME NEW k \in Sends, <<k, stream[k].conv>> \in stored'
          PROVE  <<k, stream[k].conv>> \in stored \/ Unsaved(k)
      BY <1>1, <1>3, <2>1
    <2>2. \A k \in Sends : stream'[k].conv = stream[k].conv
      BY <1>1
    <2>3. QED
      BY <1>4, <2>1, <2>2 DEF Alive, Learned
  <1>6. \A q \in Rendered'.messages : \E m \in Rendered.messages :
            m.send = q.send /\ m.conv = q.conv
    BY StreamRenders DEF ChatKnows, Changes, StreamMade
  <1>7. \A k \in Sends : stream'[k].phase = "sent" => stream'[k] = stream[k]
    BY <1>1
  <1>8. QED
    BY <1>2, <1>4, <1>5, <1>6, <1>7, OrderKept

LEMMA OthersKeepOrder ==
    ASSUME ChatKnows, Orderly, [ChatNext]_chatVars,
           \A n \in Sends : ~HandleSend(n) /\ ~StreamStep(n)
    PROVE  Orderly'
  <1>1. stream' = stream /\ serving' = serving
    BY StreamChanges
  <1>2. convOf' = convOf /\ stored' \subseteq stored
    BY DEF ChatNext, Render, HandleNewConversation, HandleSelectConversation,
           HandleDeleteConversation, CancelDelete, ConfirmDelete, ServeListing, HandleListing,
           ListingFails, ServeMessages, HandleMessages, chatVars
  <1>3. ASSUME NEW l \in loads, HandleMessages(l), NEW q \in Rendered'.messages,
               q.send \in Sends
        PROVE  \/ \E m \in Rendered.messages : m.send = q.send /\ m.conv = q.conv
               \/ /\ Learned(q.send)' => q.conv = stream'[q.send].conv
                  /\ stream'[q.send].phase # "sent"
    <2>1. q \in Rendered.messages \/ q \in l.messages
      BY <1>3, AnswerRenders DEF ChatKnows
    <2>2. q \in l.messages => /\ Learned(q.send) => q.conv = stream[q.send].conv
                              /\ stream[q.send].phase # "sent"
      BY <1>3 DEF ChatKnows, AnswersKnown, Known, Heard
    <2>3. QED
      BY <1>1, <2>1, <2>2 DEF Learned
  <1>4. (\A l \in loads : ~HandleMessages(l)) => Rendered'.messages \subseteq Rendered.messages
    BY OthersRender DEF ChatKnows
  <1>5. \A k \in Sends : Alive(k)' => Alive(k) /\ stream'[k].conv = stream[k].conv
    BY <1>1, <1>2 DEF Alive, Unsaved, Learned
  <1>6. \A k \in Sends : Unsaved(k)' => Unsaved(k)
    BY <1>1 DEF Unsaved
  <1>7. \A q \in Rendered'.messages : q.send \in Sends =>
            \/ \E m \in Rendered.messages : m.send = q.send /\ m.conv = q.conv
            \/ /\ Learned(q.send)' => q.conv = stream'[q.send].conv
               /\ stream'[q.send].phase # "sent"
    BY <1>3, <1>4
  <1>8. QED
    BY <1>1, <1>2, <1>5, <1>6, <1>7, OrderKept

LEMMA MetaKeepsOrder ==
    ASSUME ChatKnows, Orderly, [ChatNext]_chatVars, NEW n \in Sends, Meta(n)
    PROVE  Orderly'
  <1>1. PICK eager \in BOOLEAN : stream'[n].late = ~eager /\ Renames(n, eager)
    BY MetaRenders DEF ChatKnows
  <1>2. PICK conv \in ConvIds, e \in BOOLEAN : MetaDoes(n, conv, e)
    BY MetaEffect DEF ChatKnows
  <1>3. PICK target : target = stream[n].target
    OBVIOUS
  <1>4. /\ stream[n].phase = "sent" /\ stream'[n].phase = "heard"
        /\ stream'[n].conv = conv /\ stream'[n].target = target
        /\ target \in ConvIds /\ conv # NoConv
    <2>1. stream[n] \in Streams /\ stream[n].phase = "sent" /\ target # NoConv
      BY <1>2, <1>3 DEF MetaDoes, ChatKnows, ChatInv, ChatTypes, StreamsFit
    <2>2. target \in ConvIds
      BY <1>3, <2>1 DEF Streams
    <2>3. stream'[n] = [stream[n] EXCEPT !.phase = "heard", !.conv = conv,
                                         !.msgId = "server", !.late = ~e]
      BY <1>2 DEF MetaDoes
    <2>4. /\ stream'[n].phase = "heard" /\ stream'[n].conv = conv
          /\ stream'[n].target = target
      BY <1>3, <2>1, <2>3 DEF Streams
    <2>5. conv # NoConv
      BY DEF ConvIds, NoConv, Local, OnServer
    <2>6. QED
      BY <2>1, <2>2, <2>4, <2>5
  <1>5. \A k \in Sends : k # n => stream'[k] = stream[k] /\ serving'[k] = serving[k]
    BY <1>2 DEF MetaDoes
  <1>6. stored' = stored
    BY <1>2 DEF MetaDoes
  <1>7. convOf' = [convOf EXCEPT ![target] = conv, ![conv] = conv]
    BY <1>2, <1>3 DEF MetaDoes
  <1>8. \A k \in Sends : Unsaved(k) => k = n
    <2>1. Unsaved(n)
      BY <1>2 DEF MetaDoes, Unsaved
    <2>2. QED
      BY <2>1 DEF Orderly, OneUnsaved
  <1>9. \A k \in Sends : Unsaved(k)' => k = n
    BY <1>5, <1>8 DEF Unsaved
  \* Another exchange that is alive is stored.
  <1>10. \A k \in Sends : k # n /\ Alive(k)' =>
             Alive(k) /\ stream'[k].conv = stream[k].conv /\ stream[k].conv \in StoredConvs
    <2>1. SUFFICES ASSUME NEW k \in Sends, k # n, Alive(k)'
                   PROVE  Alive(k) /\ stream'[k].conv = stream[k].conv
                             /\ stream[k].conv \in StoredConvs
      OBVIOUS
    <2>2. stream'[k] = stream[k] /\ ~Unsaved(k)'
      BY <1>5, <1>9, <2>1
    <2>3. Learned(k) /\ <<k, stream[k].conv>> \in stored
      BY <1>6, <2>1, <2>2 DEF Alive, Learned
    <2>4. QED
      BY <2>2, <2>3 DEF Alive, StoredConvs
  \* If it is where the question was asked, the server was asked for that.
  <1>11. \A k \in Sends : k # n /\ Alive(k)' /\ stream[k].conv = target => conv = target
    <2>1. SUFFICES ASSUME NEW k \in Sends, k # n, Alive(k)', stream[k].conv = target
                   PROVE  conv = target
      OBVIOUS
    <2>2. convOf[target] = target /\ target \in StoredConvs
      BY <1>10, <2>1 DEF Orderly, NamesStand
    <2>3. stream[n].asked = target
      BY <1>3, <1>4, <2>2 DEF Orderly, AskedStands
    <2>4. QED
      BY <1>2, <2>2, <2>3 DEF MetaDoes, ServerConv
  <1>12. \A c \in ConvIds : convOf'[c] = IF c \in {target, conv} THEN conv ELSE convOf[c]
    BY <1>4, <1>7 DEF ChatKnows, ChatInv, ChatTypes
  <1>13. OneUnsaved'
    BY <1>9 DEF OneUnsaved
  <1>14. NamesStand'
    <2>1. SUFFICES ASSUME NEW k \in Sends, Alive(k)'
                   PROVE  convOf'[stream'[k].conv] = stream'[k].conv
      BY DEF NamesStand
    <2>2. CASE k = n
      BY <1>4, <1>12, <2>2
    <2>3. ASSUME k # n PROVE convOf'[stream'[k].conv] = stream'[k].conv
      <3>1. /\ Alive(k) /\ stream'[k].conv = stream[k].conv
            /\ convOf[stream[k].conv] = stream[k].conv
        BY <1>10, <2>1, <2>3 DEF Orderly, NamesStand
      <3>2. stream[k].conv \in ConvIds
        BY <3>1 DEF Alive, Learned, ChatKnows, ChatInv, ChatTypes, Streams
      <3>3. QED
        BY <1>11, <1>12, <2>1, <2>3, <3>1, <3>2
    <2>4. QED
      BY <2>2, <2>3
  <1>15. AliveShown'
    <2>1. SUFFICES ASSUME NEW q \in Rendered'.messages, q.send \in Sends, Alive(q.send)'
                   PROVE  q.conv = stream'[q.send].conv
      BY DEF AliveShown
    <2>2. PICK m \in Rendered.messages : MetaMade(m, q, n, eager)'
      BY <1>1, <2>1 DEF Renames
    <2>3. m.send = q.send /\ q.conv = IF m.conv = target THEN conv ELSE m.conv
      BY <1>4, <2>2 DEF MetaMade
    <2>4. ASSUME q.send = n PROVE q.conv = stream'[q.send].conv
      BY <1>3, <1>4, <2>3, <2>4 DEF Orderly, SentShown
    <2>5. ASSUME q.send # n PROVE q.conv = stream'[q.send].conv
      <3>1. Alive(q.send) /\ stream'[q.send].conv = stream[q.send].conv
        BY <1>10, <2>1, <2>5
      <3>2. m.conv = stream[q.send].conv
        BY <2>1, <2>3, <3>1 DEF Orderly, AliveShown
      <3>3. QED
        BY <1>11, <2>1, <2>3, <2>5, <3>1, <3>2
    <2>6. QED
      BY <2>4, <2>5
  <1>16. \A k \in Sends : stream'[k].phase # "sent"
    <2>1. \A k \in Sends : stream[k].phase = "sent" => Unsaved(k)
      BY DEF ChatKnows, ChatInv, ServingFits, ServingFitsAt, Unsaved
    <2>2. QED
      BY <1>4, <1>5, <1>8, <2>1
  <1>17. SentShown' /\ AskedStands'
    BY <1>16 DEF SentShown, AskedStands
  <1>18. QED
    BY <1>13, <1>14, <1>15, <1>17 DEF Orderly

LEMMA TogetherKept ==
    ASSUME ChatKnows, TogetherStands, [ChatNext]_chatVars
    PROVE  TogetherStands'
  <1>1. SUFFICES ASSUME NeverEarly' PROVE Orderly'
    BY DEF TogetherStands
  <1>2. Orderly
    BY <1>1, EarlyStays DEF TogetherStands
  <1>3. ASSUME NEW n \in Sends, HandleSend(n) PROVE Orderly'
    BY <1>1, <1>2, <1>3, SendKeepsOrder
  <1>4. ASSUME NEW n \in Sends, StreamStep(n) PROVE Orderly'
    <2>1. CASE Meta(n)
      BY <1>2, <2>1, MetaKeepsOrder
    <2>2. CASE ~Meta(n)
      BY <1>2, <1>4, <2>2, EventKeepsOrder
    <2>3. QED
      BY <2>1, <2>2
  <1>5. CASE \A n \in Sends : ~HandleSend(n) /\ ~StreamStep(n)
    BY <1>2, <1>5, OthersKeepOrder
  <1>6. QED
    BY <1>3, <1>4, <1>5

LEMMA TogetherShown ==
    ASSUME ChatKnows, TogetherStands
    PROVE  ShownTogetherStoredTogether
  <1>1. SUFFICES ASSUME NeverEarly
                 PROVE  \A x \in stored : \A p \in Rendered.messages :
                            x[1] \in Sends /\ Learned(x[1]) /\ p.send = x[1] => x[2] = p.conv
    BY DEF ShownTogetherStoredTogether, NeverEarly
  <1>2. SUFFICES ASSUME NEW x \in stored, NEW p \in Rendered.messages, x[1] \in Sends,
                        Learned(x[1]), p.send = x[1]
                 PROVE  x[2] = p.conv
    OBVIOUS
  <1>3. x[2] = serving[p.send].conv
    BY <1>2 DEF ChatKnows, StoredKnown
  <1>4. serving[p.send].conv = stream[p.send].conv
    BY <1>2 DEF ChatKnows, ChatInv, ServingFits, ServingFitsAt
  <1>5. x = <<x[1], x[2]>>
    BY DEF ChatKnows, ChatInv, ChatTypes
  <1>6. Alive(p.send)
    BY <1>2, <1>3, <1>4, <1>5 DEF Alive
  <1>7. QED
    BY <1>1, <1>2, <1>3, <1>4, <1>6 DEF TogetherStands, Orderly, AliveShown

-----------------------------------------------------------------------------
(* A visit to the chat page, and the web client.                           *)

ChatStands == ChatKnows /\ RepliesStand /\ TogetherStands

LEMMA StandsStarts == ChatInit => ChatStands
  BY KnowsStarts, RepliesStart, TogetherStarts DEF ChatStands

LEMMA StandsKept == ChatStands /\ [ChatNext]_chatVars => ChatStands'
  BY KnowsStays, RepliesKept, TogetherKept DEF ChatStands

LEMMA StandsShow == ChatStands => ChatInv /\ RepliesArrive /\ ShownTogetherStoredTogether
  BY RepliesShown, TogetherShown DEF ChatStands, ChatKnows

\* A step of the client is one of the chat page, or leaves it alone.
LEMMA ClientIsChat == [WebAppNext]_webVars => [ChatNext]_chatVars
  <1>1. CASE UNCHANGED webVars
    BY <1>1 DEF webVars
  <1>2. CASE visit = "chat" /\ ChatNext /\ OthersStay
    BY <1>2
  <1>3. ASSUME visit # "chat", OthersStay PROVE UNCHANGED chatVars
    BY <1>3 DEF OthersStay
  <1>4. WebAppNext => (visit = "chat" /\ ChatNext /\ OthersStay) \/ (visit # "chat" /\ OthersStay)
    BY DEF WebAppNext
  <1>5. QED
    BY <1>1, <1>2, <1>3, <1>4

LEMMA ChatAlwaysStands == WebAppSpec => []ChatStands
  <1>1. WebAppInit => ChatStands
    BY StandsStarts DEF WebAppInit
  <1>2. ChatStands /\ [WebAppNext]_webVars => ChatStands'
    BY StandsKept, ClientIsChat
  <1>3. QED
    BY <1>1, <1>2, PTL DEF WebAppSpec

(* What is shown is what the page's types say, now and once the queue is   *)
(* rendered; an update waits only for a stream that has been heard of, and *)
(* its meta event only with a name of the server's: no callback of         *)
(* sendMessageSSE runs before the request, or finds it without a           *)
(* conversation.                                                           *)
THEOREM ChatPageTypes == WebAppSpec => []ChatInv
  BY ChatAlwaysStands, StandsShow, PTL

(* A stream that is over leaves its answer beside its question, with the   *)
(* words that came, however its events, the renders and the user's clicks  *)
(* overlap: whatever a rendering of the queue of updates does.             *)
THEOREM RepliesAlwaysArrive == WebAppSpec => []RepliesArrive
  BY ChatAlwaysStands, StandsShow, PTL

(* What is shown in one conversation is stored in one, whatever names the  *)
(* page and the server give it: realConvIdRef never forks a conversation   *)
(* of a user who waits for each exchange to be committed or given up.  An  *)
(* exchange whose stream broke before the meta event came is excepted: the *)
(* page never learns where the server stored it.                           *)
THEOREM ShownIsStoredTogether == WebAppSpec => []ShownTogetherStoredTogether
  BY ChatAlwaysStands, StandsShow, PTL

-----------------------------------------------------------------------------
(* What InputComesBack rests on.  That a render comes and a stream goes on  *)
(* needs the fairness; that the input is never left disabled by a stream    *)
(* that is over needs only the steps.                                       *)

\* Once everything queued is rendered, the input is disabled only while a stream
\* is open.
InputInv == Rendered.isStreaming => \E n \in Sends : Open(n)

\* Only the end of a stream, or its error, changes whether the input is free.
LEMMA AppliedInput ==
    ASSUME NEW p \in Shown, NEW u \in Updates
    PROVE  Applied(p, u).isStreaming = (p.isStreaming /\ u.event \notin {"done", "error"})
  <1>1. CASE u.event = "meta"
    BY <1>1 DEF Applied, OnMeta, Shown
  <1>2. CASE u.event = "chunk"
    BY <1>2 DEF Applied, OnChunk, Updated, Shown
  <1>3. CASE u.event = "done"
    <2> DEFINE q == Updated(p, u.of, {[m EXCEPT !.streaming = FALSE] : m \in Replies(p, u.of)})
    <2>1. DOMAIN q = DOMAIN p
      BY DEF Updated
    <2>2. DOMAIN p = {"conversations", "currentId", "messages", "isStreaming"}
      BY DEF Shown
    <2>3. Applied(p, u) = InputFreed(q)
      BY <1>3 DEF Applied, OnDone
    <2> HIDE DEF q
    <2>4. QED
      BY <1>3, <2>1, <2>2, <2>3 DEF InputFreed
  <1>4. CASE u.event = "error"
    <2> DEFINE q == Updated(p, u.of, {[m EXCEPT !.text = IF @ = "none" THEN "error" ELSE @,
                                               !.streaming = FALSE] : m \in Replies(p, u.of)})
    <2>1. DOMAIN q = DOMAIN p
      BY DEF Updated
    <2>2. DOMAIN p = {"conversations", "currentId", "messages", "isStreaming"}
      BY DEF Shown
    <2>3. Applied(p, u) = InputFreed(q)
      BY <1>4 DEF Applied, OnError
    <2> HIDE DEF q
    <2>4. QED
      BY <1>4, <2>1, <2>2, <2>3 DEF InputFreed
  <1>5. CASE u.event = "loaded"
    BY <1>5 DEF Applied, OnLoaded, Shown
  <1>6. CASE u.event = "listed"
    BY <1>6 DEF Applied, OnListed, Shown
  <1>7. QED
    BY <1>1, <1>2, <1>3, <1>4, <1>5, <1>6, UpdateKinds

LEMMA AppliedInputAlways ==
    \A p \in Shown, u \in Updates :
        Applied(p, u)'.isStreaming = (p.isStreaming /\ u.event \notin {"done", "error"})
  <1> DEFINE Frees == \A p \in Shown, u \in Updates :
        Applied(p, u).isStreaming = (p.isStreaming /\ u.event \notin {"done", "error"})
  <1>1. Frees
    BY AppliedInput
  <1>2. Frees'
    BY <1>1, PTL
  <1>3. QED
    BY <1>2

\* The end of a stream that closes it frees the input.
LEMMA EndFreesInput ==
    ASSUME ChatInv, [ChatNext]_chatVars, NEW n \in Sends, NEW event \in {"done", "error"},
           chat' = chat, Enqueue(event, n)
    PROVE  ~Rendered'.isStreaming
  <1>1. PICK v : v = [event |-> event, of |-> n]
    OBVIOUS
  <1>2. v \in Updates /\ v.event = event
    BY <1>1 DEF Updates, StreamUpdates
  <1>3. queue' = Append(queue, v)
    BY <1>1 DEF Enqueue
  <1>4. PICK p \in Shown : p = Rendered /\ Rendered' = Applied(p, v)'
    BY <1>2, <1>3, QueuedIsApplied
  <1>5. QED
    BY <1>2, <1>4, AppliedInputAlways

\* A step that is none of a stream leaves the input as it is.
LEMMA OthersKeepInput ==
    ASSUME ChatInv, [ChatNext]_chatVars,
           \A n \in Sends : ~HandleSend(n) /\ ~StreamStep(n)
    PROVE  Rendered'.isStreaming = Rendered.isStreaming
  <1> DEFINE Same == Rendered'.isStreaming = Rendered.isStreaming
  <1>1. Rendered \in Shown
    BY DEF ChatInv, ChatTypes
  <1>2. ASSUME NEW p, p.isStreaming = Rendered.isStreaming, Show(p) PROVE Same
    BY <1>2, RenderedEmpty DEF Show
  <1>3. ASSUME UNCHANGED <<chat, queue>> PROVE Same
    BY <1>3, NothingIsApplied
  <1>4. ASSUME NEW v \in Updates, v.event \notin {"done", "error"}, chat' = chat,
               queue' = Append(queue, v)
        PROVE  Same
    <2>1. PICK p \in Shown : p = Rendered /\ Rendered' = Applied(p, v)'
      BY <1>4, QueuedIsApplied
    <2>2. p.isStreaming \in BOOLEAN
      BY DEF Shown
    <2>3. QED
      BY <1>4, <2>1, <2>2, AppliedInputAlways
  <1> HIDE DEF Same
  <1>5. ASSUME Render PROVE Same
    BY <1>2, <1>5 DEF Render, Show
  <1>6. ASSUME HandleNewConversation PROVE Same
    <2> DEFINE p == [Rendered EXCEPT !.conversations = @ \cup {Local(created + 1)},
                                     !.currentId = Local(created + 1)]
    <2>1. Show(p)
      BY <1>6 DEF HandleNewConversation
    <2>2. p.isStreaming = Rendered.isStreaming
      BY <1>1 DEF Shown
    <2> HIDE DEF p
    <2>3. QED
      BY <1>2, <2>1, <2>2
  <1>7. ASSUME NEW c \in ConvIds, HandleSelectConversation(c) PROVE Same
    <2> DEFINE p == [Rendered EXCEPT !.currentId = c]
    <2>1. Show(p)
      BY <1>7 DEF HandleSelectConversation
    <2>2. p.isStreaming = Rendered.isStreaming
      BY <1>1 DEF Shown
    <2> HIDE DEF p
    <2>3. QED
      BY <1>2, <2>1, <2>2
  <1>8. ASSUME NEW c \in ConvIds, HandleDeleteConversation(c) PROVE Same
    BY <1>2, <1>8 DEF HandleDeleteConversation
  <1>9. ASSUME ConfirmDelete PROVE Same
    <2> DEFINE p == [Rendered EXCEPT
                        !.conversations = @ \ {confirm.conv},
                        !.messages = {m \in @ : m.conv # confirm.conv},
                        !.currentId = IF confirm.current = confirm.conv THEN NoConv ELSE @]
    <2>1. Show(p)
      BY <1>9 DEF ConfirmDelete
    <2>2. p.isStreaming = Rendered.isStreaming
      BY <1>1 DEF Shown
    <2> HIDE DEF p
    <2>3. QED
      BY <1>2, <2>1, <2>2
  <1>10. ASSUME CancelDelete \/ ServeListing \/ ListingFails \/ UNCHANGED chatVars PROVE Same
    BY <1>3, <1>10 DEF CancelDelete, ServeListing, ListingFails, chatVars
  <1>11. ASSUME NEW l \in loads, ServeMessages(l) PROVE Same
    BY <1>3, <1>11 DEF ServeMessages
  <1>12. ASSUME HandleListing PROVE Same
    <2>1. UNCHANGED chat /\ listing.convs \subseteq ConvIds
      BY <1>12 DEF HandleListing, ChatInv, ChatTypes
    <2>2. CASE listing.convs = {}
      <3>1. queue' = queue
        BY <1>12, <2>2 DEF HandleListing
      <3>2. QED
        BY <1>3, <2>1, <3>1
    <2>3. CASE listing.convs # {}
      <3>1. PICK v : v = [event |-> "listed", of |-> listing.convs]
        OBVIOUS
      <3>2. v \in Updates /\ v.event = "listed"
        BY <2>1, <3>1 DEF Updates, ListedUpdates
      <3>3. queue' = Append(queue, v)
        BY <1>12, <2>3, <3>1 DEF HandleListing, Enqueue
      <3>4. QED
        BY <1>4, <2>1, <3>2, <3>3
    <2>4. QED
      BY <2>2, <2>3
  <1>13. ASSUME NEW l \in loads, HandleMessages(l) PROVE Same
    <2>1. UNCHANGED chat /\ l.messages \subseteq Messages
      BY <1>13 DEF HandleMessages, ChatInv, ChatTypes
    <2>2. CASE l.messages = {}
      <3>1. queue' = queue
        BY <1>13, <2>2 DEF HandleMessages
      <3>2. QED
        BY <1>3, <2>1, <3>1
    <2>3. CASE l.messages # {}
      <3>1. PICK v : v = [event |-> "loaded", of |-> l.messages]
        OBVIOUS
      <3>2. v \in Updates /\ v.event = "loaded"
        BY <2>1, <3>1 DEF Updates, LoadedUpdates
      <3>3. queue' = Append(queue, v)
        BY <1>13, <2>3, <3>1 DEF HandleMessages, Enqueue
      <3>4. QED
        BY <1>4, <2>1, <3>2, <3>3
    <2>4. QED
      BY <2>2, <2>3
  <1>14. Same
    BY <1>5, <1>6, <1>7, <1>8, <1>9, <1>10, <1>11, <1>12, <1>13 DEF ChatNext
  <1>15. QED
    BY <1>14 DEF Same

LEMMA MetaGoesForward ==
    ASSUME ChatInv, NEW n \in Sends, Meta(n)
    PROVE  /\ stream[n].phase = "sent" /\ stream'[n].phase = "heard"
           /\ stream'[n].worded = stream[n].worded
           /\ serving[n].step = "asked" /\ serving'[n].step = "answering"
  <1>1. PICK conv \in ConvIds, eager \in BOOLEAN : MetaDoes(n, conv, eager)
    BY MetaEffect
  <1>2. stream[n] \in Streams
    BY DEF ChatInv, ChatTypes
  <1>3. QED
    BY <1>1, <1>2 DEF MetaDoes, Streams

LEMMA InputKept == ChatInv /\ InputInv /\ [ChatNext]_chatVars => InputInv'
  <1> SUFFICES ASSUME ChatInv, InputInv, [ChatNext]_chatVars PROVE InputInv'
    OBVIOUS
  <1>1. ASSUME NEW n \in Sends, HandleSend(n) PROVE InputInv'
    <2>1. stream'[n].phase = "sent"
      BY <1>1, SendEffect DEF ChatInv
    <2>2. QED
      BY <2>1 DEF InputInv, Open
  <1>2. ASSUME NEW n \in Sends, StreamStep(n) PROVE InputInv'
    <2>1. chat' = chat /\ stream'[n].phase \notin {"unsent", "sent"}
            /\ stream'[n].phase \in Phases
      BY <1>2, StreamStepEffect DEF Streams
    <2>2. CASE stream'[n].phase # "over"
      BY <2>1, <2>2 DEF InputInv, Open, Phases
    <2>3. CASE EndOfStream(n)
      <3>1. Enqueue("done", n)
        BY <2>3 DEF EndOfStream
      <3>2. QED
        BY <2>1, <3>1, EndFreesInput DEF InputInv
    <2>4. CASE StreamBreaks(n)
      <3>1. Enqueue("error", n)
        BY <2>4 DEF StreamBreaks
      <3>2. QED
        BY <2>1, <3>1, EndFreesInput DEF InputInv
    <2>5. CASE MetaUnheard(n) \/ Commit(n)
      <3>1. UNCHANGED <<chat, queue>> /\ stream' = stream
        BY <2>5, UnheardDoes
      <3>2. Rendered' = Rendered
        BY <3>1, NothingIsApplied
      <3>3. QED
        BY <3>1, <3>2 DEF InputInv, Open
    <2>6. stream'[n].phase = "over" /\ ~MetaUnheard(n) /\ ~Commit(n) =>
              EndOfStream(n) \/ StreamBreaks(n)
      <3>1. Meta(n) => stream'[n].phase = "heard"
        BY MetaGoesForward
      <3>2. ASSUME Chunk(n) PROVE stream'[n].phase = "heard"
        <4>1. stream'[n] = [stream[n] EXCEPT !.worded = TRUE] /\ stream[n].phase = "heard"
          BY <3>2, ChunkDoes
        <4>2. stream[n] \in Streams
          BY DEF ChatInv, ChatTypes
        <4>3. QED
          BY <4>1, <4>2 DEF Streams
      <3>3. ErrorEvent(n) \/ DoneEvent(n) => stream'[n].phase = "heard"
        <4>1. stream \in [Sends -> Streams]
          BY DEF ChatInv, ChatTypes
        <4>2. ASSUME NEW event, Hear(n, event) PROVE stream'[n].phase = "heard"
          <5>1. stream'[n] = [stream[n] EXCEPT !.phase = "heard"]
            BY <4>1, <4>2 DEF Hear
          <5>2. QED
            BY <4>1, <5>1 DEF Streams
        <4>3. QED
          BY <4>2 DEF ErrorEvent, DoneEvent
      <3>4. QED
        BY <1>2, <3>1, <3>2, <3>3 DEF StreamStep
    <2>7. QED
      BY <2>2, <2>3, <2>4, <2>5, <2>6
  <1>3. CASE \A n \in Sends : ~HandleSend(n) /\ ~StreamStep(n)
    <2>1. Rendered'.isStreaming = Rendered.isStreaming
      BY <1>3, OthersKeepInput
    <2>2. stream' = stream
      BY <1>3, StreamChanges
    <2>3. QED
      BY <2>1, <2>2 DEF InputInv, Open
  <1>4. QED
    BY <1>1, <1>2, <1>3

LEMMA InputStarts == ChatInit => InputInv
  BY RenderedEmpty DEF ChatInit, InputInv

\* The steps that question n still has before it, at most: the server's, the end of
\* the stream and its words.
ServerSteps(n) == CASE serving[n].step = "asked"     -> 5
                    [] serving[n].step = "answering" -> 4
                    [] serving[n].step = "failing"   -> 3
                    [] serving[n].step = "saving"    -> 2
                    [] serving[n].step = "ending"    -> 1
                    [] OTHER                         -> 0

StepsLeft(n) == ServerSteps(n) + (IF Open(n) THEN 1 ELSE 0)
                               + (IF stream[n].worded THEN 0 ELSE 1)

Asked(n) == stream[n].phase # "unsent"
Moves(n) == <<stream[n], serving[n]>>' # <<stream[n], serving[n]>>

LEMMA QuestionGoesForward ==
    ASSUME ChatInv, [ChatNext]_chatVars, NEW n \in Sends, Asked(n), Moves(n)
    PROVE  StepsLeft(n)' < StepsLeft(n)
  <1>1. stream[n] \in Streams /\ stream \in [Sends -> Streams]
    BY DEF ChatInv, ChatTypes
  <1>2. StreamStep(n)
    <2>1. ASSUME NEW k \in Sends, HandleSend(k) PROVE FALSE
      <3>1. /\ stream[k].phase = "unsent"
            /\ \A j \in Sends : j # k => stream'[j] = stream[j] /\ serving'[j] = serving[j]
        BY <2>1, SendEffect DEF ChatInv
      <3>2. QED
        BY <3>1 DEF Asked, Moves
    <2>2. ASSUME NEW k \in Sends, StreamStep(k) PROVE k = n
      BY <2>2, StreamStepEffect DEF Moves
    <2>3. QED
      BY <2>1, <2>2, StreamChanges DEF Moves
  <1>3. CASE Meta(n)
    <2>1. /\ stream[n].phase = "sent" /\ stream'[n].phase = "heard"
          /\ stream'[n].worded = stream[n].worded
          /\ serving[n].step = "asked" /\ serving'[n].step = "answering"
      BY <1>3, MetaGoesForward
    <2>2. ServerSteps(n) = 5 /\ ServerSteps(n)' = 4 /\ Open(n) /\ Open(n)'
      BY <2>1 DEF ServerSteps, Open
    <2>3. QED
      BY <2>1, <2>2 DEF StepsLeft
  <1>4. CASE Chunk(n)
    <2>1. /\ serving' = serving /\ stream[n].phase = "heard" /\ ~stream[n].worded
          /\ serving[n].step = "answering"
          /\ stream'[n] = [stream[n] EXCEPT !.worded = TRUE] /\ stream'[n].worded
      BY <1>4, ChunkDoes
    <2>2. stream'[n].phase = "heard"
      BY <1>1, <2>1 DEF Streams
    <2>3. ServerSteps(n) = 4 /\ ServerSteps(n)' = 4 /\ Open(n) /\ Open(n)'
      BY <2>1, <2>2 DEF ServerSteps, Open
    <2>4. QED
      BY <2>1, <2>3 DEF StepsLeft
  <1>5. CASE MetaUnheard(n) \/ Commit(n)
    <2>1. /\ stream' = stream
          /\ \/ serving[n].step = "asked" /\ serving'[n].step = "ending"
             \/ serving[n].step \in {"asked", "ending"} /\ serving'[n].step = "over"
      BY <1>5, UnheardDoes DEF StepIs
    <2>2. ServerSteps(n)' < ServerSteps(n) /\ ServerSteps(n) \in Nat /\ ServerSteps(n)' \in Nat
      BY <2>1 DEF ServerSteps
    <2>3. Open(n)' = Open(n)
      BY <2>1 DEF Open
    <2>4. QED
      BY <2>1, <2>2, <2>3 DEF StepsLeft
  <1>6. CASE ~Meta(n) /\ ~Chunk(n) /\ ~MetaUnheard(n) /\ ~Commit(n)
    <2>1. PICK phase \in {"heard", "over"}, step \in Steps :
              /\ PhaseIs(n, phase) /\ StepIs(n, step)
              /\ \/ /\ phase = "heard"
                    /\ \/ serving[n].step \in {"asked", "answering", "saving"}
                             /\ step = "ending"
                       \/ serving[n].step = "answering" /\ step = "failing"
                       \/ serving[n].step \in {"answering", "failing"} /\ step = "saving"
                 \/ /\ phase = "over"
                    /\ \/ serving[n].step \in {"answering", "failing", "saving", "ending"}
                             /\ step = "ending"
                       \/ serving[n].step = "asked" /\ step = "asked"
      BY <1>2, <1>6, HeardDoes
    <2>2. Open(n)
      BY <1>2, <1>6, HeardDoes DEF Open
    <2>3. stream'[n].worded = stream[n].worded
      BY <2>1 DEF PhaseIs
    <2>4. CASE phase = "heard"
      <3>1. Open(n)' /\ ServerSteps(n)' < ServerSteps(n)
              /\ ServerSteps(n) \in Nat /\ ServerSteps(n)' \in Nat
        BY <2>1, <2>4 DEF Open, ServerSteps, PhaseIs, StepIs
      <3>2. QED
        BY <2>2, <2>3, <3>1 DEF StepsLeft
    <2>5. CASE phase = "over"
      <3>1. ~Open(n)' /\ ServerSteps(n)' <= ServerSteps(n)
              /\ ServerSteps(n) \in Nat /\ ServerSteps(n)' \in Nat
        BY <2>1, <2>5 DEF Open, ServerSteps, PhaseIs, StepIs
      <3>2. QED
        BY <2>2, <2>3, <3>1 DEF StepsLeft
    <2>6. QED
      BY <2>1, <2>4, <2>5
  <1>7. QED
    BY <1>3, <1>4, <1>5, <1>6

(* The input bar is never left disabled: once the queue is rendered, a      *)
(* stream is open if it is, whatever overlaps and breaks off; and neither   *)
(* the stream of a question nor the server goes round with it: each step    *)
(* of either leaves them fewer.                                             *)
THEOREM InputIsLent ==
    WebAppSpec => /\ []InputInv
                  /\ [][\A n \in Sends : Asked(n) /\ Moves(n)
                          => StepsLeft(n)' < StepsLeft(n)]_chatVars
  <1>1. WebAppInit => InputInv
    BY InputStarts DEF WebAppInit
  <1>2. ChatInv /\ InputInv /\ [WebAppNext]_webVars => InputInv'
    BY InputKept, ClientIsChat
  <1>3. ChatInv /\ [WebAppNext]_webVars =>
          [\A n \in Sends : Asked(n) /\ Moves(n) => StepsLeft(n)' < StepsLeft(n)]_chatVars
    BY QuestionGoesForward, ClientIsChat
  <1>4. QED
    BY <1>1, <1>2, <1>3, ChatPageTypes, PTL DEF WebAppSpec

===============================================================================
