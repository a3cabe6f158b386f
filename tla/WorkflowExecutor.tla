---------------------------- MODULE WorkflowExecutor ----------------------------
(***************************************************************************)
(* The execution of a stored workflow (services/workflow_executor.py): a   *)
(* queue of node ids, and the nodes visited.  A parallel node executes the *)
(* targets of its edges itself, a loop node the first one marked so; their *)
(* results go into its output, errors too, and the traversal comes to the  *)
(* same targets again.                                                     *)
(*                                                                         *)
(* A node is its position in the workflow's list; edges may come from and  *)
(* lead to ids that no node has.  Of its type is kept what becomes of it: a "plain" *)
(* node succeeds, one of a type nobody knows is an "error", a "condition"  *)
(* takes some of its edges.  Which ones the conditions on the edges decide *)
(* with the text of the outputs, which is left out: they may be any.  As   *)
(* nothing asks for a node's type before it is executed, it is chosen      *)
(* then.  Two edges from one node to another are one.  MaxIterations       *)
(* bounds a loop.                                                          *)
(***************************************************************************)
EXTENDS Naturals, FiniteSets, SequencesExt

CONSTANTS
    MaxNodes,      \* bound: nodes of a workflow
    MaxIterations  \* bound: max_iterations of a loop

ASSUME WorkflowExecutorAssumption == MaxNodes \in Nat \ {0} /\ MaxIterations \in Nat

VARIABLES
    kinds,     \* the workflow's nodes, and the types of those executed
    edges,     \* its edges
    queue,     \* the ids the traversal has to visit, or did meanwhile
    visited,
    steps,     \* the results so far: the ids of the nodes
    status,    \* "running", "completed" or "error"
    taken,     \* history: the edges that were followed
    executed   \* history: how often each node was, by whomever

executorVars == <<kinds, edges, queue, visited, steps, status, taken, executed>>

Ids == 1..MaxNodes
Nodes == DOMAIN kinds
Kinds == {"plain", "condition", "parallel", "loop", "error"}
TargetsOf(n) == {t \in Ids : <<n, t>> \in edges}

WorkflowExecutorTypeOK ==
    /\ kinds \in BoundedSeq(Kinds \cup {"not executed"}, MaxNodes)
    /\ edges \subseteq Ids \X Ids /\ taken \subseteq edges
    /\ \A n \in ToSet(queue) \cup visited : n \in Ids
    /\ ToSet(steps) \subseteq Nodes
    /\ status \in {"running", "completed", "error"}
    /\ executed \in [Ids -> Nat]
-----------------------------------------------------------------------------
\* _find_start_nodes: those no edge leads to, or else the first one.
StartNodes ==
    LET free == {n \in Nodes : \A m \in Ids : n \notin TargetsOf(m)}
    IN  IF free # {} THEN free ELSE Nodes \cap {1}

\* How often node n, of a kind, may execute each of the others itself.
Itself(n, kind) ==
    LET inside == TargetsOf(n) \cap Nodes
        Only(S, i) == [t \in Ids |-> IF t \in S THEN i ELSE 0]
    IN  CASE kind = "parallel" -> {Only(inside, 1)}
          [] kind = "loop" /\ inside # {} ->
               {Only({body}, i) : body \in inside, i \in 0..MaxIterations}
          [] OTHER -> {Only({}, 0)}

\* Mutant of Visit: only ids of no node are marked.
VisitNobody(id) == visited' = visited \cup ({id} \ Nodes)

Visit(id) == visited' = visited \cup {id}
-----------------------------------------------------------------------------
\* The queue is empty.
Finish ==
    /\ status = "running"
    /\ queue = <<>>
    /\ status' = "completed"
    /\ UNCHANGED <<kinds, edges, queue, visited, steps, taken, executed>>

\* The next id was visited before, or no node has it.
Skip ==
    /\ status = "running"
    /\ queue # <<>>
    /\ Head(queue) \in visited \/ Head(queue) \notin Nodes
    /\ queue' = Tail(queue)
    /\ Visit(Head(queue))
    /\ UNCHANGED <<kinds, edges, steps, status, taken, executed>>

Execute(n, kind) ==
    /\ status = "running"
    /\ queue # <<>>
    /\ n = Head(queue)
    /\ n \in Nodes \ visited
    /\ kinds' = [kinds EXCEPT ![n] = kind]
    /\ steps' = Append(steps, n)
    /\ Visit(n)
    /\ \E times \in Itself(n, kind) :
         executed' = [t \in Ids |-> executed[t] + times[t] + (IF t = n THEN 1 ELSE 0)]
    /\ UNCHANGED edges

\* _execute_node fails, and the workflow with it.
ExecuteFails(n) ==
    /\ Execute(n, "error")
    /\ status' = "error"
    /\ queue' = Tail(queue)
    /\ UNCHANGED taken

\* It succeeds, and the targets not visited yet are queued, in the edges' order.
ExecuteSucceeds(n, kind) ==
    /\ kind # "error"
    /\ Execute(n, kind)
    /\ \E to \in IF kind = "condition" THEN SUBSET TargetsOf(n) ELSE {TargetsOf(n)} :
         /\ taken' = taken \cup ({n} \X to)
         /\ \E next \in SetToSeqs(to \ visited') : queue' = Tail(queue) \o next
    /\ UNCHANGED status
-----------------------------------------------------------------------------
\* Any workflow of up to MaxNodes nodes.
WorkflowExecutorInit ==
    /\ \E n \in 0..MaxNodes : kinds = [i \in 1..n |-> "not executed"]
    /\ edges \in SUBSET (Ids \X Ids)
    /\ queue \in {s \in SetToSeqs(StartNodes) : \A i, j \in DOMAIN s : i < j => s[i] < s[j]}
    /\ visited = {} /\ steps = <<>> /\ taken = {}
    /\ executed = [n \in Ids |-> 0]
    /\ status = "running"

WorkflowExecutorNext ==
    \/ Finish \/ Skip
    \/ \E n \in Nodes : ExecuteFails(n) \/ \E kind \in Kinds : ExecuteSucceeds(n, kind)
-----------------------------------------------------------------------------
\* S has the start nodes and what the edges that were followed lead to.
Reached(S) == StartNodes \subseteq S /\ \A e \in taken : e[1] \in S => e[2] \in S

(* A workflow that completes has executed what its edges lead to, cycles,   *)
(* forks and edges to nowhere included: every node that can be reached over *)
(* edges that were followed, none else, and each once in the traversal.     *)
(* None of these steps failed; when one fails it is the last.  A target of  *)
(* a parallel node is executed by that node as well, so once more for every *)
(* such node, and that of a loop as often as it goes round.                 *)
RunsWhatIsReached ==
    LET done == ToSet(steps)
        From(n, kind) == {m \in done : kinds[m] = kind /\ n \in TargetsOf(m)}
    IN  /\ IsInjective(steps)
        /\ \A i \in DOMAIN steps :
             kinds[steps[i]] = "error" <=> status = "error" /\ i = Len(steps)
        /\ status = "completed" =>
             /\ Reached(visited)
             /\ \A S \in SUBSET visited : Reached(S) => S = visited
             /\ done = visited \cap Nodes
             /\ \A n \in done :
                  LET before == 1 + Cardinality(From(n, "parallel"))
                  IN  /\ executed[n] >= before
                      /\ executed[n] <= before + MaxIterations * Cardinality(From(n, "loop"))
===============================================================================
