----------------------- MODULE KnowledgeIngestionProofs ----------------------
(***************************************************************************)
(* Theorems about KnowledgeIngestion, for any number of documents and of   *)
(* deletions.                                                              *)
(*                                                                         *)
(* The invariant says how far an ingestion can be from what its document's *)
(* row says, and what a deletion that listed the chunks knows: that the    *)
(* ingestion is over for good, so that the vectors it had deleted cannot   *)
(* come back.                                                              *)
(***************************************************************************)
EXTENDS KnowledgeIngestion, TLAPS

\* While a document's row is locked it says "processing", and a document that
\* is being ingested is not ready.
JobInv ==
    \A d \in Docs :
        /\ Locked(d) => status[d] = "processing"
        /\ job[d] # "none" => status[d] \in {"processing", "deleted"}
        /\ job[d] = "inserted" => d \in vectors /\ d \notin Blank
        /\ d \in rows => status[d] = "ready"
        /\ status[d] = "ready" /\ d \notin Blank => d \in rows
        /\ status[d] = "ready" /\ d \notin Blank /\ d \notin asked => d \in vectors

\* What a deletion knows of its document.
RequestInv ==
    \A r \in Requests :
        /\ request[r] # Idle /\ request[r].kind = "document" => request[r].doc \in asked
        /\ request[r] # Idle /\ request[r].step = "purged" /\ request[r].listed =>
             /\ request[r].doc \notin vectors
             /\ job[request[r].doc] = "none"
             /\ status[request[r].doc] # "absent"

IngestionInv == TypeOK /\ JobInv /\ RequestInv

LEMMA InitIngestionInv == Init => IngestionInv
BY DEF Init, IngestionInv, TypeOK, JobInv, RequestInv, Statuses, Jobs, Deletions, Idle, Locked

LEMMA NextIngestionInv == IngestionInv /\ [Next]_vars => IngestionInv'
<1> SUFFICES ASSUME IngestionInv, [Next]_vars
             PROVE  IngestionInv'
  OBVIOUS
<1> USE DEF IngestionInv, TypeOK, Statuses, Jobs
<1>1. ASSUME NEW d \in Docs, UploadDocument(d)
      PROVE  IngestionInv'
  BY <1>1 DEF UploadDocument, JobInv, RequestInv, Locked
<1>2. ASSUME NEW d \in Docs, StartIngestion(d)
      PROVE  IngestionInv'
  <2>1. CASE Present(d)
    <3>1. job' = [job EXCEPT ![d] = "working"]
      BY <1>2, <2>1 DEF StartIngestion
    <3>2. status[d] = "processing"
      BY <1>2, <2>1 DEF StartIngestion, JobInv, Present
    <3> QED
      BY <1>2, <3>1, <3>2 DEF StartIngestion, JobInv, RequestInv, Locked
  <2>2. CASE ~Present(d)
    <3>1. CASE base /\ d \in Blank
      <4>1. job' = [job EXCEPT ![d] = "none"]
        BY <1>2, <2>2, <3>1 DEF StartIngestion
      <4> QED
        BY <1>2, <4>1 DEF StartIngestion, JobInv, RequestInv, Locked
    <3>2. CASE ~(base /\ d \in Blank)
      <4>1. job' = [job EXCEPT ![d] = "failing"]
        BY <1>2, <2>2, <3>2 DEF StartIngestion
      <4> QED
        BY <1>2, <4>1 DEF StartIngestion, JobInv, RequestInv, Locked
    <3> QED
      BY <3>1, <3>2
  <2> QED
    BY <2>1, <2>2
<1>3. ASSUME NEW d \in Docs, FinishBlank(d)
      PROVE  IngestionInv'
  BY <1>3 DEF FinishBlank, JobInv, RequestInv, Locked
<1>4. ASSUME NEW d \in Docs, InsertVectors(d)
      PROVE  IngestionInv'
  BY <1>4 DEF InsertVectors, JobInv, RequestInv, Locked
<1>5. ASSUME NEW d \in Docs, CommitIngestion(d)
      PROVE  IngestionInv'
  BY <1>5 DEF CommitIngestion, JobInv, RequestInv, Locked
<1>6. ASSUME NEW d \in Docs, FailIngestion(d)
      PROVE  IngestionInv'
  BY <1>6 DEF FailIngestion, JobInv, RequestInv, Locked
<1>7. ASSUME NEW d \in Docs, RecordError(d)
      PROVE  IngestionInv'
  <2>1. CASE status' = status
    BY <1>7, <2>1 DEF RecordError, JobInv, RequestInv, Locked
  <2>2. CASE Present(d) /\ status' = [status EXCEPT ![d] = "error"]
    BY <1>7, <2>2 DEF RecordError, JobInv, RequestInv, Locked, Present
  <2>3. \/ status' = status
        \/ Present(d) /\ status' = [status EXCEPT ![d] = "error"]
    <3> DEFINE new == IF Present(d) THEN "error" ELSE status[d]
    <3>1. status' = status \/ status' = [status EXCEPT ![d] = new]
      BY <1>7 DEF RecordError
    <3>2. Present(d) => new = "error"
      OBVIOUS
    <3>3. ~Present(d) => new = status[d]
      OBVIOUS
    <3> HIDE DEF new
    <3>4. [status EXCEPT ![d] = status[d]] = status
      OBVIOUS
    <3>5. CASE Present(d)
      BY <3>1, <3>2, <3>5 DEF Present
    <3>6. CASE ~Present(d)
      BY <3>1, <3>3, <3>4, <3>6 DEF Present
    <3> QED
      BY <3>5, <3>6
  <2> QED
    BY <2>1, <2>2, <2>3
<1>8. ASSUME NEW r \in Requests, NEW d \in Docs, DeleteDocument(r, d)
      PROVE  IngestionInv'
  BY <1>8 DEF DeleteDocument, JobInv, RequestInv, Locked, Deletions, Idle
<1>9. ASSUME NEW r \in Requests, DeleteVectors(r)
      PROVE  IngestionInv'
  <2> DEFINE d == request[r].doc
             new == [step |-> "purged", kind |-> "document", doc |-> d,
                     listed |-> d \in rows]
  <2>1. d \in Docs /\ d \in asked
    BY <1>9 DEF DeleteVectors, RequestInv, Deletions, Idle
  <2>2. /\ new \in Deletions /\ new # Idle
        /\ new.kind = "document" /\ new.doc = d
        /\ new.listed => d \in rows
    <3>1. new.step = "purged" /\ new.kind = "document" /\ new.doc = d /\ new.listed = (d \in rows)
      OBVIOUS
    <3>2. new \in [step : {"purged"}, kind : {"document"}, doc : Docs, listed : BOOLEAN]
      BY <2>1
    <3>3. new # Idle
      BY <3>1 DEF Idle
    <3> QED
      BY <3>1, <3>2, <3>3 DEF Deletions
  <2>3. request' = [request EXCEPT ![r] = new]
    BY <1>9 DEF DeleteVectors
  <2>4. vectors' = IF d \in rows THEN vectors \ {d} ELSE vectors
    BY <1>9 DEF DeleteVectors
  <2>5. UNCHANGED <<base, status, rows, job, lost, asked>>
    BY <1>9 DEF DeleteVectors
  <2> HIDE DEF d, new
  <2>6. TypeOK'
    BY <2>2, <2>3, <2>4, <2>5
  <2>7. JobInv'
    BY <2>1, <2>4, <2>5 DEF JobInv, Locked
  <2>8. ASSUME NEW q \in Requests
        PROVE  /\ request'[q] # Idle /\ request'[q].kind = "document"
                    => request'[q].doc \in asked'
               /\ request'[q] # Idle /\ request'[q].step = "purged" /\ request'[q].listed
                    => /\ request'[q].doc \notin vectors'
                       /\ job'[request'[q].doc] = "none"
                       /\ status'[request'[q].doc] # "absent"
    <3>1. CASE q = r
      <4>1. request'[q] = new
        BY <2>3, <3>1
      <4>2. d \in rows => job[d] = "none" /\ status[d] = "ready" /\ d \notin vectors'
        BY <2>1, <2>4 DEF JobInv
      <4> QED
        BY <4>1, <4>2, <2>1, <2>2, <2>5
    <3>2. CASE q # r
      BY <2>3, <2>4, <2>5, <3>2 DEF RequestInv
    <3> QED
      BY <3>1, <3>2
  <2> QED
    BY <2>6, <2>7, <2>8 DEF RequestInv
<1>10. ASSUME NEW r \in Requests, DeleteRows(r)
       PROVE  IngestionInv'
  BY <1>10 DEF DeleteRows, JobInv, RequestInv, Locked, Deletions, Idle
<1>11. ASSUME NEW r \in Requests, DeleteKnowledgeBase(r)
       PROVE  IngestionInv'
  BY <1>11 DEF DeleteKnowledgeBase, JobInv, RequestInv, Locked, Deletions, Idle
<1>12. ASSUME NEW r \in Requests, DeleteBaseRows(r)
       PROVE  IngestionInv'
  BY <1>12 DEF DeleteBaseRows, JobInv, RequestInv, Locked, Deletions, Idle, Present
<1>13. ASSUME NEW r \in Requests, FailDeletion(r)
       PROVE  IngestionInv'
  BY <1>13 DEF FailDeletion, JobInv, RequestInv, Locked, Deletions, Idle
<1>14. CASE Crash
  BY <1>14 DEF Crash, JobInv, RequestInv, Locked, Deletions, Idle
<1>15. CASE UNCHANGED vars
  BY <1>15 DEF vars, JobInv, RequestInv, Locked
<1> QED
  BY <1>1, <1>2, <1>3, <1>4, <1>5, <1>6, <1>7, <1>8, <1>9, <1>10, <1>11, <1>12, <1>13,
     <1>14, <1>15 DEF Next, Ingest, Delete

\* The inductive invariant of ingestions and deletions.
THEOREM IngestionInvariant == Spec => []IngestionInv
<1>1. Init => IngestionInv
  BY InitIngestionInv
<1>2. IngestionInv /\ [Next]_vars => IngestionInv'
  BY NextIngestionInv
<1> QED
  BY <1>1, <1>2, PTL DEF Spec

\* Type correctness.
THEOREM IngestionTypeCorrect == Spec => []TypeOK
<1>1. IngestionInv => TypeOK
  BY DEF IngestionInv
<1> QED
  BY <1>1, IngestionInvariant, PTL

\* The status of a document is true in both stores, for any interleaving of
\* ingestions, deletions and crashes.
THEOREM ReadyIsSearchable == Spec => []StatusIsTrue
<1>1. IngestionInv => StatusIsTrue
  BY DEF IngestionInv, JobInv, StatusIsTrue
<1> QED
  BY <1>1, IngestionInvariant, PTL

\* The vectors a deletion had deleted do not come back before it ends.
THEOREM PurgesLast == Spec => []PurgedStaysPurged
<1>1. IngestionInv => PurgedStaysPurged
  BY DEF IngestionInv, RequestInv, PurgedStaysPurged
<1> QED
  BY <1>1, IngestionInvariant, PTL

-----------------------------------------------------------------------------
(* What DocumentsSettle rests on, for any number of documents and deletions. *)
(* That a job goes on at all needs the fairness.                             *)

\* How far a job is from its end.
Ahead(step) == CASE step = "queued"   -> 4
                 [] step = "working"  -> 3
                 [] step = "inserted" -> 2
                 [] step = "failing"  -> 1
                 [] OTHER             -> 0

\* A document that says "processing" has a job that is still to tell its outcome,
\* unless that was lost; a job that has begun is not begun again and goes forward
\* with every step.
IngestionGoesOn ==
    /\ []\A d \in Docs : status[d] = "processing" => job[d] # "none" \/ d \in lost
    /\ [][\A d \in Docs : job[d] # "none" /\ job'[d] # job[d] => Ahead(job'[d]) < Ahead(job[d])]_vars

\* Nobody's row says "processing" for a job that is over and lost nothing.
ProcessingInv == \A d \in Docs : status[d] = "processing" => job[d] # "none" \/ d \in lost

LEMMA NextProcessingInv ==
    IngestionInv /\ ProcessingInv /\ [Next]_vars => ProcessingInv'
<1> SUFFICES ASSUME IngestionInv, ProcessingInv, [Next]_vars
             PROVE  ProcessingInv'
  OBVIOUS
<1> USE DEF IngestionInv, TypeOK, Statuses, Jobs, ProcessingInv
<1>1. ASSUME NEW d \in Docs, UploadDocument(d)
      PROVE  ProcessingInv'
  BY <1>1 DEF UploadDocument
<1>2. ASSUME NEW d \in Docs, StartIngestion(d)
      PROVE  ProcessingInv'
  <2>1. /\ UNCHANGED <<status, lost>>
        /\ \A e \in Docs \ {d} : job'[e] = job[e]
        /\ Present(d) => job'[d] = "working"
    BY <1>2 DEF StartIngestion
  <2>. QED
    BY <2>1 DEF Present
<1>3. ASSUME NEW d \in Docs, FinishBlank(d) \/ CommitIngestion(d)
      PROVE  ProcessingInv'
  BY <1>3 DEF FinishBlank, CommitIngestion
<1>4. ASSUME NEW d \in Docs, InsertVectors(d) \/ FailIngestion(d)
      PROVE  ProcessingInv'
  BY <1>4 DEF InsertVectors, FailIngestion
<1>5. ASSUME NEW d \in Docs, RecordError(d)
      PROVE  ProcessingInv'
  BY <1>5 DEF RecordError, Present
<1>6. ASSUME NEW r \in Requests,
             \/ \E d \in Docs : DeleteDocument(r, d)
             \/ DeleteVectors(r) \/ DeleteKnowledgeBase(r) \/ FailDeletion(r)
      PROVE  ProcessingInv'
  BY <1>6 DEF DeleteDocument, DeleteVectors, DeleteKnowledgeBase, FailDeletion
<1>7. ASSUME NEW r \in Requests, DeleteRows(r) \/ DeleteBaseRows(r)
      PROVE  ProcessingInv'
  <2>1. UNCHANGED <<job, lost>> /\ \A d \in Docs : status'[d] \in {status[d], "deleted"}
    BY <1>7 DEF DeleteRows, DeleteBaseRows
  <2>. QED
    BY <2>1
<1>8. CASE Crash \/ UNCHANGED vars
  BY <1>8 DEF Crash, vars
<1>. QED
  BY <1>1, <1>2, <1>3, <1>4, <1>5, <1>6, <1>7, <1>8 DEF Next, Ingest, Delete

LEMMA NextJob ==
    ASSUME IngestionInv, [Next]_vars, NEW d \in Docs, job[d] # "none", job'[d] # job[d]
    PROVE  Ahead(job'[d]) < Ahead(job[d])
<1> USE DEF IngestionInv, TypeOK, Jobs, Ahead
<1>1. job[d] \in {"queued", "working", "inserted", "failing"}
  OBVIOUS
<1>2. CASE StartIngestion(d)
  <2>1. job[d] = "queued" /\ job'[d] \in {"working", "none", "failing"}
    BY <1>2 DEF StartIngestion
  <2>. QED
    BY <2>1
<1>3. CASE InsertVectors(d)
  BY <1>3 DEF InsertVectors
<1>4. CASE FailIngestion(d)
  BY <1>4 DEF FailIngestion
<1>5. CASE FinishBlank(d) \/ CommitIngestion(d) \/ RecordError(d) \/ Crash
  <2>1. job'[d] = "none"
    BY <1>5 DEF FinishBlank, CommitIngestion, RecordError, Crash
  <2>. QED
    BY <1>1, <2>1
<1>6. ASSUME NEW e \in Docs, Ingest(e)
      PROVE  e = d
  BY <1>6 DEF Ingest, StartIngestion, InsertVectors, FailIngestion, FinishBlank,
              CommitIngestion, RecordError
<1>7. ASSUME NEW e \in Docs PROVE ~UploadDocument(e)
  <2>1. status[d] # "absent"
    BY DEF JobInv
  <2>. QED
    BY <2>1 DEF UploadDocument
<1>8. ASSUME NEW r \in Requests
      PROVE  /\ \A e \in Docs : ~DeleteDocument(r, e)
             /\ ~DeleteKnowledgeBase(r) /\ ~Delete(r)
  BY DEF DeleteDocument, DeleteKnowledgeBase, Delete, DeleteVectors, DeleteRows,
         DeleteBaseRows, FailDeletion
<1>. QED
  BY <1>2, <1>3, <1>4, <1>5, <1>6, <1>7, <1>8 DEF Next, Ingest, vars

\* No document is left saying "processing" by a job that ends, and no job goes
\* round: each has at most four steps, whatever is deleted meanwhile.
THEOREM JobsRunOut == Spec => IngestionGoesOn
<1>1. Init => ProcessingInv
  BY DEF Init, ProcessingInv
<1>2. IngestionInv /\ [Next]_vars =>
        [\A d \in Docs : job[d] # "none" /\ job'[d] # job[d]
                           => Ahead(job'[d]) < Ahead(job[d])]_vars
  BY NextJob
<1>3. Spec => []ProcessingInv
  BY <1>1, IngestionInvariant, NextProcessingInv, PTL DEF Spec
<1>. QED
  BY <1>2, <1>3, IngestionInvariant, PTL DEF Spec, IngestionGoesOn, ProcessingInv

=============================================================================
