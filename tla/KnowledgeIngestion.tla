-------------------------- MODULE KnowledgeIngestion -------------------------
(***************************************************************************)
(* The documents of one knowledge base in its two stores: rag/engine.py    *)
(* behind the endpoints of api/v1/knowledge.py.  PostgreSQL keeps the      *)
(* documents and the text of their chunks, Milvus the vectors a search     *)
(* starts from.  PostgreSQL's part of an operation appears with its COMMIT *)
(* or not at all; what Milvus was told to do it has done.                  *)
(*                                                                         *)
(* An ingestion is one transaction that updates the document's row first   *)
(* and so holds its lock to the end.  A deletion needs that lock only for  *)
(* its last statements, long after it listed the chunks.  Chunk rows go    *)
(* with their document, and documents with their base (ON DELETE CASCADE). *)
(*                                                                         *)
(* The chunks of a document come and go together, so that both stores are  *)
(* sets of documents.  Left out: object storage, whose failures are        *)
(* swallowed, the text of chunks, and the temporary file.                  *)
(***************************************************************************)
EXTENDS Naturals

CONSTANTS
    Docs,     \* uploads to the base
    Blank,    \* those that have no text
    Requests  \* DELETE requests worked on at a time

ASSUME IngestionAssumption == Blank \subseteq Docs

VARIABLES
    base,     \* whether the knowledge base's row is committed
    status,   \* the committed status of each document's row
    rows,     \* documents with committed chunk rows
    vectors,  \* documents with vectors in Milvus
    job,      \* the background ingestion of each document
    request,  \* the DELETE requests
    lost,     \* history: ingestions that ended without telling their outcome
    asked     \* history: documents whose deletion was asked for

vars == <<base, status, rows, vectors, job, request, lost, asked>>

\* "absent": not uploaded yet; "deleted": no longer there.
Statuses == {"absent", "processing", "ready", "error", "deleted"}
Present(d) == status[d] \in {"processing", "ready", "error"}

\* "working": the row is updated and locked; "inserted": the vectors, too, are
\* in Milvus; "failing": rolled back, and the error is yet to be recorded.
Jobs == {"none", "queued", "working", "inserted", "failing"}

\* "loaded": the document, or the base, was found; "purged": the chunks that
\* were listed, if any, are deleted from Milvus.
Idle == [step |-> "idle"]
Deletions ==
    {Idle} \cup [step : {"loaded"}, kind : {"document"}, doc : Docs]
           \cup [step : {"purged"}, kind : {"document"}, doc : Docs, listed : BOOLEAN]
           \cup [step : {"loaded"}, kind : {"base"}]

TypeOK ==
    /\ base \in BOOLEAN
    /\ status \in [Docs -> Statuses]
    /\ rows \subseteq Docs
    /\ vectors \subseteq Docs
    /\ job \in [Docs -> Jobs]
    /\ request \in [Requests -> Deletions]
    /\ lost \subseteq Docs
    /\ asked \subseteq Docs

Init ==
    /\ base = TRUE
    /\ status = [d \in Docs |-> "absent"]
    /\ rows = {}
    /\ vectors = {}
    /\ job = [d \in Docs |-> "none"]
    /\ request = [r \in Requests |-> Idle]
    /\ lost = {}
    /\ asked = {}

-----------------------------------------------------------------------------
\* The row lock an ingestion holds from its first UPDATE to the end of its
\* transaction.
Locked(d) == job[d] \in {"working", "inserted"}

\* Mutant of UploadDocument: the row takes the default status of its column.
UploadDocumentPending(d) ==
    /\ base
    /\ status[d] = "absent"
    /\ status' = [status EXCEPT ![d] = "pending"]
    /\ job' = [job EXCEPT ![d] = "queued"]
    /\ UNCHANGED <<base, rows, vectors, request, lost, asked>>

\* upload_document: the row is committed and the ingestion queued behind the
\* response.
UploadDocument(d) ==
    /\ base
    /\ status[d] = "absent"
    /\ status' = [status EXCEPT ![d] = "processing"]
    /\ job' = [job EXCEPT ![d] = "queued"]
    /\ UNCHANGED <<base, rows, vectors, request, lost, asked>>

\* ingest_document sets the status.  For a document that is gone the UPDATE
\* matches nothing, as the ones to come; the base is not found, or the first
\* chunk has no document to refer to, before anything is inserted into Milvus.
\* Only one without chunks, in a base that is still there, ends without an error.
StartIngestion(d) ==
    /\ job[d] = "queued"
    /\ job' = [job EXCEPT ![d] = CASE Present(d) -> "working"
                                   [] ~Present(d) /\ base /\ d \in Blank -> "none"
                                   [] ~Present(d) /\ ~(base /\ d \in Blank) -> "failing"]
    /\ UNCHANGED <<base, status, rows, vectors, request, lost, asked>>

\* A document without text is ready at once.
FinishBlank(d) ==
    /\ job[d] = "working"
    /\ d \in Blank
    /\ status' = [status EXCEPT ![d] = "ready"]
    /\ job' = [job EXCEPT ![d] = "none"]
    /\ UNCHANGED <<base, rows, vectors, request, lost, asked>>

\* Mutant of InsertVectors: the vectors are left for after the commit.
InsertVectorsLater(d) ==
    /\ job[d] = "working"
    /\ d \notin Blank
    /\ job' = [job EXCEPT ![d] = "inserted"]
    /\ UNCHANGED <<base, status, rows, vectors, request, lost, asked>>

\* The text is chunked and embedded, the chunk rows are inserted, invisible to
\* others so far, and then the vectors.
InsertVectors(d) ==
    /\ job[d] = "working"
    /\ d \notin Blank
    /\ vectors' = vectors \cup {d}
    /\ job' = [job EXCEPT ![d] = "inserted"]
    /\ UNCHANGED <<base, status, rows, request, lost, asked>>

CommitIngestion(d) ==
    /\ job[d] = "inserted"
    /\ status' = [status EXCEPT ![d] = "ready"]
    /\ rows' = rows \cup {d}
    /\ job' = [job EXCEPT ![d] = "none"]
    /\ UNCHANGED <<base, vectors, request, lost, asked>>

\* The parser, the embedder, Milvus (which may have inserted the vectors and
\* failed to say so) or the database raises: the transaction is rolled back, and
\* Milvus keeps what it has.
FailIngestion(d) ==
    /\ \/ job[d] = "working" /\ vectors' \in {vectors, vectors \cup ({d} \ Blank)}
       \/ job[d] = "inserted" /\ UNCHANGED vectors
    /\ job' = [job EXCEPT ![d] = "failing"]
    /\ UNCHANGED <<base, status, rows, request, lost, asked>>

\* Mutant of RecordError: the session is not rolled back, and the status cannot
\* be written in it.
RecordErrorUnrolled(d) ==
    /\ job[d] = "failing"
    /\ job' = [job EXCEPT ![d] = "none"]
    /\ UNCHANGED <<base, status, rows, vectors, request, lost, asked>>

\* The error is recorded, unless the document is gone, or the database fails
\* again, which is logged.
RecordError(d) ==
    /\ job[d] = "failing"
    /\ job' = [job EXCEPT ![d] = "none"]
    /\ \/ /\ status' = [status EXCEPT ![d] = IF Present(d) THEN "error" ELSE @]
          /\ UNCHANGED lost
       \/ /\ lost' = lost \cup {d}
          /\ UNCHANGED status
    /\ UNCHANGED <<base, rows, vectors, request, asked>>

-----------------------------------------------------------------------------
\* DELETE /{kb_id}/documents/{doc_id} finds the document, whatever its status.
DeleteDocument(r, d) ==
    /\ request[r] = Idle
    /\ Present(d)
    /\ request' = [request EXCEPT ![r] = [step |-> "loaded", kind |-> "document", doc |-> d]]
    /\ asked' = asked \cup {d}
    /\ UNCHANGED <<base, status, rows, vectors, job, lost>>

\* Mutant of DeleteVectors: the vectors are deleted by the document's row, which
\* Milvus does not know.
DeleteVectorsNot(r) ==
    /\ request[r] # Idle
    /\ request[r].kind = "document"
    /\ request[r].step = "loaded"
    /\ request' = [request EXCEPT ![r] =
                     [step |-> "purged", kind |-> "document", doc |-> @.doc,
                      listed |-> request[r].doc \in rows]]
    /\ UNCHANGED <<base, status, rows, vectors, job, lost, asked>>

\* engine.delete_document lists the chunk rows that are committed by now and has
\* Milvus delete their vectors.
DeleteVectors(r) ==
    /\ request[r] # Idle
    /\ request[r].kind = "document"
    /\ request[r].step = "loaded"
    /\ LET d == request[r].doc
       IN  /\ request' = [request EXCEPT ![r] = [step |-> "purged", kind |-> "document",
                                                 doc |-> d, listed |-> d \in rows]]
           /\ vectors' = IF d \in rows THEN vectors \ {d} ELSE vectors
    /\ UNCHANGED <<base, status, rows, job, lost, asked>>

\* Mutant of DeleteRows: a document that is being ingested is not deleted, and
\* its deletion tried again.
DeleteRowsOfReady(r) ==
    /\ request[r] # Idle
    /\ request[r].kind = "document"
    /\ request[r].step = "purged"
    /\ status[request[r].doc] # "processing"
    /\ status' = [status EXCEPT ![request[r].doc] = "deleted"]
    /\ rows' = rows \ {request[r].doc}
    /\ request' = [request EXCEPT ![r] = Idle]
    /\ UNCHANGED <<base, vectors, job, lost, asked>>

\* Then it deletes the rows, waiting for the document's lock, and commits.  Chunk
\* rows that were committed since are deleted by the cascade.
DeleteRows(r) ==
    /\ request[r] # Idle
    /\ request[r].kind = "document"
    /\ request[r].step = "purged"
    /\ ~Locked(request[r].doc)
    /\ status' = [status EXCEPT ![request[r].doc] = "deleted"]
    /\ rows' = rows \ {request[r].doc}
    /\ request' = [request EXCEPT ![r] = Idle]
    /\ UNCHANGED <<base, vectors, job, lost, asked>>

\* DELETE /{kb_id} finds the base ...
DeleteKnowledgeBase(r) ==
    /\ request[r] = Idle
    /\ base
    /\ request' = [request EXCEPT ![r] = [step |-> "loaded", kind |-> "base"]]
    /\ UNCHANGED <<base, status, rows, vectors, job, lost, asked>>

\* ... and deletes its rows, with those of its documents and their chunks, once
\* it has all their locks.  Nothing is deleted from Milvus.
DeleteBaseRows(r) ==
    /\ request[r] # Idle
    /\ request[r].kind = "base"
    /\ \A d \in Docs : ~Locked(d)
    /\ base' = FALSE
    /\ status' = [d \in Docs |-> IF Present(d) THEN "deleted" ELSE status[d]]
    /\ rows' = {}
    /\ request' = [request EXCEPT ![r] = Idle]
    /\ UNCHANGED <<vectors, job, lost, asked>>

\* A deletion fails; what Milvus deleted stays deleted.
FailDeletion(r) ==
    /\ request[r] # Idle
    /\ request' = [request EXCEPT ![r] = Idle]
    /\ UNCHANGED <<base, status, rows, vectors, job, lost, asked>>

\* The process dies: transactions in flight are rolled back, and background
\* tasks, queued or running, are forgotten.
Crash ==
    /\ job' = [d \in Docs |-> "none"]
    /\ lost' = lost \cup {d \in Docs : job[d] # "none"}
    /\ request' = [r \in Requests |-> Idle]
    /\ UNCHANGED <<base, status, rows, vectors, asked>>

Ingest(d) ==
    \/ StartIngestion(d) \/ FinishBlank(d) \/ InsertVectors(d) \/ CommitIngestion(d)
    \/ FailIngestion(d) \/ RecordError(d)

Delete(r) == DeleteVectors(r) \/ DeleteRows(r) \/ DeleteBaseRows(r) \/ FailDeletion(r)

Next ==
    \/ \E d \in Docs : UploadDocument(d) \/ Ingest(d)
    \/ \E r \in Requests :
         (\E d \in Docs : DeleteDocument(r, d)) \/ DeleteKnowledgeBase(r) \/ Delete(r)
    \/ Crash

\* Background tasks and requests go on: the embedder, Milvus and the database
\* answer or time out, and a lock that is released is given to who waits for it.
Fairness ==
    /\ \A d \in Docs : WF_vars(Ingest(d))
    /\ \A r \in Requests : WF_vars(DeleteVectors(r)) /\ SF_vars(DeleteRows(r) \/ DeleteBaseRows(r))

Spec == Init /\ [][Next]_vars /\ Fairness

-----------------------------------------------------------------------------
(* Properties *)

\* What a document's status says is true in both stores: one that is ready, and
\* that nobody asked to delete, is found by a search, whatever failed, was
\* retried or died while it was ingested.  One that is not ready has no rows.
StatusIsTrue ==
    \A d \in Docs :
        /\ status[d] = "ready" /\ d \notin Blank /\ d \notin asked => d \in rows \cap vectors
        /\ status[d] # "ready" => d \notin rows

\* A deletion that found the chunks of its document leaves nothing of it in
\* Milvus, although it goes on in PostgreSQL much later.
PurgedStaysPurged ==
    \A r \in Requests :
        request[r] # Idle /\ request[r].step = "purged" /\ request[r].listed
          => request[r].doc \notin vectors

\* An ingestion ends by telling its outcome, unless its process died or the
\* database failed twice: until then the document is "processing".
ProcessingEnds ==
    \A d \in Docs : status[d] = "processing" ~> status[d] # "processing" \/ d \in lost

\* A deletion does not wait for ever.
DeletionEnds ==
    \A r \in Requests : request[r] # Idle ~> request[r] = Idle

\* Documents settle, then: neither an ingestion nor a deletion is stuck.
DocumentsSettle == ProcessingEnds /\ DeletionEnds

\* engine.py:237, "Delete a document: remove vectors from Milvus + metadata from
\* PostgreSQL": a deletion that succeeds leaves no vectors of its document.
\* Violated: the vectors of an ingestion that is under way, or that failed after
\* Milvus had them, belong to no committed chunk row, and only the vectors of
\* such rows are deleted.
DeletedLeavesNoVectors ==
    [][\A r \in Requests : DeleteRows(r) => request[r].doc \notin vectors']_vars

=============================================================================
