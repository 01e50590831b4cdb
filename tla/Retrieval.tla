----------------------------- MODULE Retrieval ------------------------------
(***************************************************************************)
(* The retrieval proxy of the gateway (retrieval_proxy/mod.rs) and the     *)
(* ledger's artifact upload behind it (routes/artifacts.rs).               *)
(*                                                                         *)
(* A retrieval stores every document the backend returns as an artifact,   *)
(* one call after the other, and then names them in its result event.  An  *)
(* upload puts the bytes into the bucket under their digest before it      *)
(* opens the transaction of the row, so a failure in between leaves a blob *)
(* without a row.  Documents are represented by their content, and so are  *)
(* digests and keys: equal documents share a blob and have rows of their   *)
(* own.                                                                    *)
(***************************************************************************)
EXTENDS LedgerClient, Naturals

CONSTANTS
  Retrievals,   \* POST /retrieve calls
  Backed,       \* those at a gateway that has a retrieval backend
  Contents,     \* contents of documents
  MaxDocs       \* bound on the documents of one response

ASSUME RetrievalsAssumption == Retrievals \subseteq Handlers /\ Backed \subseteq Retrievals
ASSUME DocsAssumption == MaxDocs \in Nat

VARIABLES
  asked,    \* requests on their way to the backend
  answer,   \* what the backend made of each
  docs,     \* the documents of its response
  doc,      \* handler local: the document it is at
  stored,   \* uploads in flight whose blob is already in the bucket
  blobs     \* the bucket: contents under their digests

retrievalVars == <<asked, answer, docs, doc, stored, blobs>>
queryVars == <<linkVars, retrievalVars>>

\* A 2xx response is a list of documents or no JSON at all.
Answers == {"docs", "garbled", "error"}

Query == Entry("retrieval_query")
Result == Entry("retrieval_result")
QueryError == Entry("retrieval_error")
Artifact(i) == [kind |-> "artifact", item |-> i, linked |-> FALSE]

RetrievalEntries == {Entry("run"), Entry("binding"), Query, Result, QueryError}
                      \cup { Artifact(i) : i \in 1 .. MaxDocs }

ASSUME RetrievalEntriesAssumption == RetrievalEntries \subseteq Entries

RetrievalActive == {"minting", "stamping", "ready", "querying", "fetching", "uploading",
                    "concluding", "erring"}

RetrievalTypeOK ==
  /\ LinkTypeOK
  /\ \A q \in Retrievals : pc[q] \in {"idle"} \cup RetrievalActive \cup Ended
  /\ asked \subseteq Retrievals
  /\ answer \in [Retrievals -> {"unseen"} \cup Answers]
  /\ docs \in [Retrievals -> Seq(Contents)]
  /\ \A q \in Retrievals : doc[q] \in 0 .. Len(docs[q]) /\ Len(docs[q]) <= MaxDocs
  /\ stored \subseteq calls
  /\ blobs \subseteq Contents

RetrievalInit ==
  /\ asked = {}
  /\ answer = [q \in Retrievals |-> "unseen"]
  /\ docs = [q \in Retrievals |-> <<>>]
  /\ doc = [q \in Retrievals |-> 0]
  /\ stored = {}
  /\ blobs = {}

-----------------------------------------------------------------------------
(* retrieve *)

NoBackend(q) ==
  /\ q \notin Backed /\ pc[q] = "idle"
  /\ GotoQuietly(q, "failed")
  /\ UNCHANGED retrievalVars

AcceptQuery(q) == q \in Backed /\ ResolveRun(q) /\ UNCHANGED retrievalVars

RecordQuery(q) ==
  /\ pc[q] = "ready"
  /\ GotoSending(q, "querying", Query)
  /\ UNCHANGED retrievalVars

\* Mutant of Ask: a failed query event is ignored.
AskUnrecorded(q) ==
  /\ pc[q] = "querying"
  /\ GotoQuietly(q, "fetching")
  /\ asked' = asked \cup {q}
  /\ UNCHANGED <<answer, docs, doc, stored, blobs>>

Ask(q) ==
  /\ Ok(q, "querying", Query)
  /\ GotoQuietly(q, "fetching")
  /\ asked' = asked \cup {q}
  /\ UNCHANGED <<answer, docs, doc, stored, blobs>>

\* Document i goes to the ledger, or the result event after the last one.
NextDoc(q, i) ==
  IF i <= Len(docs[q])
  THEN doc' = [doc EXCEPT ![q] = i] /\ GotoSending(q, "uploading", Artifact(i))
  ELSE UNCHANGED doc /\ GotoSending(q, "concluding", Result)

Fetched(q) ==
  /\ pc[q] = "fetching" /\ answer[q] = "docs"
  /\ NextDoc(q, 1)
  /\ UNCHANGED <<asked, answer, docs, stored, blobs>>

FetchedError(q) ==
  /\ pc[q] = "fetching" /\ answer[q] = "error"
  /\ GotoSending(q, "erring", QueryError)
  /\ UNCHANGED retrievalVars

\* Mutant of FetchFails: the response is awaited for ever.
FetchFailsNever(q) == pc[q] = "fetching" /\ UNCHANGED queryVars

\* send() or bytes() fails, or a 2xx response is no JSON.
FetchFails(q) ==
  /\ pc[q] = "fetching"
  /\ GotoQuietly(q, "failed")
  /\ UNCHANGED retrievalVars

\* Mutant of Uploaded: the next upload does not wait for the last.
UploadedOrNot(q) ==
  /\ pc[q] = "uploading"
  /\ NextDoc(q, doc[q] + 1)
  /\ UNCHANGED <<asked, answer, docs, stored, blobs>>

Uploaded(q) ==
  /\ Ok(q, "uploading", Artifact(doc[q]))
  /\ NextDoc(q, doc[q] + 1)
  /\ UNCHANGED <<asked, answer, docs, stored, blobs>>

ReplyQuery(q) ==
  /\ Ok(q, "concluding", Result) \/ Ok(q, "erring", QueryError)
  /\ GotoQuietly(q, "replied")
  /\ UNCHANGED retrievalVars

\* `?` on a call to the ledger; what is uploaded so far stays.
RetrievalFails(q) ==
  /\ \E at \in {"querying", "uploading", "concluding", "erring"} : Err(q, at)
  /\ UNCHANGED retrievalVars

\* The client hangs up, or the gateway dies.
QuerierHangsUp(q) ==
  /\ pc[q] \in RetrievalActive
  /\ GotoQuietly(q, "gone")
  /\ UNCHANGED retrievalVars

-----------------------------------------------------------------------------
(* Retrieval backend *)

BackendAnswers(q) ==
  /\ q \in asked
  /\ asked' = asked \ {q}
  /\ \E a \in Answers : answer' = [answer EXCEPT ![q] = a]
  /\ \E n \in 0 .. MaxDocs : \E ds \in [1 .. n -> Contents] :
       docs' = [docs EXCEPT ![q] = IF answer'[q] = "docs" THEN ds ELSE <<>>]
  /\ UNCHANGED <<linkVars, doc, stored, blobs>>

\* The request never reaches the backend.
QueryLost(q) ==
  /\ q \in asked
  /\ asked' = asked \ {q}
  /\ UNCHANGED <<linkVars, answer, docs, doc, stored, blobs>>

-----------------------------------------------------------------------------
(* The ledger's side of a call *)

IsUpload(c) == c[2].kind = "artifact"

\* blob_store.put, before the row's transaction begins.
PutBlob(c) ==
  /\ c \in calls \ stored /\ IsUpload(c)
  /\ stored' = stored \cup {c}
  /\ blobs' = blobs \cup {docs[c[1]][c[2].item]}
  /\ UNCHANGED <<linkVars, asked, answer, docs, doc>>

\* Mutant of UploadReady: the row is written while the put is under way.
UploadReadyEarly(c) == c \in calls

\* Only a call whose blob is stored opens the transaction of an artifact.
UploadReady(c) == IsUpload(c) => c \in stored

\* A row is committed; of an upload that fails the blob remains.
RetrievalLedgerStep ==
  \/ \E c \in calls : PutBlob(c)
  \/ \E c \in calls : /\ UploadReady(c) /\ LedgerCommits(c)
                      /\ stored' = stored \ {c}
                      /\ UNCHANGED <<asked, answer, docs, doc, blobs>>
  \/ \E c \in calls : /\ LedgerRefuses(c)
                      /\ stored' = stored \ {c}
                      /\ UNCHANGED <<asked, answer, docs, doc, blobs>>

-----------------------------------------------------------------------------
(* Composition *)

RetrievalStep(q) ==
  \/ ResolveStep(q) /\ UNCHANGED retrievalVars
  \/ RecordQuery(q) \/ Ask(q) \/ Fetched(q) \/ FetchedError(q) \/ FetchFails(q)
  \/ Uploaded(q) \/ ReplyQuery(q) \/ RetrievalFails(q)

RetrievalBackendStep(q) == BackendAnswers(q) \/ QueryLost(q)

RetrievalNext == \E q \in Retrievals :
  NoBackend(q) \/ AcceptQuery(q) \/ RetrievalStep(q) \/ QuerierHangsUp(q)
    \/ RetrievalBackendStep(q)

-----------------------------------------------------------------------------
(* Properties *)

\* An artifact row is downloadable: the bytes it names are in the bucket, from
\* the moment the row can be read, although bucket and database share no
\* transaction.
ArtifactsHaveBlobs ==
  \A q \in Retrievals : \A i \in 1 .. Len(ledger[q]) :
    ledger[q][i].kind = "artifact" => docs[q][ledger[q][i].item] \in blobs

\* The result event comes after the rows of all documents it names, and the
\* rows come one by one in the order of the response: what a failed retrieval
\* leaves behind is a prefix of its documents, and a result event only if it is
\* all of them (the answer to that last call may be what was lost).
ResultFollowsArtifacts ==
  \A q \in Retrievals : \A i \in 1 .. Len(ledger[q]) :
    LET Before(e) == \E j \in 1 .. i - 1 : ledger[q][j] = e
        last == IF ledger[q][i] = Result THEN Len(docs[q])
                ELSE IF ledger[q][i].kind = "artifact" THEN ledger[q][i].item - 1 ELSE 0
    IN  /\ \A d \in 1 .. last : Before(Artifact(d))
        /\ ~ Before(ledger[q][i])

RecordedAnswer(q) == IF Committed(q, Result) THEN "docs"
                     ELSE IF Committed(q, QueryError) THEN "error" ELSE None

RetrievalPromise == INSTANCE WitnessedOutcome WITH
  Subjects <- Retrievals, Outcomes <- Answers,
  announced <- { q \in Retrievals : Committed(q, Query) },
  outcome <- [q \in Retrievals |-> IF answer[q] \in Answers THEN answer[q] ELSE None],
  recorded <- [q \in Retrievals |-> RecordedAnswer(q)],
  reported <- [q \in Retrievals |-> IF pc[q] = "replied" THEN answer[q] ELSE None]

\* The backend sees no query the ledger does not know of, and the caller sees
\* no response whose outcome the ledger does not hold.
RetrievalsAreWitnessed == RetrievalPromise!Spec

\* Every accepted retrieval ends, whatever is lost underway.
RetrievalsEnd == \A q \in Backed : pc[q] \in RetrievalActive ~> pc[q] \in Ended

=============================================================================
