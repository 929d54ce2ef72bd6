------------------------- MODULE DocumentLifecycle -------------------------
(***************************************************************************)
(* The life of a document in the knowledge base: upload, delete, retry and *)
(* the rebuild of the search index after a restart, as DocumentService     *)
(* runs them (backend/app/services/document_service.py).                   *)
(*                                                                         *)
(* Three stores hold a document and no transaction spans them: a row of    *)
(* the documents table (PostgreSQL, READ COMMITTED), a file under the      *)
(* storage root, and its vectors in the index the process keeps in memory. *)
(* FastAPI runs every request in a thread of its own over the one shared   *)
(* DocumentService, so the steps of the requests interleave; a step below  *)
(* ends where the code commits, or touches a store.                        *)
(*                                                                         *)
(* A step that updates a row writes its columns blindly: the repository    *)
(* sets attributes of an object it loaded earlier and emits an UPDATE by   *)
(* primary key, so whatever another request wrote meanwhile is replaced.   *)
(*                                                                         *)
(* The index is a store of parallel lists without a lock. An upload        *)
(* extends them; a removal filters them into lists of its own and assigns  *)
(* these afterwards, whatever the shared ones have become. Here a document *)
(* is in the index when the list of owners names it; DenseIndex follows    *)
(* the lists one by one.                                                   *)
(***************************************************************************)
EXTENDS Naturals, FiniteSets

CONSTANTS
    Requests,        \* threads that serve requests
    MaxDocs,         \* bound: rows ever created
    Names,           \* file names
    Sums,            \* contents, told apart by their SHA-256 checksum
    None,            \* no value
    Operations,      \* which operations the run allows
    FailureKinds,    \* bound: the failure statuses the run tells apart
    DatabaseFaults,  \* whether a write to the database may fail
    MaxRestarts,     \* bound: restarts of the process
    BootLimit        \* rows the bootstrap asks for (10 000 in the code)

ASSUME ConstantsAssumption ==
    /\ MaxDocs \in Nat
    /\ MaxRestarts \in Nat
    /\ BootLimit \in Nat
    /\ None \notin Names \cup Sums \cup Nat
    /\ Operations \subseteq {"upload", "delete", "retry"}
    /\ FailureKinds \subseteq
           {"failed", "failed_extraction", "failed_embedding", "failed_indexing"}
    /\ DatabaseFaults \in BOOLEAN

(* Ids are uuid4; numbering them in creation order also gives uploaded_at. *)
Docs == 1..MaxDocs

Failures == {"failed", "failed_extraction", "failed_embedding", "failed_indexing"}
Statuses == Failures \cup {"absent", "processing", "searchable", "retry_pending", "deleted"}
Paths    == {"pending", "stored"}

(* Where a request stands: "checked" to "indexed" are the points of an     *)
(* upload, "loaded" to "unfiled" of a delete, the last two of a retry.     *)
UploadPoints == {"checked", "created", "stored", "extending", "indexed"}
DeletePoints == {"loaded", "filtered", "unindexed", "unfiled"}
RetryPoints  == {"eligible", "scheduled"}
Points == {"idle"} \cup UploadPoints \cup DeletePoints \cup RetryPoints

Work == [doc  : Docs \cup {None}, name : Names \cup {None},
         sum  : Sums \cup {None}, path : Paths \cup {None}, kept : SUBSET Docs]
NoWork == [doc |-> None, name |-> None, sum |-> None, path |-> None, kept |-> {}]

VARIABLES
    status,     \* the row's status; "absent" before it is inserted
    path,       \* the row's storage_path: pending/<id> or a saved file
    name,       \* the row's filename
    sum,        \* the row's checksum
    files,      \* documents whose file is in storage
    vectors,    \* documents whose chunks are in the in-memory index
    torn,       \* whether a removal met another change of the index: its
                \* lists may differ in length, or name what is not there
    at,         \* where each request stands
    work,       \* what each request holds in its local variables
    todo,       \* rows the bootstrap has still to index
    serving,    \* FALSE while the application starts
    restarts,   \* restarts so far
    overlapped, \* history: documents whose deletion overlapped an upload
                \* or a retry of the same document
    lost        \* history: documents a failed delete, or a bootstrap that
                \* skipped them or all, left out of the index

rowVars == <<status, path, name, sum>>
index == <<vectors, torn>>
bootVars == <<todo, serving, restarts>>
history == <<overlapped, lost>>
vars == <<rowVars, files, index, at, work, bootVars, history>>

-----------------------------------------------------------------------------
Absent(d) == status[d] = "absent"
Active(d) == status[d] \notin {"absent", "deleted"}

(* Mutant: the index covers SEARCHABLE rows only.                          *)
FitsSearchable(d, c) == \A e \in Docs \ {d} : status[e] = "searchable" => sum[e] # c

(* The partial unique index uq_documents_tenant_checksum_active lets row d *)
(* be active with checksum c.                                              *)
Fits(d, c) == \A e \in Docs \ {d} : Active(e) => sum[e] # c

Busy(r, d, points) == at[r] \in points /\ work[r].doc = d
InFlight(d, points) == \E r \in Requests : Busy(r, d, points)

(* Some request changes the lists of the index.                            *)
Changing(points) == \E q \in Requests : at[q] \in points

Goto(r, p) == at' = [at EXCEPT ![r] = p]
Finish(r) ==
    /\ Goto(r, "idle")
    /\ work' = [work EXCEPT ![r] = NoWork]

(* repository.update_status: one column of one row.                        *)
UpdateStatus(d, s) ==
    /\ status' = [status EXCEPT ![d] = s]
    /\ UNCHANGED <<path, name, sum>>

(* The rows repository.list returns to the bootstrap: SEARCHABLE, the most *)
(* recent first, at most BootLimit of them, less those without a file key. *)
BootList ==
    LET searchable == {d \in Docs : status[d] = "searchable"} IN
    {d \in searchable :
        /\ Cardinality({e \in searchable : e > d}) < BootLimit
        /\ path[d] = "stored"}

-----------------------------------------------------------------------------
(***************************************************************************)
(* Mutants: what a plausible slip in the code would make of the action or  *)
(* helper each is named after. Every property is shown to reject one.      *)
(***************************************************************************)
(* The exception handler forgets update_status.                            *)
UploadFailSilently(r) ==
    /\ at[r] \in {"created", "stored", "indexed"}
    /\ Finish(r)
    /\ UNCHANGED <<rowVars, files, index, bootVars, history>>

(* The exception handler records the path of the file already written.     *)
UploadFailKeepsPath(r) ==
    LET d == work[r].doc IN
    /\ at[r] \in {"created", "stored", "indexed"}
    /\ Fits(d, sum[d])
    /\ status' = [status EXCEPT ![d] = "failed"]
    /\ path' = [path EXCEPT ![d] = IF at[r] = "created" THEN "pending" ELSE "stored"]
    /\ Finish(r)
    /\ UNCHANGED <<name, sum, files, index, bootVars, history>>

(* The file is removed before the kept lists are assigned.                 *)
DeleteFilterUnfiles(r) ==
    /\ at[r] = "loaded"
    /\ work' = [work EXCEPT ![r].kept = vectors \ {work[r].doc}]
    /\ torn' = (torn \/ Changing({"extending", "filtered"}))
    /\ files' = IF work[r].path = "stored" THEN files \ {work[r].doc} ELSE files
    /\ Goto(r, "filtered")
    /\ UNCHANGED <<rowVars, vectors, bootVars, history>>

(* The test for the placeholder path is inverted.                          *)
DeleteFileInverted(r) ==
    /\ at[r] = "unindexed"
    /\ files' = IF work[r].path = "stored" THEN files ELSE files \ {work[r].doc}
    /\ Goto(r, "unfiled")
    /\ UNCHANGED <<rowVars, index, work, bootVars, history>>

(* Deleted rows are eligible for retry.                                    *)
RetryLoadAny(r, d) ==
    /\ "retry" \in Operations /\ serving /\ at[r] = "idle"
    /\ status[d] \in {"failed", "retry_pending", "deleted"}
    /\ Goto(r, "eligible")
    /\ work' = [work EXCEPT ![r] = [NoWork EXCEPT !.doc = d]]
    /\ UNCHANGED <<rowVars, files, index, bootVars, history>>

(* A row whose file is missing stops the rebuild.                          *)
BootSkipReadable(d) ==
    /\ ~serving
    /\ d \in todo \cap files
    /\ todo' = todo \ {d}
    /\ lost' = lost \cup {d}
    /\ UNCHANGED <<rowVars, files, index, at, work, serving, restarts, overlapped>>

(* The application serves while the rebuild is still running.              *)
BootDoneEarly ==
    /\ ~serving
    /\ serving' = TRUE
    /\ UNCHANGED <<rowVars, files, index, at, work, todo, restarts, history>>

-----------------------------------------------------------------------------
Init ==
    /\ status = [d \in Docs |-> "absent"]
    /\ path = [d \in Docs |-> "pending"]
    /\ name = [d \in Docs |-> None]
    /\ sum = [d \in Docs |-> None]
    /\ files = {}
    /\ vectors = {}
    /\ torn = FALSE
    /\ at = [r \in Requests |-> "idle"]
    /\ work = [r \in Requests |-> NoWork]
    /\ todo = {}
    /\ serving = TRUE
    /\ restarts = 0
    /\ overlapped = {}
    /\ lost = {}

(***************************************************************************)
(* Upload.                                                                 *)
(***************************************************************************)

(* DuplicateDetectionPolicy.evaluate finds no active row with the checksum *)
(* and none with the file name. Otherwise the request is refused, and      *)
(* nothing changes. The two SELECTs are one step: the answer of the first  *)
(* is checked again by the unique index when the row is inserted.          *)
UploadCheck(r, n, c) ==
    /\ "upload" \in Operations
    /\ serving
    /\ at[r] = "idle"
    /\ \A d \in Docs : Active(d) => sum[d] # c /\ name[d] # n
    /\ Cardinality({q \in Requests : at[q] = "checked"})          \* bound
          < Cardinality({d \in Docs : Absent(d)})
    /\ Goto(r, "checked")
    /\ work' = [work EXCEPT ![r].name = n, ![r].sum = c]
    /\ UNCHANGED <<rowVars, files, index, bootVars, history>>

(* The INSERT commits: a PROCESSING row with a placeholder path.           *)
UploadCreate(r, d) ==
    /\ at[r] = "checked"
    /\ Absent(d)
    /\ \A e \in Docs : e < d => ~Absent(e)
    /\ Fits(d, work[r].sum)
    /\ status' = [status EXCEPT ![d] = "processing"]
    /\ name' = [name EXCEPT ![d] = work[r].name]
    /\ sum' = [sum EXCEPT ![d] = work[r].sum]
    /\ Goto(r, "created")
    /\ work' = [work EXCEPT ![r] = [NoWork EXCEPT !.doc = d]]
    /\ UNCHANGED <<path, files, index, bootVars, history>>

(* The INSERT loses against another upload of the same content:            *)
(* IntegrityError, rollback, DuplicateDocumentError.                       *)
UploadRaced(r) ==
    /\ at[r] = "checked"
    /\ \E d \in Docs : Active(d) /\ sum[d] = work[r].sum
    /\ Finish(r)
    /\ UNCHANGED <<rowVars, files, index, bootVars, history>>

(* StorageStage writes <id>.<extension>.                                   *)
UploadStore(r) ==
    /\ at[r] = "created"
    /\ files' = files \cup {work[r].doc}
    /\ Goto(r, "stored")
    /\ UNCHANGED <<rowVars, index, work, bootVars, history>>

(* Extraction, chunking and embedding succeed; IndexingStage begins to     *)
(* extend the lists of the shared index, one after the other.              *)
UploadExtend(r) ==
    /\ at[r] = "stored"
    /\ torn' = (torn \/ Changing({"filtered"}))
    /\ Goto(r, "extending")
    /\ UNCHANGED <<rowVars, files, vectors, work, bootVars, history>>

(* The last list, the owners, is extended too.                             *)
UploadIndex(r) ==
    /\ at[r] = "extending"
    /\ vectors' = vectors \cup {work[r].doc}
    /\ Goto(r, "indexed")
    /\ UNCHANGED <<rowVars, files, torn, work, bootVars, history>>

(* The statuses _failure_status_for_exception gives a stage that fails     *)
(* after the point p: validation or storage, then extraction, chunking,    *)
(* embedding or indexing, then index validation or saving BM25.            *)
FailureAfter(p) ==
    CASE p = "created" -> {"failed"}
      [] p = "stored"  -> {"failed", "failed_extraction", "failed_embedding"}
      [] p = "indexed" -> {"failed", "failed_indexing"}

(* A stage raises: update_status, and the exception goes on. What earlier  *)
(* stages wrote stays: the file, the vectors, and the placeholder path.    *)
UploadFail(r) ==
    LET d == work[r].doc IN
    /\ at[r] \in {"created", "stored", "indexed"}
    /\ Fits(d, sum[d])
    /\ \E s \in FailureAfter(at[r]) \cap FailureKinds : UpdateStatus(d, s)
    /\ Finish(r)
    /\ UNCHANGED <<files, index, bootVars, history>>

(* The pipeline succeeded: path and SEARCHABLE are written in one UPDATE,  *)
(* whatever the row's status has become.                                   *)
UploadComplete(r) ==
    LET d == work[r].doc IN
    /\ at[r] = "indexed"
    /\ Fits(d, sum[d])
    /\ status' = [status EXCEPT ![d] = "searchable"]
    /\ path' = [path EXCEPT ![d] = "stored"]
    /\ Finish(r)
    /\ UNCHANGED <<name, sum, files, index, bootVars, history>>

(* Either UPDATE would make a deleted row active beside a newer row of the *)
(* same content: the unique index raises an IntegrityError nobody catches. *)
UploadRefused(r) ==
    /\ at[r] \in {"created", "stored", "indexed"}
    /\ ~Fits(work[r].doc, sum[work[r].doc])
    /\ Finish(r)
    /\ UNCHANGED <<rowVars, files, index, bootVars, history>>

(***************************************************************************)
(* Delete.                                                                 *)
(***************************************************************************)

(* require_document_access loads the row; delete_document gets the same    *)
(* object from the session's identity map. A deleted row is answered at    *)
(* once, and nothing changes.                                              *)
DeleteLoad(r, d) ==
    /\ "delete" \in Operations
    /\ serving
    /\ at[r] = "idle"
    /\ Active(d)
    /\ Goto(r, "loaded")
    /\ work' = [work EXCEPT ![r] = [NoWork EXCEPT !.doc = d, !.path = path[d]]]
    /\ overlapped' = IF InFlight(d, UploadPoints \cup RetryPoints)
                     THEN overlapped \cup {d} ELSE overlapped
    /\ UNCHANGED <<rowVars, files, index, bootVars, lost>>

(* remove_document filters the live lists into lists of its own.           *)
DeleteFilter(r) ==
    /\ at[r] = "loaded"
    /\ work' = [work EXCEPT ![r].kept = vectors \ {work[r].doc}]
    /\ torn' = (torn \/ Changing({"extending", "filtered"}))
    /\ Goto(r, "filtered")
    /\ UNCHANGED <<rowVars, files, vectors, bootVars, history>>

(* Its zip(..., strict=True) meets lists of different lengths: ValueError. *)
DeleteRaises(r) ==
    /\ at[r] = "loaded"
    /\ torn \/ Changing({"extending", "filtered"})
    /\ Finish(r)
    /\ UNCHANGED <<rowVars, files, index, bootVars, history>>

(* The kept lists replace the shared ones ...                              *)
DeleteAssign(r) ==
    /\ at[r] = "filtered"
    /\ work[r].kept # vectors
    /\ vectors' = work[r].kept
    /\ work' = [work EXCEPT ![r].kept = {}]
    /\ Goto(r, "unindexed")
    /\ UNCHANGED <<rowVars, files, torn, bootVars, history>>

(* ... unless they are as long, as if nothing had been dropped. So they    *)
(* are when nothing was, and may be when each names a document the other   *)
(* does not: documents have as many entries as chunks.                     *)
DeleteDropsNothing(r) ==
    /\ at[r] = "filtered"
    /\ work[r].kept \subseteq vectors <=> vectors \subseteq work[r].kept
    /\ work' = [work EXCEPT ![r].kept = {}]
    /\ Goto(r, "unindexed")
    /\ UNCHANGED <<rowVars, files, index, bootVars, history>>

(* The file goes unless the path that was loaded is the placeholder.       *)
DeleteFile(r) ==
    /\ at[r] = "unindexed"
    /\ files' = IF work[r].path = "stored" THEN files \ {work[r].doc} ELSE files
    /\ Goto(r, "unfiled")
    /\ UNCHANGED <<rowVars, index, work, bootVars, history>>

(* The sparse index raises after the dense one was changed, or the storage *)
(* adapter does: the request ends, vectors gone, row kept.                 *)
DeleteFails(r) ==
    /\ at[r] = "unindexed"
    /\ lost' = lost \cup {work[r].doc}
    /\ Finish(r)
    /\ UNCHANGED <<rowVars, files, index, bootVars, overlapped>>

DeleteMark(r) ==
    /\ at[r] = "unfiled"
    /\ UpdateStatus(work[r].doc, "deleted")
    /\ Finish(r)
    /\ UNCHANGED <<files, index, bootVars, history>>

(***************************************************************************)
(* Retry.                                                                  *)
(***************************************************************************)

(* can_retry: FAILED is to be scheduled first, RETRY_PENDING is not.       *)
RetryLoad(r, d) ==
    /\ "retry" \in Operations
    /\ serving
    /\ at[r] = "idle"
    /\ status[d] \in {"failed", "retry_pending"}
    /\ Goto(r, IF status[d] = "failed" THEN "eligible" ELSE "scheduled")
    /\ work' = [work EXCEPT ![r] = [NoWork EXCEPT !.doc = d]]
    /\ overlapped' = IF InFlight(d, DeletePoints)
                     THEN overlapped \cup {d} ELSE overlapped
    /\ UNCHANGED <<rowVars, files, index, bootVars, lost>>

RetrySchedule(r) ==
    LET d == work[r].doc IN
    /\ at[r] = "eligible"
    /\ Fits(d, sum[d])
    /\ UpdateStatus(d, "retry_pending")
    /\ Goto(r, "scheduled")
    /\ UNCHANGED <<files, index, work, bootVars, history>>

(* As UploadRefused: the UPDATE would revive a row that was deleted.       *)
RetryRefused(r) ==
    /\ at[r] = "eligible"
    /\ ~Fits(work[r].doc, sum[work[r].doc])
    /\ Finish(r)
    /\ UNCHANGED <<rowVars, files, index, bootVars, history>>

(* The placeholder path has no content to read: DocumentStorageError. The  *)
(* branch for a saved path is dead code: see RetryFindsNoContent.          *)
RetryWithoutContent(r) ==
    /\ at[r] = "scheduled"
    /\ path[work[r].doc] = "pending"
    /\ Finish(r)
    /\ UNCHANGED <<rowVars, files, index, bootVars, history>>

(***************************************************************************)
(* Faults, and the restart of the process.                                 *)
(***************************************************************************)

(* A commit fails and the exception ends the request where it stands.      *)
DatabaseError(r) ==
    /\ DatabaseFaults
    /\ at[r] \in (UploadPoints \ {"extending"}) \cup {"unfiled", "eligible"}
    /\ lost' = IF at[r] = "unfiled" THEN lost \cup {work[r].doc} ELSE lost
    /\ Finish(r)
    /\ UNCHANGED <<rowVars, files, index, bootVars, overlapped>>

(* The process dies and starts again: the index and every request are      *)
(* gone, the lifespan hook lists what the bootstrap is to index. While the *)
(* database is down, or its query fails, nothing is listed and the         *)
(* application serves all the same.                                        *)
Restart ==
    /\ restarts < MaxRestarts
    /\ restarts' = restarts + 1
    /\ vectors' = {}
    /\ torn' = FALSE
    /\ at' = [r \in Requests |-> "idle"]
    /\ work' = [r \in Requests |-> NoWork]
    /\ \E listed \in {BootList, {}} :
           /\ todo' = listed
           /\ lost' = {d \in Docs : status[d] = "searchable"} \ listed
    /\ serving' = FALSE
    /\ UNCHANGED <<rowVars, files, overlapped>>

(* reindex_document_vectors for one row; it needs the stored file.         *)
BootIndex(d) ==
    /\ ~serving
    /\ d \in todo \cap files
    /\ vectors' = vectors \cup {d}
    /\ todo' = todo \ {d}
    /\ UNCHANGED <<rowVars, files, torn, at, work, serving, restarts, history>>

(* Any exception of one row, a missing file included, is logged only; one  *)
(* of the stages after indexing leaves the vectors.                        *)
BootSkip(d) ==
    /\ ~serving
    /\ d \in todo
    /\ todo' = todo \ {d}
    /\ lost' = lost \cup {d}
    /\ vectors' \in {vectors, vectors \cup ({d} \cap files)}
    /\ UNCHANGED <<rowVars, files, torn, at, work, serving, restarts, overlapped>>

BootDone ==
    /\ ~serving
    /\ todo = {}
    /\ serving' = TRUE
    /\ UNCHANGED <<rowVars, files, index, at, work, todo, restarts, history>>

-----------------------------------------------------------------------------
Upload(r) ==
    \/ \E n \in Names, c \in Sums : UploadCheck(r, n, c)
    \/ \E d \in Docs : UploadCreate(r, d)
    \/ UploadRaced(r)
    \/ UploadStore(r)
    \/ UploadExtend(r)
    \/ UploadIndex(r)
    \/ UploadFail(r)
    \/ UploadComplete(r)
    \/ UploadRefused(r)

Delete(r) ==
    \/ \E d \in Docs : DeleteLoad(r, d)
    \/ DeleteFilter(r)
    \/ DeleteRaises(r)
    \/ DeleteAssign(r)
    \/ DeleteDropsNothing(r)
    \/ DeleteFile(r)
    \/ DeleteFails(r)
    \/ DeleteMark(r)

Retry(r) ==
    \/ \E d \in Docs : RetryLoad(r, d)
    \/ RetrySchedule(r)
    \/ RetryRefused(r)
    \/ RetryWithoutContent(r)

Boot ==
    \/ \E d \in Docs : BootIndex(d) \/ BootSkip(d)
    \/ BootDone

Next ==
    \/ \E r \in Requests : Upload(r) \/ Delete(r) \/ Retry(r) \/ DatabaseError(r)
    \/ Restart
    \/ Boot

Spec == Init /\ [][Next]_vars

(* A thread that has work goes on with it, and the start-up hook runs to   *)
(* its end. Nothing makes a client send a request.                         *)
Continue(r) == at[r] # "idle" /\ (Upload(r) \/ Delete(r) \/ Retry(r))

FairSpec ==
    /\ Spec
    /\ \A r \in Requests : WF_vars(Continue(r))
    /\ WF_vars(Boot)

-----------------------------------------------------------------------------
(* Types: every variable keeps to the values the code can give it.         *)
TypeOK ==
    /\ status \in [Docs -> Statuses]
    /\ path \in [Docs -> Paths]
    /\ name \in [Docs -> Names \cup {None}]
    /\ sum \in [Docs -> Sums \cup {None}]
    /\ files \subseteq Docs
    /\ vectors \subseteq Docs
    /\ torn \in BOOLEAN
    /\ at \in [Requests -> Points]
    /\ work \in [Requests -> Work]
    /\ todo \subseteq Docs
    /\ serving \in BOOLEAN
    /\ restarts \in 0..MaxRestarts
    /\ overlapped \subseteq Docs
    /\ lost \subseteq Docs

(* No content is active twice, whichever uploads raced and whichever       *)
(* deleted row a late UPDATE revives (uq_documents_tenant_checksum_active).*)
UniqueContent ==
    \A d, e \in Docs : Active(d) /\ Active(e) /\ sum[d] = sum[e] => d = e

(* Whatever can be retrieved can be opened: a document's vectors never     *)
(* outlive its file. Uploads store before they index, deletes drop the     *)
(* vectors before the file, the bootstrap reads the file to index it. It   *)
(* takes removals that meet no other change of the index: of two deletions *)
(* that filter its lists at once, one removes nothing.                     *)
IndexedHasFile == torn \/ vectors \subseteq files

(* A deletion is complete when it overlapped no upload or retry of the     *)
(* document: no file the row's path points to and, when no removal met     *)
(* another change of the index, no vectors.                                *)
DeletedIsGone ==
    \A d \in Docs : status[d] = "deleted" /\ d \notin overlapped =>
        /\ torn \/ d \notin vectors
        /\ path[d] = "stored" => d \notin files

(* ... and it is final: no request writes the row's status again.          *)
StaysDeleted ==
    [][\A d \in Docs : status[d] = "deleted" /\ d \notin overlapped
                           => status'[d] = "deleted"]_vars

(* What the table calls SEARCHABLE is in the index while the application   *)
(* serves, through races and restarts, but for the rows a deletion works   *)
(* on, met during processing or failed on, and those the bootstrap skipped.*)
(* A removal that met another change of the index may drop any document.   *)
SearchableIsIndexed ==
    torn \/ \A d \in Docs :
        /\ serving /\ status[d] = "searchable"
        /\ d \notin overlapped \cup lost
        /\ ~InFlight(d, DeletePoints)
        => d \in vectors

(* retry_document never has content to run the pipeline on: a row it takes *)
(* still has the placeholder path, so its success branch is dead code.     *)
RetryFindsNoContent ==
    \A r \in Requests : at[r] = "scheduled" => path[work[r].doc] = "pending"

(* Without database faults an upload leaves PROCESSING, whatever deletes   *)
(* it meets, unless the process dies under it.                             *)
UploadEnds ==
    \A d \in Docs, n \in 0..MaxRestarts :
        status[d] = "processing" /\ InFlight(d, UploadPoints) /\ restarts = n
            ~> status[d] # "processing" \/ restarts # n

(* The start-up rebuild ends and the application serves again, even when   *)
(* rows cannot be indexed or their file is missing.                        *)
ServesAgain == ~serving ~> serving

(* An upload ends, and so does a start, with whatever rows and files they  *)
(* meet.                                                                   *)
UploadsAndStartsEnd == UploadEnds /\ ServesAgain

-----------------------------------------------------------------------------
(* What comments and docs say of deletion, retry and file names; each is   *)
(* refuted by a run of its own.                                            *)

(* delete_document: "Remove vectors from VectorStore (document no longer   *)
(* searchable)".                                                           *)
DeletedIsUnsearchable == \A d \in Docs : status[d] = "deleted" => d \notin vectors

(* DELETE /documents/{id}: "Deletes indexed vectors, removes the stored    *)
(* file, and marks metadata as deleted."                                   *)
DeletedHasNoFile ==
    \A d \in Docs : status[d] = "deleted" /\ d \notin overlapped => d \notin files

(* retry_document: "Re-run ingestion for a failed document without         *)
(* re-uploading."                                                          *)
RetryFindsContent ==
    \A r \in Requests : at[r] = "scheduled" => path[work[r].doc] = "stored"
=============================================================================
