---------------------- MODULE DocumentLifecycleProofs ----------------------
(***************************************************************************)
(* Proofs about DocumentLifecycle, for every number of requests, rows,     *)
(* names, contents and restarts.                                           *)
(***************************************************************************)
EXTENDS DocumentLifecycle, TLAPS

(* The points of an upload after its row was inserted.                     *)
Ingesting == {"created", "stored", "extending", "indexed"}

(* A row some upload is ingesting still has the placeholder path, and only *)
(* a deletion has touched its status.                                      *)
IngestingRow ==
    \A r \in Requests : at[r] \in Ingesting =>
        /\ work[r].doc \in Docs
        /\ path[work[r].doc] = "pending"
        /\ status[work[r].doc] \in {"processing", "deleted"}

(* Every row is ingested by one request.                                   *)
IngestingApart ==
    \A q, r \in Requests :
        at[q] \in Ingesting /\ at[r] \in Ingesting /\ work[q].doc = work[r].doc => q = r

IngestingFile ==
    \A r \in Requests : at[r] \in {"stored", "extending", "indexed"} => work[r].doc \in files

(* A deletion that will remove a file loaded the final path, and took the  *)
(* vectors away first.                                                     *)
DeletingRow ==
    \A r \in Requests : at[r] \in DeletePoints =>
        /\ work[r].doc \in Docs
        /\ work[r].path = "stored" => path[work[r].doc] = "stored"
        /\ at[r] = "unindexed" /\ work[r].path = "stored" => torn \/ work[r].doc \notin vectors

(* A removal that met no other change of the index has it to itself, and   *)
(* will assign what the lists hold without its document.                   *)
FilteredAlone ==
    torn \/ \A r \in Requests : at[r] = "filtered" =>
        /\ work[r].kept = vectors \ {work[r].doc}
        /\ \A q \in Requests \ {r} : at[q] \notin {"extending", "filtered"}

(* Nothing ingests a row that is being retried.                            *)
RetryingRow ==
    \A r \in Requests : at[r] \in RetryPoints =>
        /\ work[r].doc \in Docs
        /\ ~Absent(work[r].doc)
        /\ path[work[r].doc] = "pending"
        /\ \A q \in Requests : at[q] \in Ingesting => work[q].doc # work[r].doc

(* Rows never ingested, or not successfully, have the placeholder path.    *)
PendingPath ==
    \A d \in Docs : status[d] \in {"absent", "failed", "retry_pending"} => path[d] = "pending"

(* No request is served during start-up.                                   *)
QuietBoot == ~serving => \A r \in Requests : at[r] = "idle"

IInv ==
    /\ TypeOK
    /\ IngestingRow /\ IngestingApart /\ IngestingFile
    /\ DeletingRow /\ RetryingRow /\ PendingPath /\ QuietBoot
    /\ UniqueContent /\ IndexedHasFile /\ FilteredAlone

(* A request that ingests or retries a row meets no deletion of it, before *)
(* or after, unless the two are recorded as overlapping.                   *)
WritersApart ==
    \A r \in Requests : at[r] \in Ingesting \cup RetryPoints /\ work[r].doc \notin overlapped =>
        /\ status[work[r].doc] # "deleted"
        /\ \A q \in Requests : at[q] \in DeletePoints => work[q].doc # work[r].doc

(* What a deletion that meets no other request has done so far is done.    *)
DeletionProgress ==
    \A r \in Requests : at[r] \in DeletePoints =>
        /\ ~Absent(work[r].doc)
        /\ work[r].doc \notin overlapped =>
            /\ path[work[r].doc] = "stored" => work[r].path = "stored"
            /\ at[r] \in {"unindexed", "unfiled"} => torn \/ work[r].doc \notin vectors
            /\ at[r] = "unfiled" /\ path[work[r].doc] = "stored" => work[r].doc \notin files

(* The bootstrap's rows stay SEARCHABLE while it works through them.       *)
BootRows == \A d \in todo : ~serving /\ status[d] = "searchable"

IngestedVectors ==
    \A r \in Requests :
        at[r] = "indexed" /\ work[r].doc \notin overlapped => torn \/ work[r].doc \in vectors

(* A SEARCHABLE row is indexed, or the bootstrap is still to index it, or  *)
(* one of the excuses of SearchableIsIndexed applies; a deletion is none   *)
(* before it has changed the index.                                        *)
SearchableHeld ==
    torn \/ \A d \in Docs :
        /\ status[d] = "searchable"
        /\ d \notin overlapped \cup lost
        /\ ~InFlight(d, {"unindexed", "unfiled"})
        => d \in vectors \cup todo

DInv ==
    /\ WritersApart /\ DeletionProgress /\ BootRows
    /\ IngestedVectors /\ SearchableHeld /\ DeletedIsGone

(* Every way a request ends without writing a row, a file or the index; a  *)
(* deletion that ends so may leave its document out of the index.          *)
EndOfRequest(r) ==
    /\ Finish(r)
    /\ lost' = IF at[r] \in {"unindexed", "unfiled"}
               THEN lost \cup {work[r].doc} ELSE lost
    /\ UNCHANGED <<rowVars, files, index, bootVars, overlapped>>

LEMMA UploadCheckStep ==
    ASSUME IInv, NEW r \in Requests, NEW n \in Names, NEW c \in Sums, UploadCheck(r, n, c)
    PROVE  IInv'
<1>. USE DEF IInv, UploadCheck, Goto, Active, Absent, rowVars, index, bootVars, history
<1>1. TypeOK'
  <2>1. [work[r] EXCEPT !.name = n, !.sum = c] \in Work
    BY DEF TypeOK, Work
  <2>2. work' \in [Requests -> Work]
    BY <2>1 DEF TypeOK, Work
  <2>3. at' \in [Requests -> Points]
    BY DEF TypeOK, Points, UploadPoints
  <2> QED
    BY <2>2, <2>3 DEF TypeOK
<1>2. IngestingRow'
  BY DEF TypeOK, IngestingRow, Ingesting
<1>3. (IngestingApart /\ IngestingFile)'
  BY DEF TypeOK, IngestingApart, IngestingFile, Ingesting
<1>4. (DeletingRow /\ RetryingRow)'
  BY DEF TypeOK, DeletingRow, RetryingRow, DeletePoints, Ingesting, RetryPoints
<1>5. (PendingPath /\ QuietBoot /\ UniqueContent /\ IndexedHasFile)'
  BY DEF TypeOK, PendingPath, QuietBoot, UniqueContent, IndexedHasFile
<1>6. FilteredAlone'
  BY DEF TypeOK, FilteredAlone, NoWork
<1>. QED
  BY <1>1, <1>2, <1>3, <1>4, <1>5, <1>6

LEMMA UploadCreateStep ==
    ASSUME IInv, NEW r \in Requests, NEW d \in Docs, UploadCreate(r, d)
    PROVE  IInv'
<1>. USE DEF IInv, UploadCreate, Goto, Absent, Fits, rowVars, index, bootVars, history
<1>1. TypeOK'
  BY DEF TypeOK, Work, NoWork, Points, Paths, Statuses, Failures, UploadPoints,
       DeletePoints, RetryPoints, Docs
<1>2. IngestingRow'
  BY DEF TypeOK, IngestingRow, PendingPath, Ingesting, NoWork
<1>3. (IngestingApart /\ IngestingFile)'
  BY DEF TypeOK, IngestingApart, IngestingRow, IngestingFile, Ingesting, NoWork
<1>4. (DeletingRow /\ RetryingRow)'
  BY DEF TypeOK, DeletingRow, RetryingRow, DeletePoints, NoWork, Ingesting,
       RetryPoints
<1>5. (PendingPath /\ QuietBoot /\ UniqueContent /\ IndexedHasFile)'
  BY DEF TypeOK, PendingPath, QuietBoot, UniqueContent, IndexedHasFile, NoWork,
       Active
<1>6. FilteredAlone'
  BY DEF TypeOK, FilteredAlone, NoWork
<1>. QED
  BY <1>1, <1>2, <1>3, <1>4, <1>5, <1>6

LEMMA UploadStoreStep ==
    ASSUME IInv, NEW r \in Requests, UploadStore(r)
    PROVE  IInv'
<1>. USE DEF IInv, UploadStore, Goto, rowVars, index, bootVars, history
<1>1. TypeOK'
  BY DEF TypeOK, IngestingRow, Ingesting, Work, NoWork, Points, Paths, Statuses,
       Failures, UploadPoints, DeletePoints, RetryPoints, Docs
<1>2. IngestingRow'
  BY DEF TypeOK, IngestingRow, Ingesting
<1>3. (IngestingApart /\ IngestingFile)'
  BY DEF TypeOK, IngestingApart, IngestingFile, Ingesting
<1>4. (DeletingRow /\ RetryingRow)'
  BY DEF TypeOK, DeletingRow, RetryingRow, DeletePoints, Absent, Ingesting,
       RetryPoints
<1>5. (PendingPath /\ QuietBoot /\ UniqueContent /\ IndexedHasFile)'
  BY DEF TypeOK, PendingPath, QuietBoot, UniqueContent, IndexedHasFile, Active
<1>6. FilteredAlone'
  BY DEF TypeOK, FilteredAlone, NoWork
<1>. QED
  BY <1>1, <1>2, <1>3, <1>4, <1>5, <1>6

LEMMA UploadExtendStep ==
    ASSUME IInv, NEW r \in Requests, UploadExtend(r)
    PROVE  IInv'
<1>. USE DEF IInv, UploadExtend, Goto, rowVars, index, bootVars, history
<1>1. TypeOK'
  BY DEF TypeOK, IngestingRow, Ingesting, Work, NoWork, Points, Paths, Statuses,
       Failures, UploadPoints, DeletePoints, RetryPoints, Docs
<1>2. IngestingRow'
  BY DEF TypeOK, IngestingRow, Ingesting
<1>3. (IngestingApart /\ IngestingFile)'
  BY DEF TypeOK, IngestingApart, IngestingFile, Ingesting
<1>4. (DeletingRow /\ RetryingRow)'
  BY DEF TypeOK, DeletingRow, RetryingRow, DeletePoints, Absent, Ingesting,
       RetryPoints
<1>5. (PendingPath /\ QuietBoot /\ UniqueContent /\ IndexedHasFile)'
  BY DEF TypeOK, PendingPath, QuietBoot, UniqueContent, IndexedHasFile, Active
<1>6. FilteredAlone'
  BY DEF TypeOK, FilteredAlone, Changing
<1>. QED
  BY <1>1, <1>2, <1>3, <1>4, <1>5, <1>6

LEMMA UploadIndexStep ==
    ASSUME IInv, NEW r \in Requests, UploadIndex(r)
    PROVE  IInv'
<1>. USE DEF IInv, UploadIndex, Goto, rowVars, index, bootVars, history
<1>1. TypeOK'
  BY DEF TypeOK, IngestingRow, Ingesting, Work, NoWork, Points, Paths, Statuses,
       Failures, UploadPoints, DeletePoints, RetryPoints, Docs
<1>2. IngestingRow'
  BY DEF TypeOK, IngestingRow, Ingesting
<1>3. (IngestingApart /\ IngestingFile)'
  BY DEF TypeOK, IngestingApart, IngestingFile, Ingesting
<1>4. (DeletingRow /\ RetryingRow)'
  BY DEF TypeOK, DeletingRow, IngestingRow, RetryingRow, Ingesting, DeletePoints,
       Absent, RetryPoints
<1>5. (PendingPath /\ QuietBoot /\ UniqueContent /\ IndexedHasFile)'
  BY DEF TypeOK, PendingPath, QuietBoot, UniqueContent, IndexedHasFile,
       IngestingFile, Active
<1>6. FilteredAlone'
  BY DEF TypeOK, FilteredAlone, NoWork
<1>. QED
  BY <1>1, <1>2, <1>3, <1>4, <1>5, <1>6

LEMMA UploadFailStep ==
    ASSUME IInv, NEW r \in Requests, UploadFail(r)
    PROVE  IInv'
<1>. USE DEF IInv, UploadFail, Finish, UpdateStatus, Fits, FailureAfter, Goto,
     rowVars, index, bootVars, history
<1>1. TypeOK'
  <2>1. work' \in [Requests -> Work]
    BY DEF TypeOK, Work, NoWork
  <2>2. at' \in [Requests -> Points]
    BY DEF TypeOK, Points
  <2>3. status' \in [Docs -> Statuses] /\ path' \in [Docs -> Paths]
    BY DEF TypeOK, Statuses, Failures
  <2> QED
    BY <2>1, <2>2, <2>3 DEF TypeOK
<1>2. IngestingRow'
  BY DEF TypeOK, IngestingRow, IngestingApart, Ingesting, NoWork
<1>3. (IngestingApart /\ IngestingFile)'
  BY DEF TypeOK, IngestingApart, IngestingFile, Ingesting, NoWork
<1>4. (DeletingRow /\ RetryingRow)'
  BY DEF TypeOK, DeletingRow, RetryingRow, DeletePoints, NoWork, Absent,
       Ingesting, RetryPoints
<1>5. (PendingPath /\ QuietBoot /\ UniqueContent /\ IndexedHasFile)'
  BY DEF TypeOK, PendingPath, IngestingRow, QuietBoot, UniqueContent,
       IndexedHasFile, Ingesting, NoWork, Active
<1>6. FilteredAlone'
  BY DEF TypeOK, FilteredAlone, NoWork
<1>. QED
  BY <1>1, <1>2, <1>3, <1>4, <1>5, <1>6

LEMMA UploadCompleteStep ==
    ASSUME IInv, NEW r \in Requests, UploadComplete(r)
    PROVE  IInv'
<1>. USE DEF IInv, UploadComplete, Finish, Fits, Goto, rowVars, index, bootVars, history
<1>1. TypeOK'
  BY DEF TypeOK, Work, NoWork, Points, Paths, Statuses, Failures, UploadPoints,
       DeletePoints, RetryPoints, Docs
<1>2. IngestingRow'
  BY DEF TypeOK, IngestingRow, IngestingApart, Ingesting, NoWork
<1>3. (IngestingApart /\ IngestingFile)'
  BY DEF TypeOK, IngestingApart, IngestingFile, Ingesting, NoWork
<1>4. (DeletingRow /\ RetryingRow)'
  BY DEF TypeOK, DeletingRow, RetryingRow, DeletePoints, NoWork, Absent,
       Ingesting, RetryPoints
<1>5. (PendingPath /\ QuietBoot /\ UniqueContent /\ IndexedHasFile)'
  BY DEF TypeOK, PendingPath, QuietBoot, UniqueContent, IndexedHasFile, NoWork,
       Active
<1>6. FilteredAlone'
  BY DEF TypeOK, FilteredAlone, NoWork
<1>. QED
  BY <1>1, <1>2, <1>3, <1>4, <1>5, <1>6

LEMMA DeleteLoadStep ==
    ASSUME IInv, NEW r \in Requests, NEW d \in Docs, DeleteLoad(r, d)
    PROVE  IInv'
<1>. USE DEF IInv, DeleteLoad, Goto, Active, InFlight, rowVars, index, bootVars
<1>1. TypeOK'
  BY DEF TypeOK, UploadPoints, RetryPoints, Work, NoWork, Points, Paths, Statuses,
       Failures, DeletePoints, Docs
<1>2. IngestingRow'
  BY DEF TypeOK, IngestingRow, Ingesting, UploadPoints, RetryPoints, NoWork
<1>3. (IngestingApart /\ IngestingFile)'
  BY DEF TypeOK, IngestingApart, IngestingFile, Ingesting, UploadPoints,
       RetryPoints, NoWork
<1>4. (DeletingRow /\ RetryingRow)'
  BY DEF TypeOK, DeletingRow, RetryingRow, UploadPoints, DeletePoints,
       RetryPoints, NoWork, Absent, Ingesting
<1>5. (PendingPath /\ QuietBoot /\ UniqueContent /\ IndexedHasFile)'
  BY DEF TypeOK, PendingPath, QuietBoot, UniqueContent, IndexedHasFile,
       UploadPoints, RetryPoints, NoWork
<1>6. FilteredAlone'
  BY DEF TypeOK, FilteredAlone, NoWork
<1>. QED
  BY <1>1, <1>2, <1>3, <1>4, <1>5, <1>6

LEMMA DeleteFilterStep ==
    ASSUME IInv, NEW r \in Requests, DeleteFilter(r)
    PROVE  IInv'
<1>. USE DEF IInv, DeleteFilter, Goto, rowVars, index, bootVars, history
<1>1. TypeOK'
  <2>1. ASSUME NEW w \in Work, NEW k \in SUBSET Docs PROVE [w EXCEPT !.kept = k] \in Work
    BY <2>1 DEF Work
  <2>2. work' \in [Requests -> Work] /\ vectors' \subseteq Docs
    BY <2>1 DEF TypeOK, Work
  <2>3. at' \in [Requests -> Points]
    BY DEF TypeOK, Points, DeletePoints
  <2>4. QED
    BY <2>2, <2>3 DEF TypeOK
<1>2. IngestingRow'
  BY DEF TypeOK, IngestingRow, Ingesting
<1>3. (IngestingApart /\ IngestingFile)'
  BY DEF TypeOK, IngestingApart, IngestingFile, Ingesting
<1>4. (DeletingRow /\ RetryingRow)'
  BY DEF TypeOK, DeletingRow, RetryingRow, DeletePoints, Absent, Ingesting,
       RetryPoints
<1>5. (PendingPath /\ QuietBoot /\ UniqueContent /\ IndexedHasFile)'
  BY DEF TypeOK, PendingPath, QuietBoot, UniqueContent, IndexedHasFile, Active
<1>6. FilteredAlone'
  <2>1. work'[r].kept = vectors \ {work[r].doc} /\ work'[r].doc = work[r].doc
    BY DEF TypeOK, Work
  <2>2. ASSUME ~torn' PROVE \A q \in Requests : at[q] \notin {"extending", "filtered"}
    BY <2>2 DEF Changing
  <2>3. QED
    BY <2>1, <2>2 DEF TypeOK, FilteredAlone
<1>. QED
  BY <1>1, <1>2, <1>3, <1>4, <1>5, <1>6

LEMMA DeleteAssignStep ==
    ASSUME IInv, NEW r \in Requests, DeleteAssign(r)
    PROVE  IInv'
<1>. USE DEF IInv, DeleteAssign, Goto, rowVars, index, bootVars, history
<1>1. TypeOK'
  <2>1. ASSUME NEW w \in Work, NEW k \in SUBSET Docs PROVE [w EXCEPT !.kept = k] \in Work
    BY <2>1 DEF Work
  <2>2. work' \in [Requests -> Work] /\ vectors' \subseteq Docs
    BY <2>1 DEF TypeOK, Work
  <2>3. at' \in [Requests -> Points]
    BY DEF TypeOK, Points, DeletePoints
  <2>4. QED
    BY <2>2, <2>3 DEF TypeOK
<1>2. IngestingRow'
  BY DEF TypeOK, IngestingRow, Ingesting
<1>3. (IngestingApart /\ IngestingFile)'
  BY DEF TypeOK, IngestingApart, IngestingFile, Ingesting
<1>4. (DeletingRow /\ RetryingRow)'
  BY DEF TypeOK, DeletingRow, FilteredAlone, RetryingRow, DeletePoints, Absent, Ingesting,
       RetryPoints
<1>5. (PendingPath /\ QuietBoot /\ UniqueContent /\ IndexedHasFile)'
  BY DEF TypeOK, PendingPath, QuietBoot, UniqueContent, IndexedHasFile, FilteredAlone, Active
<1>6. FilteredAlone'
  BY DEF TypeOK, FilteredAlone, NoWork
<1>. QED
  BY <1>1, <1>2, <1>3, <1>4, <1>5, <1>6

LEMMA DeleteDropsNothingStep ==
    ASSUME IInv, NEW r \in Requests, DeleteDropsNothing(r)
    PROVE  IInv'
<1>. USE DEF IInv, DeleteDropsNothing, Goto, rowVars, index, bootVars, history
<1>1. TypeOK'
  <2>1. ASSUME NEW w \in Work, NEW k \in SUBSET Docs PROVE [w EXCEPT !.kept = k] \in Work
    BY <2>1 DEF Work
  <2>2. work' \in [Requests -> Work] /\ vectors' \subseteq Docs
    BY <2>1 DEF TypeOK, Work
  <2>3. at' \in [Requests -> Points]
    BY DEF TypeOK, Points, DeletePoints
  <2>4. QED
    BY <2>2, <2>3 DEF TypeOK
<1>2. IngestingRow'
  BY DEF TypeOK, IngestingRow, Ingesting
<1>3. (IngestingApart /\ IngestingFile)'
  BY DEF TypeOK, IngestingApart, IngestingFile, Ingesting
<1>4. (DeletingRow /\ RetryingRow)'
  BY DEF TypeOK, DeletingRow, FilteredAlone, RetryingRow, DeletePoints, Absent, Ingesting,
       RetryPoints
<1>5. (PendingPath /\ QuietBoot /\ UniqueContent /\ IndexedHasFile)'
  BY DEF TypeOK, PendingPath, QuietBoot, UniqueContent, IndexedHasFile, Active
<1>6. FilteredAlone'
  BY DEF TypeOK, FilteredAlone, NoWork
<1>. QED
  BY <1>1, <1>2, <1>3, <1>4, <1>5, <1>6

LEMMA DeleteFileStep ==
    ASSUME IInv, NEW r \in Requests, DeleteFile(r)
    PROVE  IInv'
<1>. USE DEF IInv, DeleteFile, Goto, rowVars, index, bootVars, history
<1>1. TypeOK'
  BY DEF TypeOK, Work, NoWork, Points, Paths, Statuses, Failures, UploadPoints,
       DeletePoints, RetryPoints, Docs
<1>2. IngestingRow'
  BY DEF TypeOK, IngestingRow, Ingesting
<1>3. (IngestingApart /\ IngestingFile)'
  BY DEF TypeOK, IngestingApart, IngestingFile, DeletingRow, IngestingRow,
       Ingesting, DeletePoints
<1>4. (DeletingRow /\ RetryingRow)'
  BY DEF TypeOK, DeletingRow, RetryingRow, DeletePoints, Absent, Ingesting,
       RetryPoints
<1>5. (PendingPath /\ QuietBoot /\ UniqueContent /\ IndexedHasFile)'
  BY DEF TypeOK, PendingPath, QuietBoot, UniqueContent, IndexedHasFile,
       DeletingRow, Active, DeletePoints
<1>6. FilteredAlone'
  BY DEF TypeOK, FilteredAlone, NoWork
<1>. QED
  BY <1>1, <1>2, <1>3, <1>4, <1>5, <1>6

LEMMA DeleteMarkStep ==
    ASSUME IInv, NEW r \in Requests, DeleteMark(r)
    PROVE  IInv'
<1>. USE DEF IInv, DeleteMark, Finish, UpdateStatus, Goto, rowVars, index, bootVars,
     history
<1>1. TypeOK'
  BY DEF TypeOK, Work, NoWork, Points, Paths, Statuses, Failures, UploadPoints,
       DeletePoints, RetryPoints, Docs
<1>2. IngestingRow'
  BY DEF TypeOK, IngestingRow, Ingesting, NoWork
<1>3. (IngestingApart /\ IngestingFile)'
  BY DEF TypeOK, IngestingApart, IngestingFile, Ingesting, NoWork
<1>4. (DeletingRow /\ RetryingRow)'
  BY DEF TypeOK, DeletingRow, RetryingRow, DeletePoints, NoWork, Absent,
       Ingesting, RetryPoints
<1>5. (PendingPath /\ QuietBoot /\ UniqueContent /\ IndexedHasFile)'
  BY DEF TypeOK, PendingPath, QuietBoot, UniqueContent, IndexedHasFile, NoWork,
       Active
<1>6. FilteredAlone'
  BY DEF TypeOK, FilteredAlone, NoWork
<1>. QED
  BY <1>1, <1>2, <1>3, <1>4, <1>5, <1>6

LEMMA RetryLoadStep ==
    ASSUME IInv, NEW r \in Requests, NEW d \in Docs, RetryLoad(r, d)
    PROVE  IInv'
<1>. USE DEF IInv, RetryLoad, Goto, InFlight, rowVars, index, bootVars
<1>1. TypeOK'
  BY DEF TypeOK, DeletePoints, Work, NoWork, Points, Paths, Statuses, Failures,
       UploadPoints, RetryPoints, Docs
<1>2. IngestingRow'
  BY DEF TypeOK, IngestingRow, Ingesting, DeletePoints, NoWork
<1>3. (IngestingApart /\ IngestingFile)'
  BY DEF TypeOK, IngestingApart, IngestingFile, Ingesting, DeletePoints, NoWork
<1>4. (DeletingRow /\ RetryingRow)'
  BY DEF TypeOK, DeletingRow, RetryingRow, PendingPath, IngestingRow,
       DeletePoints, NoWork, Absent, Ingesting, RetryPoints
<1>5. (PendingPath /\ QuietBoot /\ UniqueContent /\ IndexedHasFile)'
  BY DEF TypeOK, PendingPath, QuietBoot, UniqueContent, IndexedHasFile,
       DeletePoints, NoWork, Active
<1>6. FilteredAlone'
  BY DEF TypeOK, FilteredAlone, NoWork
<1>. QED
  BY <1>1, <1>2, <1>3, <1>4, <1>5, <1>6

LEMMA RetryScheduleStep ==
    ASSUME IInv, NEW r \in Requests, RetrySchedule(r)
    PROVE  IInv'
<1>. USE DEF IInv, RetrySchedule, Goto, UpdateStatus, Fits, rowVars, index, bootVars,
     history
<1>1. TypeOK'
  BY DEF TypeOK, Work, NoWork, Points, Paths, Statuses, Failures, UploadPoints,
       DeletePoints, RetryPoints, Docs
<1>2. IngestingRow'
  BY DEF TypeOK, IngestingRow, RetryingRow, Absent, Ingesting, RetryPoints
<1>3. (IngestingApart /\ IngestingFile)'
  BY DEF TypeOK, IngestingApart, IngestingFile, Ingesting
<1>4. (DeletingRow /\ RetryingRow)'
  BY DEF TypeOK, DeletingRow, RetryingRow, DeletePoints, Absent, Ingesting,
       RetryPoints
<1>5. (PendingPath /\ QuietBoot /\ UniqueContent /\ IndexedHasFile)'
  BY DEF TypeOK, PendingPath, RetryingRow, QuietBoot, UniqueContent,
       IndexedHasFile, Absent, Ingesting, RetryPoints, Active
<1>6. FilteredAlone'
  BY DEF TypeOK, FilteredAlone, NoWork
<1>. QED
  BY <1>1, <1>2, <1>3, <1>4, <1>5, <1>6

LEMMA RestartStep ==
    ASSUME IInv, Restart
    PROVE  IInv'
<1>. USE DEF IInv, Restart, rowVars, index
<1>1. TypeOK'
  <2>1. restarts' \in 0..MaxRestarts
    BY ConstantsAssumption DEF TypeOK
  <2>2. work' \in [Requests -> Work] /\ at' \in [Requests -> Points]
    BY DEF Work, NoWork, Points
  <2>3. todo' \subseteq Docs /\ lost' \subseteq Docs
    BY DEF BootList
  <2>4. QED
    BY <2>1, <2>2, <2>3 DEF TypeOK
<1>2. IngestingRow'
  BY DEF TypeOK, IngestingRow, Ingesting, NoWork
<1>3. (IngestingApart /\ IngestingFile)'
  BY DEF TypeOK, IngestingApart, IngestingFile, Ingesting, NoWork
<1>4. (DeletingRow /\ RetryingRow)'
  BY DEF TypeOK, DeletingRow, RetryingRow, DeletePoints, NoWork, Absent,
       Ingesting, RetryPoints
<1>5. (PendingPath /\ QuietBoot /\ UniqueContent /\ IndexedHasFile)'
  BY DEF TypeOK, PendingPath, QuietBoot, UniqueContent, IndexedHasFile, NoWork,
       Active
<1>6. FilteredAlone'
  BY DEF TypeOK, FilteredAlone, NoWork
<1>. QED
  BY <1>1, <1>2, <1>3, <1>4, <1>5, <1>6

LEMMA BootIndexStep ==
    ASSUME IInv, NEW d \in Docs, BootIndex(d)
    PROVE  IInv'
<1>. USE DEF IInv, BootIndex, rowVars, index, history
<1>1. TypeOK'
  BY DEF TypeOK, Work, NoWork, Points, Paths, Statuses, Failures, UploadPoints,
       DeletePoints, RetryPoints, Docs
<1>2. IngestingRow'
  BY DEF TypeOK, IngestingRow, Ingesting
<1>3. (IngestingApart /\ IngestingFile)'
  BY DEF TypeOK, IngestingApart, IngestingFile, Ingesting
<1>4. (DeletingRow /\ RetryingRow)'
  BY DEF TypeOK, DeletingRow, QuietBoot, RetryingRow, DeletePoints, Absent,
       Ingesting, RetryPoints
<1>5. (PendingPath /\ QuietBoot /\ UniqueContent /\ IndexedHasFile)'
  BY DEF TypeOK, PendingPath, QuietBoot, UniqueContent, IndexedHasFile, Active
<1>6. FilteredAlone'
  BY DEF TypeOK, FilteredAlone, QuietBoot
<1>. QED
  BY <1>1, <1>2, <1>3, <1>4, <1>5, <1>6

LEMMA BootSkipStep ==
    ASSUME IInv, NEW d \in Docs, BootSkip(d)
    PROVE  IInv'
<1>. USE DEF IInv, BootSkip, rowVars, index
<1>1. TypeOK'
  BY DEF TypeOK, Work, NoWork, Points, Paths, Statuses, Failures, UploadPoints,
       DeletePoints, RetryPoints, Docs
<1>2. IngestingRow'
  BY DEF TypeOK, IngestingRow, Ingesting
<1>3. (IngestingApart /\ IngestingFile)'
  BY DEF TypeOK, IngestingApart, IngestingFile, Ingesting
<1>4. (DeletingRow /\ RetryingRow)'
  BY DEF TypeOK, DeletingRow, QuietBoot, RetryingRow, DeletePoints, Absent, Ingesting,
       RetryPoints
<1>5. (PendingPath /\ QuietBoot /\ UniqueContent /\ IndexedHasFile)'
  BY DEF TypeOK, PendingPath, QuietBoot, UniqueContent, IndexedHasFile, Active
<1>6. FilteredAlone'
  BY DEF TypeOK, FilteredAlone, QuietBoot
<1>. QED
  BY <1>1, <1>2, <1>3, <1>4, <1>5, <1>6

LEMMA BootDoneStep ==
    ASSUME IInv, BootDone
    PROVE  IInv'
<1>. USE DEF IInv, BootDone, rowVars, index, history
<1>1. TypeOK'
  BY DEF TypeOK, Work, NoWork, Points, Paths, Statuses, Failures, UploadPoints,
       DeletePoints, RetryPoints, Docs
<1>2. IngestingRow'
  BY DEF TypeOK, IngestingRow, Ingesting
<1>3. (IngestingApart /\ IngestingFile)'
  BY DEF TypeOK, IngestingApart, IngestingFile, Ingesting
<1>4. (DeletingRow /\ RetryingRow)'
  BY DEF TypeOK, DeletingRow, RetryingRow, DeletePoints, Absent, Ingesting,
       RetryPoints
<1>5. (PendingPath /\ QuietBoot /\ UniqueContent /\ IndexedHasFile)'
  BY DEF TypeOK, PendingPath, QuietBoot, UniqueContent, IndexedHasFile, Active
<1>6. FilteredAlone'
  BY DEF TypeOK, FilteredAlone, NoWork
<1>. QED
  BY <1>1, <1>2, <1>3, <1>4, <1>5, <1>6

LEMMA EndOfRequestStep ==
    ASSUME IInv, NEW r \in Requests, EndOfRequest(r)
    PROVE  IInv'
<1>. USE DEF IInv, EndOfRequest, Finish, Goto, rowVars, index, bootVars
<1>1. TypeOK'
  BY DEF TypeOK, DeletingRow, Work, NoWork, Points, Paths, Statuses, Failures,
       UploadPoints, DeletePoints, RetryPoints, Docs
<1>2. IngestingRow'
  BY DEF TypeOK, IngestingRow, Ingesting, NoWork
<1>3. (IngestingApart /\ IngestingFile)'
  BY DEF TypeOK, IngestingApart, IngestingFile, Ingesting, NoWork
<1>4. (DeletingRow /\ RetryingRow)'
  BY DEF TypeOK, DeletingRow, RetryingRow, DeletePoints, NoWork, Absent,
       Ingesting, RetryPoints
<1>5. (PendingPath /\ QuietBoot /\ UniqueContent /\ IndexedHasFile)'
  BY DEF TypeOK, PendingPath, QuietBoot, UniqueContent, IndexedHasFile, NoWork,
       Active
<1>6. FilteredAlone'
  BY DEF TypeOK, FilteredAlone, NoWork
<1>. QED
  BY <1>1, <1>2, <1>3, <1>4, <1>5, <1>6

(* Next, with the requests that merely end gathered in EndOfRequest.       *)
LEMMA NextCases ==
    ASSUME IInv, Next
    PROVE  \/ \E r \in Requests :
                \/ \E n \in Names, c \in Sums : UploadCheck(r, n, c)
                \/ \E d \in Docs : UploadCreate(r, d) \/ DeleteLoad(r, d) \/ RetryLoad(r, d)
                \/ UploadStore(r) \/ UploadExtend(r) \/ UploadIndex(r)
                \/ UploadFail(r) \/ UploadComplete(r)
                \/ DeleteFilter(r) \/ DeleteAssign(r) \/ DeleteDropsNothing(r)
                \/ DeleteFile(r) \/ DeleteMark(r)
                \/ RetrySchedule(r)
                \/ EndOfRequest(r)
           \/ Restart
           \/ \E d \in Docs : BootIndex(d) \/ BootSkip(d)
           \/ BootDone
<1>1. \A r \in Requests :
        UploadRaced(r) \/ UploadRefused(r) \/ RetryRefused(r) \/ RetryWithoutContent(r)
          => EndOfRequest(r)
  BY DEF UploadRaced, UploadRefused, RetryRefused, RetryWithoutContent,
       EndOfRequest, bootVars, history
<1>2. \A r \in Requests : DeleteRaises(r) \/ DeleteFails(r) => EndOfRequest(r)
  BY DEF DeleteRaises, DeleteFails, EndOfRequest, history
<1>3. \A r \in Requests : DatabaseError(r) => EndOfRequest(r)
  BY DEF DatabaseError, EndOfRequest, UploadPoints
<1>4. QED
  BY <1>1, <1>2, <1>3 DEF Next, Upload, Delete, Retry, Boot

LEMMA InitIInv == Init => IInv
<1>1. ASSUME Init PROVE TypeOK
  <2>1. NoWork \in Work
    BY DEF NoWork, Work
  <2>2. restarts \in 0..MaxRestarts
    BY <1>1, ConstantsAssumption DEF Init
  <2>3. QED
    BY <1>1, <2>1, <2>2 DEF Init, TypeOK, Statuses, Paths, Points
<1>2. ASSUME Init PROVE IInv
  BY <1>1, <1>2
     DEF Init, IInv, IngestingRow, IngestingApart, IngestingFile, DeletingRow,
         RetryingRow, PendingPath, QuietBoot, UniqueContent, IndexedHasFile,
         FilteredAlone, Active, Ingesting, DeletePoints, RetryPoints
<1>3. QED
  BY <1>2

LEMMA NextIInv == IInv /\ [Next]_vars => IInv'
<1>1. ASSUME IInv, Next PROVE IInv'
  BY <1>1, NextCases, UploadCheckStep, UploadCreateStep, UploadStoreStep,
       UploadExtendStep, UploadIndexStep,
     UploadFailStep, UploadCompleteStep, DeleteLoadStep, DeleteFilterStep,
     DeleteAssignStep, DeleteDropsNothingStep,
     DeleteFileStep, DeleteMarkStep, RetryLoadStep, RetryScheduleStep,
     EndOfRequestStep, RestartStep, BootIndexStep, BootSkipStep, BootDoneStep
<1>2. ASSUME IInv, UNCHANGED vars PROVE IInv'
  BY <1>2 DEF IInv, TypeOK, IngestingRow, IngestingApart, IngestingFile,
       DeletingRow,
         RetryingRow, PendingPath, QuietBoot, UniqueContent, IndexedHasFile,
         FilteredAlone, Active, Absent, vars, rowVars, index, bootVars, history
<1>3. QED
  BY <1>1, <1>2

(* The inductive invariant holds in every reachable state.                 *)
THEOREM Invariance == Spec => []IInv
BY InitIInv, NextIInv, PTL DEF Spec

(* Every variable keeps its type: the rows, the files, the index and every *)
(* request's local state stay within the values the code can give them.    *)
THEOREM TypeCorrect == Spec => []TypeOK
<1>1. IInv => TypeOK
  BY DEF IInv
<1>2. QED
  BY <1>1, Invariance, PTL

(* The unique index and the code's use of it keep active contents apart,   *)
(* however many uploads race and whatever deleted row an UPDATE revives.   *)
THEOREM ContentIsUnique == Spec => []UniqueContent
<1>1. IInv => UniqueContent
  BY DEF IInv
<1>2. QED
  BY <1>1, Invariance, PTL

(* What search can return has its file in storage, whatever uploads,       *)
(* deletes, failures and restarts came before.                             *)
THEOREM VectorsHaveFiles == Spec => []IndexedHasFile
<1>1. IInv => IndexedHasFile
  BY DEF IInv
<1>2. QED
  BY <1>1, Invariance, PTL

(* No retry ever finds a stored file: the branch of retry_document after   *)
(* the path check is unreachable.                                          *)
THEOREM RetryIsDead == Spec => []RetryFindsNoContent
<1>1. IInv => RetryFindsNoContent
  BY DEF IInv, RetryingRow, RetryFindsNoContent, RetryPoints
<1>2. QED
  BY <1>1, Invariance, PTL

-----------------------------------------------------------------------------
(* Deletion: the second invariant is preserved given the first.            *)

LEMMA UploadCheckDeletion ==
    ASSUME IInv, DInv, NEW r \in Requests, NEW n \in Names, NEW c \in Sums, UploadCheck(r, n, c)
    PROVE  DInv'
<1>. USE DEF IInv, DInv, UploadCheck, Goto, rowVars, index, bootVars, history
<1>1. WritersApart'
  BY DEF TypeOK, WritersApart, Ingesting, DeletePoints, RetryPoints
<1>2. DeletionProgress'
  BY DEF TypeOK, DeletionProgress, DeletePoints, Absent
<1>3. (BootRows /\ IngestedVectors)'
  BY DEF TypeOK, BootRows, IngestedVectors
<1>4. SearchableHeld'
  BY DEF SearchableHeld, TypeOK, DeletePoints, InFlight, Busy
<1>5. DeletedIsGone'
  BY DEF DeletedIsGone
<1>. QED
  BY <1>1, <1>2, <1>3, <1>4, <1>5 DEF DInv

LEMMA UploadCreateDeletion ==
    ASSUME IInv, DInv, NEW r \in Requests, NEW d \in Docs, UploadCreate(r, d)
    PROVE  DInv'
<1>. USE DEF IInv, DInv, UploadCreate, Goto, rowVars, index, bootVars, history
<1>1. WritersApart'
  BY DEF TypeOK, WritersApart, DeletionProgress, DeletePoints
<1>2. DeletionProgress'
  BY DEF TypeOK, DeletionProgress, DeletePoints, Absent
<1>3. (BootRows /\ IngestedVectors)'
  BY DEF TypeOK, BootRows, IngestedVectors, Absent
<1>4. SearchableHeld'
  BY DEF TypeOK, SearchableHeld, DeletePoints, InFlight, Busy
<1>5. DeletedIsGone'
  BY DEF DeletedIsGone
<1>. QED
  BY <1>1, <1>2, <1>3, <1>4, <1>5 DEF DInv

LEMMA UploadStoreDeletion ==
    ASSUME IInv, DInv, NEW r \in Requests, UploadStore(r)
    PROVE  DInv'
<1>. USE DEF IInv, DInv, UploadStore, Goto, rowVars, index, bootVars, history
<1>1. WritersApart'
  BY DEF TypeOK, WritersApart, Ingesting, DeletePoints
<1>2. DeletionProgress'
  BY DEF TypeOK, DeletionProgress, WritersApart, Ingesting, DeletePoints, Absent
<1>3. (BootRows /\ IngestedVectors)'
  BY DEF TypeOK, BootRows, IngestedVectors
<1>4. SearchableHeld'
  BY DEF TypeOK, SearchableHeld, DeletePoints, InFlight, Busy
<1>5. DeletedIsGone'
  BY DEF DeletedIsGone, WritersApart, Ingesting
<1>. QED
  BY <1>1, <1>2, <1>3, <1>4, <1>5 DEF DInv

LEMMA UploadExtendDeletion ==
    ASSUME IInv, DInv, NEW r \in Requests, UploadExtend(r)
    PROVE  DInv'
<1>. USE DEF IInv, DInv, UploadExtend, Goto, rowVars, index, bootVars, history
<1>1. WritersApart'
  BY DEF TypeOK, WritersApart, Ingesting, DeletePoints
<1>2. DeletionProgress'
  BY DEF TypeOK, DeletionProgress, WritersApart, Ingesting, DeletePoints, Absent
<1>3. (BootRows /\ IngestedVectors)'
  BY DEF TypeOK, BootRows, IngestedVectors
<1>4. SearchableHeld'
  BY DEF TypeOK, SearchableHeld, DeletePoints, InFlight, Busy
<1>5. DeletedIsGone'
  BY DEF DeletedIsGone, WritersApart, Ingesting
<1>. QED
  BY <1>1, <1>2, <1>3, <1>4, <1>5 DEF DInv

LEMMA UploadIndexDeletion ==
    ASSUME IInv, DInv, NEW r \in Requests, UploadIndex(r)
    PROVE  DInv'
<1>. USE DEF IInv, DInv, UploadIndex, Goto, rowVars, index, bootVars, history
<1>1. WritersApart'
  BY DEF TypeOK, WritersApart, Ingesting, DeletePoints
<1>2. DeletionProgress'
  BY DEF TypeOK, DeletionProgress, WritersApart, Ingesting, DeletePoints, Absent
<1>3. (BootRows /\ IngestedVectors)'
  BY DEF TypeOK, BootRows, IngestedVectors
<1>4. SearchableHeld'
  BY DEF TypeOK, SearchableHeld, InFlight, Busy
<1>5. DeletedIsGone'
  BY DEF DeletedIsGone, WritersApart, Ingesting
<1>. QED
  BY <1>1, <1>2, <1>3, <1>4, <1>5 DEF DInv

LEMMA UploadFailDeletion ==
    ASSUME IInv, DInv, NEW r \in Requests, UploadFail(r)
    PROVE  DInv'
<1>. USE DEF IInv, DInv, UploadFail, Finish, UpdateStatus, FailureAfter, Goto,
     rowVars, index, bootVars, history
<1>1. WritersApart'
  BY DEF TypeOK, WritersApart, Ingesting, DeletePoints, RetryPoints
<1>2. DeletionProgress'
  BY DEF TypeOK, DeletionProgress, DeletePoints, Absent
<1>3. (BootRows /\ IngestedVectors)'
  BY DEF TypeOK, BootRows, IngestedVectors, IngestingRow, Ingesting
<1>4. SearchableHeld'
  BY DEF TypeOK, SearchableHeld, DeletePoints, InFlight, Busy
<1>5. DeletedIsGone'
  BY DEF DeletedIsGone
<1>. QED
  BY <1>1, <1>2, <1>3, <1>4, <1>5 DEF DInv

LEMMA UploadCompleteDeletion ==
    ASSUME IInv, DInv, NEW r \in Requests, UploadComplete(r)
    PROVE  DInv'
<1>. USE DEF IInv, DInv, UploadComplete, Finish, Goto, rowVars, index, bootVars,
     history
<1>1. WritersApart'
  BY DEF TypeOK, WritersApart, Ingesting, DeletePoints, RetryPoints
<1>2. DeletionProgress'
  BY DEF TypeOK, DeletionProgress, WritersApart, Ingesting, DeletePoints, Absent
<1>3. (BootRows /\ IngestedVectors)'
  BY DEF TypeOK, BootRows, IngestedVectors
<1>4. SearchableHeld'
  BY DEF TypeOK, SearchableHeld, IngestedVectors, InFlight, Busy
<1>5. DeletedIsGone'
  BY DEF DeletedIsGone, TypeOK
<1>. QED
  BY <1>1, <1>2, <1>3, <1>4, <1>5 DEF DInv

LEMMA DeleteLoadDeletion ==
    ASSUME IInv, DInv, NEW r \in Requests, NEW d \in Docs, DeleteLoad(r, d)
    PROVE  DInv'
<1>. USE DEF IInv, DInv, DeleteLoad, Goto, Active, rowVars, index, bootVars, history
<1>1. WritersApart'
  BY DEF TypeOK, WritersApart, Ingesting, RetryPoints, UploadPoints, InFlight,
       Busy
<1>2. DeletionProgress'
  BY DEF TypeOK, DeletionProgress, Absent
<1>3. (BootRows /\ IngestedVectors)'
  BY DEF TypeOK, BootRows, IngestedVectors
<1>4. SearchableHeld'
  BY DEF TypeOK, SearchableHeld, DeletePoints, InFlight, Busy
<1>5. DeletedIsGone'
  BY DEF DeletedIsGone
<1>. QED
  BY <1>1, <1>2, <1>3, <1>4, <1>5 DEF DInv

LEMMA DeleteFilterDeletion ==
    ASSUME IInv, DInv, NEW r \in Requests, DeleteFilter(r)
    PROVE  DInv'
<1>. USE DEF IInv, DInv, DeleteFilter, Goto, rowVars, index, bootVars, history
<1>1. WritersApart'
  BY DEF TypeOK, WritersApart, Ingesting, DeletePoints, RetryPoints
<1>2. DeletionProgress'
  BY DEF TypeOK, DeletionProgress, DeletePoints, Absent
<1>3. (BootRows /\ IngestedVectors)'
  BY DEF TypeOK, BootRows, IngestedVectors, WritersApart, Ingesting,
       DeletePoints
<1>4. SearchableHeld'
  BY DEF TypeOK, SearchableHeld, DeletePoints, InFlight, Busy
<1>5. DeletedIsGone'
  BY DEF DeletedIsGone
<1>. QED
  BY <1>1, <1>2, <1>3, <1>4, <1>5 DEF DInv

LEMMA DeleteAssignDeletion ==
    ASSUME IInv, DInv, NEW r \in Requests, DeleteAssign(r)
    PROVE  DInv'
<1>. USE DEF IInv, DInv, DeleteAssign, Goto, rowVars, index, bootVars, history
<1>1. WritersApart'
  BY DEF TypeOK, WritersApart, Ingesting, DeletePoints, RetryPoints
<1>2. DeletionProgress'
  BY DEF TypeOK, FilteredAlone, DeletionProgress, DeletePoints, Absent
<1>3. (BootRows /\ IngestedVectors)'
  BY DEF TypeOK, BootRows, IngestedVectors, FilteredAlone, WritersApart, Ingesting,
       DeletePoints
<1>4. SearchableHeld'
  BY DEF TypeOK, SearchableHeld, FilteredAlone, DeletePoints, InFlight, Busy
<1>5. DeletedIsGone'
  BY DEF DeletedIsGone, TypeOK, FilteredAlone
<1>. QED
  BY <1>1, <1>2, <1>3, <1>4, <1>5 DEF DInv

LEMMA DeleteDropsNothingDeletion ==
    ASSUME IInv, DInv, NEW r \in Requests, DeleteDropsNothing(r)
    PROVE  DInv'
<1>. USE DEF IInv, DInv, DeleteDropsNothing, Goto, rowVars, index, bootVars, history
<1>1. WritersApart'
  BY DEF TypeOK, WritersApart, Ingesting, DeletePoints, RetryPoints
<1>2. DeletionProgress'
  BY DEF TypeOK, FilteredAlone, DeletionProgress, DeletePoints, Absent
<1>3. (BootRows /\ IngestedVectors)'
  BY DEF TypeOK, BootRows, IngestedVectors, WritersApart, Ingesting,
       DeletePoints
<1>4. SearchableHeld'
  BY DEF TypeOK, SearchableHeld, DeletePoints, InFlight, Busy
<1>5. DeletedIsGone'
  BY DEF DeletedIsGone
<1>. QED
  BY <1>1, <1>2, <1>3, <1>4, <1>5 DEF DInv

LEMMA DeleteFileDeletion ==
    ASSUME IInv, DInv, NEW r \in Requests, DeleteFile(r)
    PROVE  DInv'
<1>. USE DEF IInv, DInv, DeleteFile, Goto, rowVars, index, bootVars, history
<1>1. WritersApart'
  BY DEF TypeOK, WritersApart, Ingesting, DeletePoints, RetryPoints
<1>2. DeletionProgress'
  BY DEF TypeOK, DeletionProgress, DeletePoints, Absent
<1>3. (BootRows /\ IngestedVectors)'
  BY DEF TypeOK, BootRows, IngestedVectors
<1>4. SearchableHeld'
  BY DEF TypeOK, SearchableHeld, DeletePoints, InFlight, Busy
<1>5. DeletedIsGone'
  BY DEF DeletedIsGone
<1>. QED
  BY <1>1, <1>2, <1>3, <1>4, <1>5 DEF DInv

LEMMA DeleteMarkDeletion ==
    ASSUME IInv, DInv, NEW r \in Requests, DeleteMark(r)
    PROVE  DInv'
<1>. USE DEF IInv, DInv, DeleteMark, Finish, UpdateStatus, Goto, rowVars, index,
     bootVars, history
<1>1. WritersApart'
  BY DEF TypeOK, WritersApart, Ingesting, DeletePoints, RetryPoints
<1>2. DeletionProgress'
  BY DEF TypeOK, DeletionProgress, DeletePoints, Absent
<1>3. (BootRows /\ IngestedVectors)'
  BY DEF TypeOK, BootRows, IngestedVectors, QuietBoot
<1>4. SearchableHeld'
  BY DEF SearchableHeld, TypeOK, InFlight, Busy
<1>5. DeletedIsGone'
  BY DEF DeletedIsGone, DeletionProgress, DeletePoints
<1>. QED
  BY <1>1, <1>2, <1>3, <1>4, <1>5 DEF DInv

LEMMA RetryLoadDeletion ==
    ASSUME IInv, DInv, NEW r \in Requests, NEW d \in Docs, RetryLoad(r, d)
    PROVE  DInv'
<1>. USE DEF IInv, DInv, RetryLoad, Goto, rowVars, index, bootVars, history
<1>1. WritersApart'
  BY DEF TypeOK, WritersApart, DeletePoints, InFlight, Busy
<1>2. DeletionProgress'
  BY DEF TypeOK, DeletionProgress, DeletePoints, Absent
<1>3. (BootRows /\ IngestedVectors)'
  BY DEF TypeOK, BootRows, IngestedVectors
<1>4. SearchableHeld'
  BY DEF TypeOK, SearchableHeld, DeletePoints, InFlight, Busy
<1>5. DeletedIsGone'
  BY DEF DeletedIsGone
<1>. QED
  BY <1>1, <1>2, <1>3, <1>4, <1>5 DEF DInv

LEMMA RetryScheduleDeletion ==
    ASSUME IInv, DInv, NEW r \in Requests, RetrySchedule(r)
    PROVE  DInv'
<1>. USE DEF IInv, DInv, RetrySchedule, Goto, UpdateStatus, rowVars, index, bootVars,
     history
<1>1. WritersApart'
  BY DEF TypeOK, WritersApart, DeletePoints, RetryPoints
<1>2. DeletionProgress'
  BY DEF TypeOK, DeletionProgress, DeletePoints, Absent
<1>3. (BootRows /\ IngestedVectors)'
  BY DEF TypeOK, BootRows, IngestedVectors, QuietBoot
<1>4. SearchableHeld'
  BY DEF TypeOK, SearchableHeld, DeletePoints, InFlight, Busy
<1>5. DeletedIsGone'
  BY DEF DeletedIsGone
<1>. QED
  BY <1>1, <1>2, <1>3, <1>4, <1>5 DEF DInv

LEMMA RestartDeletion ==
    ASSUME IInv, DInv, Restart
    PROVE  DInv'
<1>. USE DEF IInv, DInv, Restart, BootList, rowVars, index, bootVars, history
<1>1. WritersApart'
  BY DEF WritersApart, Ingesting, RetryPoints
<1>2. DeletionProgress'
  BY DEF DeletionProgress, DeletePoints
<1>3. (BootRows /\ IngestedVectors)'
  BY DEF BootRows, IngestedVectors
<1>4. SearchableHeld'
  BY DEF SearchableHeld
<1>5. DeletedIsGone'
  BY DEF DeletedIsGone
<1>. QED
  BY <1>1, <1>2, <1>3, <1>4, <1>5 DEF DInv

LEMMA BootIndexDeletion ==
    ASSUME IInv, DInv, NEW d \in Docs, BootIndex(d)
    PROVE  DInv'
<1>. USE DEF IInv, DInv, BootIndex, rowVars, index, bootVars, history
<1>1. WritersApart'
  BY DEF WritersApart
<1>2. DeletionProgress'
  BY DEF DeletionProgress, QuietBoot, DeletePoints
<1>3. (BootRows /\ IngestedVectors)'
  BY DEF BootRows, IngestedVectors
<1>4. SearchableHeld'
  BY DEF SearchableHeld, InFlight, Busy
<1>5. DeletedIsGone'
  BY DEF DeletedIsGone, BootRows
<1>. QED
  BY <1>1, <1>2, <1>3, <1>4, <1>5 DEF DInv

LEMMA BootSkipDeletion ==
    ASSUME IInv, DInv, NEW d \in Docs, BootSkip(d)
    PROVE  DInv'
<1>. USE DEF IInv, DInv, BootSkip, rowVars, index, bootVars, history
<1>1. WritersApart'
  BY DEF WritersApart
<1>2. DeletionProgress'
  BY DEF DeletionProgress, QuietBoot, DeletePoints
<1>3. (BootRows /\ IngestedVectors)'
  BY DEF BootRows, IngestedVectors
<1>4. SearchableHeld'
  BY DEF SearchableHeld, InFlight, Busy
<1>5. DeletedIsGone'
  BY DEF DeletedIsGone, BootRows
<1>. QED
  BY <1>1, <1>2, <1>3, <1>4, <1>5 DEF DInv

LEMMA BootDoneDeletion ==
    ASSUME IInv, DInv, BootDone
    PROVE  DInv'
<1>. USE DEF IInv, DInv, BootDone, rowVars, index, bootVars, history
<1>1. WritersApart'
  BY DEF WritersApart
<1>2. DeletionProgress'
  BY DEF DeletionProgress, Absent
<1>3. (BootRows /\ IngestedVectors)'
  BY DEF BootRows, IngestedVectors
<1>4. SearchableHeld'
  BY DEF SearchableHeld, InFlight, Busy
<1>5. DeletedIsGone'
  BY DEF DeletedIsGone
<1>. QED
  BY <1>1, <1>2, <1>3, <1>4, <1>5 DEF DInv

LEMMA EndOfRequestDeletion ==
    ASSUME IInv, DInv, NEW r \in Requests, EndOfRequest(r)
    PROVE  DInv'
<1>. USE DEF IInv, DInv, EndOfRequest, Finish, Goto, rowVars, index, bootVars,
     history
<1>1. WritersApart'
  BY DEF TypeOK, WritersApart, Ingesting, DeletePoints, RetryPoints
<1>2. DeletionProgress'
  BY DEF TypeOK, DeletionProgress, DeletePoints, Absent
<1>3. (BootRows /\ IngestedVectors)'
  BY DEF TypeOK, BootRows, IngestedVectors
<1>4. SearchableHeld'
  BY DEF TypeOK, SearchableHeld, InFlight, Busy
<1>5. DeletedIsGone'
  BY DEF DeletedIsGone
<1>. QED
  BY <1>1, <1>2, <1>3, <1>4, <1>5 DEF DInv

LEMMA InitDInv == Init => DInv
BY DEF Init, DInv, WritersApart, DeletionProgress, BootRows, IngestedVectors,
     SearchableHeld, DeletedIsGone, Ingesting, DeletePoints, RetryPoints

LEMMA NextDInv == IInv /\ DInv /\ [Next]_vars => DInv'
<1>1. ASSUME IInv, DInv, Next PROVE DInv'
    BY <1>1, NextCases, UploadCheckDeletion, UploadCreateDeletion,
     UploadStoreDeletion, UploadExtendDeletion, UploadIndexDeletion, UploadFailDeletion,
     UploadCompleteDeletion, DeleteLoadDeletion, DeleteFilterDeletion, DeleteAssignDeletion, DeleteDropsNothingDeletion,
     DeleteFileDeletion, DeleteMarkDeletion, RetryLoadDeletion,
     RetryScheduleDeletion, RestartDeletion, BootIndexDeletion,
     BootSkipDeletion, BootDoneDeletion, EndOfRequestDeletion
<1>2. ASSUME IInv, DInv, UNCHANGED vars PROVE DInv'
  BY <1>2 DEF DInv, WritersApart, DeletionProgress, BootRows, IngestedVectors,
       SearchableHeld, DeletedIsGone, Absent, InFlight, Busy, vars, rowVars, index,
       bootVars, history
<1>3. QED
  BY <1>1, <1>2

(* The invariant about deletions holds in every reachable state.           *)
THEOREM DeletionInvariance == Spec => [](IInv /\ DInv)
BY InitIInv, NextIInv, InitDInv, NextDInv, PTL DEF Spec

(* A deletion that met no upload or retry of its document leaves no vector *)
(* and, once the row had a saved path, no file.                            *)
THEOREM DeletionIsComplete == Spec => []DeletedIsGone
<1>1. DInv => DeletedIsGone
  BY DEF DInv
<1>2. QED
  BY <1>1, DeletionInvariance, PTL

(* While the application serves, a SEARCHABLE row is in the index, through *)
(* races, failures and restarts, but for the cases the property names.     *)
THEOREM SearchableCanBeFound == Spec => []SearchableIsIndexed
<1>1. IInv /\ DInv => SearchableIsIndexed
  BY DEF IInv, DInv, SearchableHeld, BootRows, SearchableIsIndexed, InFlight, Busy,
       DeletePoints
<1>2. QED
  BY <1>1, DeletionInvariance, PTL

(* A deletion that met no upload or retry is final: no step of any request *)
(* or of the start-up hook writes the row's status again.                  *)
THEOREM DeletionIsFinal == Spec => StaysDeleted
<1>1. ASSUME IInv, DInv, Next, NEW d \in Docs, status[d] = "deleted", d \notin overlapped
      PROVE  status'[d] = "deleted"
  <2>. USE DEF IInv, DInv, TypeOK, IngestingRow, WritersApart, Ingesting,
       RetryPoints, RetryingRow, Absent, rowVars, UpdateStatus
  <2>1. CASE \E r \in Requests : \E n \in Names, c \in Sums : UploadCheck(r, n, c)
    BY <1>1, <2>1 DEF UploadCheck
  <2>2. CASE \E r \in Requests, e \in Docs : UploadCreate(r, e)
    BY <1>1, <2>2 DEF UploadCreate
  <2>3. CASE \E r \in Requests : UploadFail(r) \/ UploadComplete(r)
    BY <1>1, <2>3 DEF UploadFail, UploadComplete
  <2>4. CASE \E r \in Requests : DeleteMark(r) \/ RetrySchedule(r)
    BY <1>1, <2>4 DEF DeleteMark, RetrySchedule
  <2>5. CASE UNCHANGED rowVars
    BY <1>1, <2>5
  <2>6. QED
    BY <1>1, <2>1, <2>2, <2>3, <2>4, <2>5, NextCases
       DEF UploadStore, UploadExtend, UploadIndex, DeleteLoad, DeleteFilter,
           DeleteAssign, DeleteDropsNothing, DeleteFile, RetryLoad,
           EndOfRequest, Restart, BootIndex, BootSkip, BootDone
<1>2. ASSUME UNCHANGED vars, NEW d \in Docs, status[d] = "deleted"
      PROVE  status'[d] = "deleted"
  BY <1>2 DEF vars, rowVars
<1>3. IInv /\ DInv /\ [Next]_vars
        => [\A d \in Docs : status[d] = "deleted" /\ d \notin overlapped
                               => status'[d] = "deleted"]_vars
  BY <1>1, <1>2
<1>4. QED
  BY <1>3, DeletionInvariance, PTL DEF Spec, StaysDeleted

=============================================================================
