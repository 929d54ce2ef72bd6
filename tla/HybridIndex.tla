---------------------------- MODULE HybridIndex ----------------------------
(***************************************************************************)
(* The dense and the sparse index side by side: HybridIndexStore, the      *)
(* BM25Index with its file bm25_corpus.json, the check that brings them    *)
(* back in line, and their reconstruction at start-up (backend/app/rag/    *)
(* hybrid, backend/app/services/document_service.py).                      *)
(*                                                                         *)
(* Every document has one chunk. BM25Index keeps its lists side by side    *)
(* and changes one after the other, without a lock: each change of a list  *)
(* is a step. _document_ids also stands for _tokenized_corpus, which is    *)
(* changed right after it; the scores of rank_bm25 are left out. A change  *)
(* of the dense index is one step: DenseIndex shows what happens inside.   *)
(***************************************************************************)
EXTENDS Naturals, FiniteSets, Sequences, Functions

CONSTANTS
    Writers,      \* threads that upload or delete
    Askers,       \* threads that ask questions
    Docs,
    Nobody,       \* Python's None: no document, or an entry without owner
    Live,         \* a reference to the list of owners the dense index has
    Missing,      \* the file does not exist
    Torn,         \* the file was truncated and not written yet
    DiskFaults,   \* whether writing the file may fail
    MaxRestarts,  \* bound: restarts of the process
    MaxRepairs    \* bound: questions that find the sizes different

Threads == Writers \cup Askers

(* _chunks, _chunk_ids and _document_ids, in the order in which they are   *)
(* changed.                                                                *)
Lists == 1..3
Chunks == 1
Ids    == 2
Owners == 3

VARIABLES
    dense,      \* the list of chunks of the FAISS index, as documents
    lists,      \* the lists of BM25Index, as documents
    disk,       \* the file: Missing, Torn, or the lists as saved
    rows,       \* documents the table calls SEARCHABLE
    requested,  \* documents an add was called for
    at,         \* where each thread stands
    task,       \* what it does: add, remove, or sync
    doc,        \* a writer's document
    local,      \* what a thread holds of the lists: those a removal
                \* keeps, those a question rebuilds from, or the payload
    step,       \* the list a thread changes next
    entry,      \* entries a rebuild has appended
    repairs,    \* questions that found the sizes different
    phase,      \* of the process
    todo,       \* rows the bootstrap has still to index
    restarts,
    disturbed,  \* history: whether two requests have been at work at once,
                \* or a start-up left the two indexes as they were
    lone        \* history: the last request to begin was a question that
                \* found nobody at work

stores == <<dense, lists, disk>>
threads == <<at, task, doc, local, step, entry>>
process == <<phase, todo, restarts, repairs>>
history == <<disturbed, lone>>
vars == <<stores, rows, requested, threads, process, history>>

Empty == [k \in Lists |-> <<>>]
SameLength(all) == \A k \in Lists : Len(all[k]) = Len(all[Chunks])

(* What remove_document keeps of a list whose entries the other list owns. *)
Kept(list, by, d) ==
    LET kept[i \in 0..Len(by)] ==
            IF i = 0 THEN <<>>
            ELSE IF by[i] = d THEN kept[i - 1]
            ELSE Append(kept[i - 1], list[i])
    IN  kept[Len(by)]

(* The owners a rebuild reads: the dense index's own list, as long as no   *)
(* removal has put another in its place.                                   *)
OwnersSeen(t) == IF local[t][Owners] = Live THEN dense ELSE local[t][Owners]

Goto(t, p) == at' = [at EXCEPT ![t] = p]

(* One list is changed; the next one is due, or what comes after the last. *)
NextList(t, here, after) ==
    /\ step' = [step EXCEPT ![t] = IF @ = 3 THEN 1 ELSE @ + 1]
    /\ Goto(t, IF step[t] = 3 THEN after ELSE here)

-----------------------------------------------------------------------------
(***************************************************************************)
(* Mutants: a plausible slip in the definition each is named after.        *)
(***************************************************************************)

(* The sparse index is left alone.                                         *)
RemoveFilterForgotten(t) ==
    /\ at[t] = "sparse"
    /\ Goto(t, "commit")
    /\ UNCHANGED <<stores, rows, requested, task, doc, local, step, entry, process, history>>

(* The list of owners is not emptied.                                      *)
SyncClearKeepsOwners(t) ==
    /\ at[t] = "clearing"
    /\ lists' = IF step[t] = 3 THEN lists ELSE [lists EXCEPT ![step[t]] = <<>>]
    /\ NextList(t, "clearing", "unlinking")
    /\ UNCHANGED <<dense, disk, rows, requested, task, doc, local, entry, process, history>>

(* The new lists are not saved.                                            *)
AddSparseUnsaved(t) ==
    /\ at[t] = "adding"
    /\ lists' = [lists EXCEPT ![step[t]] = Append(@, doc[t])]
    /\ NextList(t, "adding", "commit")
    /\ UNCHANGED <<dense, disk, rows, requested, task, doc, local, entry, process, history>>

-----------------------------------------------------------------------------
Init ==
    /\ dense = <<>>
    /\ lists = Empty
    /\ disk = Missing
    /\ rows = {}
    /\ requested = {}
    /\ at = [t \in Threads |-> "idle"]
    /\ task = [t \in Threads |-> "none"]
    /\ doc = [t \in Threads |-> Nobody]
    /\ local = [t \in Threads |-> Empty]
    /\ step = [t \in Threads |-> 1]
    /\ entry = [t \in Threads |-> 0]
    /\ phase = "serving"
    /\ todo = {}
    /\ restarts = 0
    /\ repairs = 0
    /\ disturbed = FALSE
    /\ lone = FALSE

(* A request starts with work that changes the dense index or reads it.    *)
Begin(t, what, point) ==
    /\ phase = "serving"
    /\ at[t] = "idle"
    /\ task' = [task EXCEPT ![t] = what]
    /\ Goto(t, point)
    /\ disturbed' = (disturbed \/ \E u \in Threads : at[u] # "idle")
    /\ lone' = (what = "sync" /\ \A u \in Threads : at[u] = "idle")

(* Everything a request forgets when it ends.                              *)
End(t) ==
    /\ Goto(t, "idle")
    /\ task' = [task EXCEPT ![t] = "none"]
    /\ doc' = [doc EXCEPT ![t] = Nobody]
    /\ local' = [local EXCEPT ![t] = Empty]
    /\ step' = [step EXCEPT ![t] = 1]
    /\ entry' = [entry EXCEPT ![t] = 0]

(***************************************************************************)
(* HybridIndexStore.add_chunks and remove_document: dense, then sparse,    *)
(* then the file; the row follows when the store has returned.             *)
(***************************************************************************)
AddDense(t, d) ==
    /\ d \notin requested
    /\ Begin(t, "add", "adding")
    /\ requested' = requested \cup {d}
    /\ doc' = [doc EXCEPT ![t] = d]
    /\ dense' = Append(dense, d)
    /\ UNCHANGED <<lists, disk, rows, local, step, entry, process>>

AddSparse(t) ==
    /\ at[t] = "adding"
    /\ lists' = [lists EXCEPT ![step[t]] = Append(@, doc[t])]
    /\ NextList(t, "adding", "dump")
    /\ UNCHANGED <<dense, disk, rows, requested, task, doc, local, entry, process, history>>

(* A document that is still being processed has no row here yet: its       *)
(* deletion is in DocumentLifecycle. A removal that drops anything gives   *)
(* the dense index new lists; who holds the old list of owners keeps it.   *)
RemoveDense(t, d) ==
    /\ d \in rows
    /\ Begin(t, "remove", "sparse")
    /\ doc' = [doc EXCEPT ![t] = d]
    /\ dense' = Kept(dense, dense, d)
    /\ local' = IF Len(dense') = Len(dense) THEN local
                ELSE [u \in Threads |->
                         [local[u] EXCEPT ![Owners] = IF @ = Live THEN dense ELSE @]]
    /\ UNCHANGED <<lists, disk, rows, requested, step, entry, process>>

(* BM25Index.remove_document: nothing to do, or the kept entries ...       *)
RemoveFilter(t) ==
    /\ at[t] = "sparse"
    /\ IF lists[Chunks] = <<>>
       THEN Goto(t, "commit") /\ UNCHANGED local
       ELSE /\ SameLength(lists)
            /\ local' = [local EXCEPT ![t] =
                            [k \in Lists |-> Kept(lists[k], lists[Owners], doc[t])]]
            /\ Goto(t, "comparing")
    /\ UNCHANGED <<stores, rows, requested, task, doc, step, entry, process, history>>

(* ... or the ValueError of the strict zip over lists of unequal length,   *)
(* which ends the deletion ...                                             *)
RemoveRaises(t) ==
    /\ at[t] = "sparse"
    /\ lists[Chunks] # <<>> /\ ~SameLength(lists)
    /\ End(t)
    /\ UNCHANGED <<stores, rows, requested, process, history>>

(* ... nothing is stored or saved if no entry was dropped ...              *)
RemoveCompare(t) ==
    /\ at[t] = "comparing"
    /\ Goto(t, IF Len(local[t][Chunks]) = Len(lists[Chunks]) THEN "commit" ELSE "assigning")
    /\ UNCHANGED <<stores, rows, requested, task, doc, local, step, entry, process, history>>

(* ... and the lists are assigned in turn.                                 *)
RemoveAssign(t) ==
    /\ at[t] = "assigning"
    /\ lists' = [lists EXCEPT ![step[t]] = local[t][step[t]]]
    /\ NextList(t, "assigning", "dump")
    /\ UNCHANGED <<dense, disk, rows, requested, task, doc, local, entry, process, history>>

(* The row becomes SEARCHABLE, or DELETED.                                 *)
Commit(t) ==
    /\ at[t] = "commit"
    /\ rows' = CASE task[t] = "add"    -> rows \cup {doc[t]}
                 [] task[t] = "remove" -> rows \ {doc[t]}
                 [] task[t] = "sync"   -> rows
    /\ End(t)
    /\ UNCHANGED <<stores, requested, process, history>>

(***************************************************************************)
(* BM25Index._persist: serialize, open for writing, write. There is no     *)
(* temporary file. What is written to a file that was unlinked is lost.    *)
(***************************************************************************)
Serialize(t) ==
    /\ at[t] = "dump"
    /\ local' = [local EXCEPT ![t] = lists]
    /\ Goto(t, "open")
    /\ UNCHANGED <<stores, rows, requested, task, doc, step, entry, process, history>>

Truncate(t) ==
    /\ at[t] = "open"
    /\ disk' = Torn
    /\ Goto(t, "write")
    /\ UNCHANGED <<dense, lists, rows, requested, task, doc, local, step, entry, process, history>>

Write(t) ==
    /\ at[t] = "write"
    /\ disk' = IF disk = Missing THEN Missing ELSE local[t]
    /\ Goto(t, "commit")
    /\ UNCHANGED <<dense, lists, rows, requested, task, doc, local, step, entry, process, history>>

(* The disk is full: the exception ends the request, its row is not        *)
(* written.                                                                *)
WriteFails(t) ==
    /\ DiskFaults
    /\ at[t] = "write"
    /\ End(t)
    /\ UNCHANGED <<stores, rows, requested, process, history>>

(***************************************************************************)
(* ensure_bm25_synced, before every hybrid search: only the sizes are      *)
(* compared, and the size of the sparse index is that of its identifiers.  *)
(* Equal sizes need no step.                                               *)
(***************************************************************************)
SyncNeeded(t) ==
    /\ Len(lists[Ids]) # Len(dense)
    /\ repairs < MaxRepairs
    /\ repairs' = repairs + 1
    /\ Begin(t, "sync", "copying")
    /\ UNCHANGED <<stores, rows, requested, doc, local, step, entry, phase, todo, restarts>>

(* vector_store.chunks is a copy ...                                       *)
SyncCopy(t) ==
    /\ at[t] = "copying"
    /\ local' = [local EXCEPT ![t][Chunks] = dense]
    /\ Goto(t, "copying_ids")
    /\ UNCHANGED <<stores, rows, requested, task, doc, step, entry, process, history>>

(* ... the identifiers are those of another copy, and the owners are no    *)
(* copy at all.                                                            *)
SyncCopyIds(t) ==
    /\ at[t] = "copying_ids"
    /\ local' = [local EXCEPT ![t][Ids] = dense, ![t][Owners] = Live]
    /\ Goto(t, "clearing")
    /\ UNCHANGED <<stores, rows, requested, task, doc, step, entry, process, history>>

(* clear: the lists in turn, then the file. rebuild_from_chunks makes up   *)
(* for identifiers or owners that are empty.                               *)
SyncClear(t) ==
    /\ at[t] = "clearing"
    /\ lists' = [lists EXCEPT ![step[t]] = <<>>]
    /\ NextList(t, "clearing", "unlinking")
    /\ UNCHANGED <<dense, disk, rows, requested, task, doc, local, entry, process, history>>

SyncUnlink(t) ==
    /\ at[t] = "unlinking"
    /\ disk' = Missing
    /\ local' = [local EXCEPT
           ![t][Ids] = IF @ = <<>> THEN local[t][Chunks] ELSE @,
           ![t][Owners] = IF OwnersSeen(t) = <<>>
                          THEN [i \in DOMAIN local[t][Chunks] |-> Nobody] ELSE @]
    /\ Goto(t, IF local[t][Chunks] = <<>> THEN "commit" ELSE "filling")
    /\ UNCHANGED <<dense, lists, rows, requested, task, doc, step, entry, process, history>>

(* The loop of rebuild_from_chunks takes the next chunk, identifier and    *)
(* owner together ...                                                      *)
Sources(t) == <<local[t][Chunks], local[t][Ids], OwnersSeen(t)>>
Taken(t) == \A k \in Lists : entry[t] < Len(Sources(t)[k])
Exhausted(t) == \A k \in Lists : entry[t] >= Len(Sources(t)[k])

(* ... and appends to the three lists in turn.                             *)
SyncFill(t) ==
    /\ at[t] = "filling"
    /\ step[t] = 1 => Taken(t)
    /\ lists' = [lists EXCEPT ![step[t]] = Append(@, Sources(t)[step[t]][entry[t] + 1])]
    /\ entry' = [entry EXCEPT ![t] = IF step[t] = 3 THEN @ + 1 ELSE @]
    /\ NextList(t, "filling", "filling")
    /\ UNCHANGED <<dense, disk, rows, requested, task, doc, local, process, history>>

SyncDone(t) ==
    /\ at[t] = "filling"
    /\ step[t] = 1
    /\ Exhausted(t)
    /\ Goto(t, "dump")
    /\ UNCHANGED <<stores, rows, requested, task, doc, local, step, entry, process, history>>

(* The strict zip raises when one of the three ends before another: the    *)
(* question fails, and nothing is saved.                                   *)
SyncRaises(t) ==
    /\ at[t] = "filling"
    /\ step[t] = 1
    /\ ~Taken(t) /\ ~Exhausted(t)
    /\ End(t)
    /\ UNCHANGED <<stores, rows, requested, process, history>>

(***************************************************************************)
(* Restart.                                                                *)
(***************************************************************************)
Crash ==
    /\ phase # "broken"
    /\ restarts < MaxRestarts
    /\ restarts' = restarts + 1
    /\ dense' = <<>>
    /\ lists' = Empty
    /\ at' = [t \in Threads |-> "idle"]
    /\ task' = [t \in Threads |-> "none"]
    /\ doc' = [t \in Threads |-> Nobody]
    /\ local' = [t \in Threads |-> Empty]
    /\ step' = [t \in Threads |-> 1]
    /\ entry' = [t \in Threads |-> 0]
    /\ phase' = "loading"
    /\ todo' = rows
    /\ lone' = FALSE
    /\ UNCHANGED <<disk, rows, requested, repairs, disturbed>>

(* BM25Index.load, when get_document_service builds the store.             *)
Load ==
    /\ phase = "loading"
    /\ disk # Torn
    /\ lists' = IF disk = Missing THEN Empty ELSE disk
    /\ phase' = "booting"
    /\ UNCHANGED <<dense, disk, rows, requested, threads, todo, restarts, repairs, history>>

(* json.loads raises on a torn file. The start-up hook logs it and goes    *)
(* on; every request that needs the document service raises it again.      *)
LoadRaises ==
    /\ phase = "loading"
    /\ disk = Torn
    /\ phase' = "broken"
    /\ UNCHANGED <<stores, rows, requested, threads, todo, restarts, repairs, history>>

(* reindex_document_vectors: remove, then add, in both indexes. There is   *)
(* nothing to remove from the dense index, which is new. The last save of  *)
(* the file is in progress.                                                *)
BootIndex(d) ==
    /\ phase = "booting"
    /\ d \in todo
    /\ lists[Chunks] = <<>> \/ SameLength(lists)
    /\ dense' = Append(dense, d)
    /\ lists' = [k \in Lists |->
                    Append(IF lists[Chunks] = <<>> THEN lists[k]
                           ELSE Kept(lists[k], lists[Owners], d), d)]
    /\ disk' = Torn
    /\ phase' = "saving"
    /\ todo' = todo \ {d}
    /\ UNCHANGED <<rows, requested, threads, restarts, repairs, history>>

(* The file of the document cannot be read, or the removal raises over     *)
(* lists of unequal length: logged.                                        *)
BootSkip(d) ==
    /\ phase = "booting"
    /\ d \in todo
    /\ todo' = todo \ {d}
    /\ UNCHANGED <<stores, rows, requested, threads, phase, restarts, repairs, history>>

(* RAGEngine.initialize, at the end of start-up: as ensure_bm25_synced.    *)
BootSync ==
    /\ phase = "booting"
    /\ todo = {}
    /\ IF Len(lists[Ids]) = Len(dense)
       THEN /\ phase' = "serving"
            /\ UNCHANGED <<lists, disk>>
       ELSE /\ lists' = [k \in Lists |-> dense]
            /\ phase' = IF dense = <<>> THEN "serving" ELSE "saving"
            /\ disk' = IF dense = <<>> THEN Missing ELSE Torn
    /\ UNCHANGED <<dense, rows, requested, threads, todo, restarts, repairs, history>>

(* The error of a write that fails is logged, here too.                    *)
BootSave ==
    /\ phase = "saving"
    /\ disk' = lists \/ (DiskFaults /\ disk' = Torn)
    /\ phase' = "booting"
    /\ UNCHANGED <<dense, lists, rows, requested, threads, todo, restarts, repairs, history>>

(* The database is down, its query fails or the engine cannot be built:    *)
(* the error is logged, nothing more is rebuilt, nothing is compared, and  *)
(* the application serves.                                                 *)
BootFails ==
    /\ phase = "booting"
    /\ phase' = "serving"
    /\ todo' = {}
    /\ disturbed' = TRUE
    /\ UNCHANGED <<stores, rows, requested, threads, restarts, repairs, lone>>

-----------------------------------------------------------------------------
Persist(t) == Serialize(t) \/ Truncate(t) \/ Write(t) \/ WriteFails(t)

Change(t) ==
    \/ \E d \in Docs : AddDense(t, d) \/ RemoveDense(t, d)
    \/ AddSparse(t)
    \/ RemoveFilter(t) \/ RemoveRaises(t) \/ RemoveCompare(t) \/ RemoveAssign(t)

Sync(t) ==
    \/ SyncNeeded(t) \/ SyncCopy(t) \/ SyncCopyIds(t) \/ SyncClear(t) \/ SyncUnlink(t)
    \/ SyncFill(t) \/ SyncDone(t) \/ SyncRaises(t)

Boot ==
    \/ Load \/ LoadRaises
    \/ \E d \in Docs : BootIndex(d) \/ BootSkip(d)
    \/ BootSync \/ BootSave \/ BootFails

Next ==
    \/ \E t \in Writers : Change(t)
    \/ \E t \in Askers : Sync(t)
    \/ \E t \in Threads : Persist(t) \/ Commit(t)
    \/ Crash
    \/ Boot

Spec == Init /\ [][Next]_vars

-----------------------------------------------------------------------------
Points == {"idle", "adding", "sparse", "comparing", "assigning", "commit", "dump", "open",
           "write", "copying", "copying_ids", "clearing", "unlinking", "filling"}
Quiet == phase = "serving" /\ \A t \in Threads : at[t] = "idle"

Entries == Seq(Docs \cup {Nobody})

(* Types: every variable keeps to the values the code can give it.         *)
TypeOK ==
    /\ dense \in Seq(Docs)
    /\ lists \in [Lists -> Entries]
    /\ disk \in {Missing, Torn} \cup [Lists -> Entries]
    /\ rows \subseteq requested
    /\ requested \subseteq Docs
    /\ at \in [Threads -> Points]
    /\ task \in [Threads -> {"none", "add", "remove", "sync"}]
    /\ doc \in [Threads -> Docs \cup {Nobody}]
    /\ local \in [Threads -> [Lists -> Entries \cup {Live}]]
    /\ step \in [Threads -> Lists]
    /\ entry \in [Threads -> Nat]
    /\ phase \in {"serving", "loading", "booting", "saving", "broken"}
    /\ todo \subseteq rows
    /\ restarts \in 0..MaxRestarts
    /\ repairs \in 0..MaxRepairs
    /\ disturbed \in BOOLEAN /\ lone \in BOOLEAN

(* The sparse index has an entry for each of the dense index, in the same  *)
(* place of each of its lists.                                             *)
InLine == \A k \in Lists : lists[k] = dense

(* ... or in some place.                                                   *)
SameDocuments ==
    \A k \in Lists : Len(lists[k]) = Len(dense) /\ Range(lists[k]) = Range(dense)

(* As long as no two requests were ever at work at once and every start-up *)
(* got through, the two indexes hold the same documents, once each, when   *)
(* no request is in progress, after crashes and failed writes too ("keep   *)
(* BM25 corpus in sync").                                                  *)
InSync == Quiet /\ ~disturbed => InLine

(* Whatever overlapping requests left behind, unequal lists included, a    *)
(* question that finds the sizes different and nobody at work repairs it,  *)
(* even if its file cannot be written ("Rebuild BM25 from FAISS chunks     *)
(* when indexes diverge").                                                 *)
LoneQuestionRepairs == Quiet /\ lone => InLine

(* A file that can be read restores what the sparse index holds, as long   *)
(* as no two requests were ever at work at once and every start-up got     *)
(* through.                                                                *)
FileIsCurrent ==
    Quiet /\ ~disturbed /\ disk \notin {Missing, Torn} => disk = lists

(* "Rebuild BM25 from FAISS chunks when indexes diverge", whatever requests *)
(* overlap: indexes that differ never have the same size for good.         *)
DivergenceAlwaysShows ==
    Quiet /\ Len(lists[Ids]) = Len(dense) => SameDocuments

(* The service comes up again after a crash ("Persistent BM25 index").     *)
StartsAgain == phase # "broken"

(* "Vector store wrapper that maintains synchronized dense and sparse      *)
(* indexes", whatever requests overlap.                                    *)
AlwaysInSync == Quiet => SameDocuments
=============================================================================
