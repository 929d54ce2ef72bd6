---------------------- MODULE SuggestedQuestionsProofs ----------------------
(***************************************************************************)
(* The cached pool of questions, for any number of readers and documents,  *)
(* any bounds of the mining and any failure of an upload or a deletion: a  *)
(* pool is mined once, and it is the one of the index when every change    *)
(* was announced.                                                          *)
(***************************************************************************)
EXTENDS SuggestedQuestions, TLAPS

(* The part of the types the argument needs.                               *)
Types ==
    /\ writer \in [Docs -> WriterPoints]
    /\ lock \in Readers \cup {None}
    /\ at \in [Readers -> ReaderPoints]
    /\ DOMAIN snapshot = Readers

(* Whoever mines holds the lock, and mines because there is no pool. Only  *)
(* the lock's holder makes one.                                            *)
OneMiner ==
    /\ \A r \in Readers : at[r] \in {"mining", "building"} <=> lock = r
    /\ lock # None => pool = None

(* A change is on its way to the cache, or an error keeps it from it.      *)
Outstanding == silent # {} \/ \E d \in Docs : Announced(d)

(* A copy that no longer is the index was overtaken by a change whose      *)
(* event waits for the lock, or comes later.                               *)
CopyIsCurrent ==
    \A r \in Readers : at[r] = "building" => snapshot[r] = index \/ Outstanding

PoolIsMined == pool # None /\ ~ fallback => pool = Mined(name, index) \/ Outstanding

Inv == Types /\ OneMiner /\ CopyIsCurrent /\ PoolIsMined

-----------------------------------------------------------------------------
LEMMA Initially == Init => Inv
BY ConstantsAssumption
   DEF Init, Inv, Types, OneMiner, CopyIsCurrent, PoolIsMined, WriterPoints, Uploading, ReaderPoints

(***************************************************************************)
(* A step of an upload or of a deletion that leaves the cache alone. It    *)
(* may change the index only on the way to an event.                       *)
(***************************************************************************)
LEMMA WriterStep ==
    ASSUME Inv, NEW d \in Docs, NEW p \in WriterPoints, WriterGoto(d, p),
           UNCHANGED <<name, cacheVars, readerVars>>,
           silent \subseteq silent',
           Announced(d) => Announced(d)' \/ silent' # {},
           index' # index => Announced(d)'
    PROVE  Inv'
<1> USE DEF Inv, cacheVars, readerVars
<1>1. \A e \in Docs : e # d => writer'[e] = writer[e]
  BY DEF WriterGoto, Types
<1>2. writer' \in [Docs -> WriterPoints] /\ Types'
  BY DEF WriterGoto, Types
<1>3. Outstanding => Outstanding'
  <2>1. ASSUME silent # {} PROVE silent' # {}
    BY <2>1
  <2>2. ASSUME NEW e \in Docs, Announced(e) PROVE Outstanding'
    BY <1>1, <2>2 DEF Outstanding, Announced
  <2> QED
    BY <2>1, <2>2 DEF Outstanding
<1>4. index' = index \/ Outstanding'
  BY DEF Outstanding
<1>5. OneMiner'
  BY DEF OneMiner
<1>6. CopyIsCurrent'
  BY <1>3, <1>4 DEF CopyIsCurrent
<1>7. PoolIsMined'
  BY <1>3, <1>4 DEF PoolIsMined
<1> QED
  BY <1>2, <1>5, <1>6, <1>7

(* A step of a request that neither mines nor takes or leaves the lock.    *)
LEMMA ReaderStep ==
    ASSUME Inv, NEW r \in Readers, NEW p \in ReaderPoints, ReaderGoto(r, p),
           at[r] \notin {"mining", "building"}, p \notin {"mining", "building"},
           UNCHANGED <<storeVars, cacheVars, snapshot, silent>>
    PROVE  Inv'
<1> USE DEF Inv, storeVars, cacheVars
<1>1. Types'
  BY DEF Types, ReaderGoto
<1>2. OneMiner'
  BY DEF OneMiner, Types, ReaderGoto
<1>3. Outstanding' <=> Outstanding
  BY DEF Outstanding, Announced
<1>4. CopyIsCurrent'
  BY <1>3 DEF CopyIsCurrent, Types, ReaderGoto
<1>5. PoolIsMined'
  BY <1>3 DEF PoolIsMined
<1> QED
  BY <1>1, <1>2, <1>4, <1>5

(* An event clears the pool while nobody mines.                            *)
LEMMA PublishKeeps ==
    ASSUME Inv, NEW d \in Docs, NEW from, NEW to \in WriterPoints, Publish(d, from, to)
    PROVE  Inv'
<1> USE DEF Publish, Inv, readerVars
<1>1. Types'
  BY DEF Types, WriterGoto
<1>2. \A r \in Readers : at[r] # "building"
  BY ConstantsAssumption DEF OneMiner
<1> QED
  BY <1>1, <1>2 DEF OneMiner, CopyIsCurrent, PoolIsMined

-----------------------------------------------------------------------------
LEMMA WriteKeeps == ASSUME Inv, NEW d \in Docs, Write(d) PROVE Inv'
<1> USE DEF WriterPoints, Uploading, Deleting, Announced
<1>0. writer \in [Docs -> WriterPoints]
  BY DEF Inv, Types
<1>11. ASSUME CheckName(d) PROVE Inv'
  BY <1>0, <1>11, WriterStep DEF CheckName, WriterGoto, history
<1>1. ASSUME InsertRow(d) PROVE Inv'
  BY <1>0, <1>1, WriterStep DEF InsertRow, WriterGoto, history
<1>2. ASSUME IndexVectors(d) PROVE Inv'
  BY <1>0, <1>2, WriterStep DEF IndexVectors, WriterGoto, history
<1>3. ASSUME RecordSearchable(d) PROVE Inv'
  BY <1>0, <1>3, WriterStep DEF RecordSearchable, WriterGoto, history
<1>4. ASSUME RecordFails(d) PROVE Inv'
  BY <1>0, <1>4, WriterStep DEF RecordFails, WriterGoto
<1>5. ASSUME RemoveVectors(d) PROVE Inv'
  BY <1>0, <1>5, WriterStep DEF RemoveVectors, WriterGoto, history
<1>6. ASSUME RemoveFile(d) PROVE Inv'
  BY <1>0, <1>6, WriterStep DEF RemoveFile, WriterGoto, history
<1>7. ASSUME RemoveFileFails(d) PROVE Inv'
  BY <1>0, <1>7, WriterStep DEF RemoveFileFails, WriterGoto
<1>8. ASSUME MarkDeleted(d) PROVE Inv'
  BY <1>0, <1>8, WriterStep DEF MarkDeleted, WriterGoto, history
<1>9. ASSUME PublishIndexed(d) PROVE Inv'
  BY <1>9, PublishKeeps DEF PublishIndexed
<1>10. ASSUME PublishDeleted(d) PROVE Inv'
  BY <1>10, PublishKeeps DEF PublishDeleted
<1> QED
  BY <1>1, <1>2, <1>3, <1>4, <1>5, <1>6, <1>7, <1>8, <1>9, <1>10, <1>11 DEF Write

LEMMA ReadKeeps == ASSUME Inv, NEW r \in Readers, Begin(r) \/ Read(r) PROVE Inv'
<1> USE DEF ReaderPoints
<1>0. at \in [Readers -> ReaderPoints] /\ lock \in Readers \cup {None} /\ None \notin Readers
  BY ConstantsAssumption DEF Inv, Types
<1>1. ASSUME Begin(r) PROVE Inv'
  BY <1>0, <1>1, ReaderStep DEF Begin, ReaderGoto
<1>2. ASSUME TestPool(r) PROVE Inv'
  BY <1>0, <1>2, ReaderStep DEF TestPool, ReaderGoto, history
<1>3. ASSUME EnterLock(r) PROVE Inv'
  <2>1. CASE pool # None
    BY <1>0, <1>3, <2>1, ReaderStep DEF EnterLock, ReaderGoto, history, cacheVars
  <2>2. CASE pool = None
    <3>1. Types' /\ OneMiner'
      BY <1>0, <1>3, <2>2 DEF EnterLock, ReaderGoto, Inv, Types, OneMiner, storeVars
    <3>2. CopyIsCurrent' /\ PoolIsMined'
      <4>1. Outstanding' <=> Outstanding
        BY <1>3 DEF EnterLock, Outstanding, Announced, storeVars, history
      <4> QED
        BY <1>0, <1>3, <2>2, <4>1
           DEF EnterLock, ReaderGoto, Inv, CopyIsCurrent, PoolIsMined, storeVars
    <3> QED
      BY <3>1, <3>2 DEF Inv
  <2> QED
    BY <2>1, <2>2
<1>4. ASSUME ReadChunks(r) PROVE Inv'
  <2>1. Types' /\ OneMiner'
    BY <1>0, <1>4 DEF ReadChunks, ReaderGoto, Inv, Types, OneMiner, storeVars, cacheVars
  <2>2. Outstanding' <=> Outstanding
    BY <1>4 DEF ReadChunks, Outstanding, Announced, storeVars, history
  <2>3. CopyIsCurrent'
    BY <1>0, <1>4, <2>2 DEF ReadChunks, ReaderGoto, Inv, Types, CopyIsCurrent, storeVars
  <2>4. PoolIsMined'
    BY <1>4, <2>2 DEF ReadChunks, Inv, PoolIsMined, storeVars, cacheVars
  <2> QED
    BY <2>1, <2>3, <2>4 DEF Inv
<1>5. ASSUME PublishPool(r) PROVE Inv'
  <2>1. lock = r /\ lock' = None /\ at' = [at EXCEPT ![r] = "returning"]
    BY <1>0, <1>5 DEF PublishPool, ReaderGoto, Inv, OneMiner
  <2>2. Types' /\ OneMiner'
    BY <1>0, <1>5, <2>1 DEF PublishPool, Inv, Types, OneMiner, storeVars
  <2>3. Outstanding' <=> Outstanding
    BY <1>5 DEF PublishPool, Outstanding, Announced, storeVars, history
  <2>4. CopyIsCurrent'
    BY <1>0, <1>5, <2>1, <2>3 DEF PublishPool, Inv, Types, CopyIsCurrent, storeVars
  <2>5. PoolIsMined'
    BY <1>0, <1>5, <2>3 DEF PublishPool, Inv, CopyIsCurrent, PoolIsMined, storeVars
  <2> QED
    BY <2>2, <2>4, <2>5 DEF Inv
<1>6. ASSUME ReturnPool(r) PROVE Inv'
  BY <1>0, <1>6, ReaderStep DEF ReturnPool, ReaderGoto, history
<1>7. ASSUME Authorize(r) PROVE Inv'
  BY <1>0, <1>7, ReaderStep DEF Authorize, ReaderGoto, history
<1>8. ASSUME Serve(r) PROVE Inv'
  BY <1>0, <1>8, ReaderStep DEF Serve, ReaderGoto, history
<1>9. ASSUME Fail(r) PROVE Inv'
  BY <1>0, <1>9, ReaderStep DEF Fail, ReaderGoto, history
<1> QED
  BY <1>1, <1>2, <1>3, <1>4, <1>5, <1>6, <1>7, <1>8, <1>9 DEF Read

LEMMA Inductive == Inv /\ [Next]_vars => Inv'
<1> SUFFICES ASSUME Inv, [Next]_vars PROVE Inv'
  OBVIOUS
<1>1. ASSUME UNCHANGED vars PROVE Inv'
  BY <1>1 DEF vars, storeVars, cacheVars, readerVars, history, Inv, Types, OneMiner,
              CopyIsCurrent, PoolIsMined, Outstanding, Announced
<1> QED
  BY <1>1, WriteKeeps, ReadKeeps DEF Next

(***************************************************************************)
(* The lock keeps readers from mining at once, and a copy overtaken by a   *)
(* change is always about to be cleared.                                   *)
(***************************************************************************)
THEOREM Invariance == Spec => []Inv
  BY Initially, Inductive, PTL DEF Spec

(***************************************************************************)
(* Once every change was announced, the pool is what would be mined from   *)
(* the index now (get_candidate_pool and on_lifecycle_event).              *)
(***************************************************************************)
THEOREM PoolIsUpToDate == Spec => []PoolFollowsIndex
<1>1. Inv => PoolFollowsIndex
  BY DEF Inv, PoolIsMined, Outstanding, PoolFollowsIndex
<1> QED
  BY <1>1, Invariance, PTL

(***************************************************************************)
(* A pool is never replaced by another mining (the double-checked lock of  *)
(* get_candidate_pool).                                                    *)
(***************************************************************************)
THEOREM MinedOnce == Spec => MinedOncePerVersion
<1>1. Inv /\ [Next]_vars => (pool # None => pool' \in {pool, None})
  <2> SUFFICES ASSUME Inv, Next PROVE pool # None => pool' \in {pool, None}
    BY DEF vars, cacheVars
  <2>1. ASSUME NEW d \in Docs, Write(d) PROVE pool' \in {pool, None}
    BY <2>1 DEF Write, CheckName, InsertRow, IndexVectors, RecordSearchable, RecordFails, RemoveVectors,
                RemoveFile, RemoveFileFails, MarkDeleted, PublishIndexed, PublishDeleted, Publish,
                cacheVars
  <2>2. ASSUME NEW r \in Readers, PublishPool(r) PROVE pool = None
    BY <2>2, ConstantsAssumption DEF PublishPool, Inv, OneMiner
  <2>3. ASSUME NEW r \in Readers, Begin(r) \/ Read(r), ~ PublishPool(r) PROVE pool' = pool
    BY <2>3 DEF Read, Begin, TestPool, EnterLock, ReadChunks, ReturnPool, Authorize, Serve, Fail,
                cacheVars
  <2> QED
    BY <2>1, <2>2, <2>3 DEF Next
<1> QED
  BY <1>1, Invariance, PTL DEF Spec, MinedOncePerVersion

-----------------------------------------------------------------------------
(***************************************************************************)
(* No active row bears the name of a document counted as gone, so that     *)
(* name is not among those the request authorizes, and every question that *)
(* is served was worded from documents of an authorized name.              *)
(***************************************************************************)
Labelled(source, questions) ==
    \A i \in DOMAIN questions : \A d \in questions[i].docs : source[d] = questions[i].source

Histories == DOMAIN gone = Readers /\ DOMAIN authorized = Readers /\ DOMAIN served = Readers /\ DOMAIN held = Readers

QuestionsLabelled ==
    /\ pool # None => Labelled(name, pool)
    /\ \A r \in Readers : at[r] = "filtering" => Labelled(name, held[r])

NamesGone ==
    \A r \in Readers :
        /\ \A d \in gone[r] : name[d] \notin NamesIn(active) /\ name[d] \notin authorized[r]
        /\ at[r] = "idle" => authorized[r] = {}

DeletedInv == Histories /\ QuestionsLabelled /\ NamesGone /\ DeletedNeverSuggested

(* _build_pool words a question of a name from documents of that name.     *)
LEMMA MinedLabelled ==
    ASSUME NEW source, NEW chunks
    PROVE  Labelled(source, Mined(source, chunks))
<1> DEFINE names == Considered(source, chunks)
<1> HIDE DEF names
<1>1. Mined(source, chunks) =
          [i \in DOMAIN names |->
              [source |-> names[i], docs |-> {d \in ToSet(chunks) \ Unusable : source[d] = names[i]}]]
  BY DEF Mined, names
<1> QED
  BY <1>1 DEF Labelled

(* _diversify returns questions of allowed names only.                     *)
LEMMA SelectedAllowed ==
    ASSUME NEW source, NEW questions, NEW allowed, Labelled(source, questions),
           NEW d \in Selected(questions, allowed)
    PROVE  source[d] \in allowed
<1>1. PICK i \in DOMAIN questions : questions[i].source \in allowed /\ d \in questions[i].docs
  BY DEF Selected
<1> QED
  BY <1>1 DEF Labelled

LEMMA DeletedInitially == Init => DeletedInv
BY DEF Init, DeletedInv, Histories, QuestionsLabelled, NamesGone, DeletedNeverSuggested, ReaderPoints

(* A new row of a name ends the claim about the deleted documents that     *)
(* bore it; no other step of an upload or of a deletion makes a name       *)
(* readable.                                                               *)
LEMMA WriteKeepsDeleted == ASSUME DeletedInv, NEW d \in Docs, Write(d) PROVE DeletedInv'
<1> USE DEF DeletedInv
<1>1. UNCHANGED <<readerVars, name>>
  BY DEF Write, CheckName, InsertRow, IndexVectors, RecordSearchable, RecordFails, RemoveVectors, RemoveFile,
         RemoveFileFails, MarkDeleted, PublishIndexed, PublishDeleted, Publish
<1>2. pool' = pool \/ pool' = None
  BY DEF Write, CheckName, InsertRow, IndexVectors, RecordSearchable, RecordFails, RemoveVectors, RemoveFile,
         RemoveFileFails, MarkDeleted, PublishIndexed, PublishDeleted, Publish, cacheVars
<1>3. QuestionsLabelled'
  BY <1>1, <1>2 DEF QuestionsLabelled, readerVars
<1>4. CASE InsertRow(d)
  <2>1. gone' = [r \in Readers |-> {e \in gone[r] : name[e] # name[d]}]
    BY <1>4 DEF InsertRow
  <2>2. NamesIn(active)' = NamesIn(active) \cup {name[d]}
    BY <1>1, <1>4 DEF InsertRow, NamesIn
  <2> QED
    BY <1>1, <1>3, <2>1, <2>2 DEF readerVars, Histories, NamesGone, DeletedNeverSuggested
<1>5. CASE ~ InsertRow(d)
  <2>1. gone' = gone /\ active' \subseteq active
    BY <1>5 DEF Write, CheckName, IndexVectors, RecordSearchable, RecordFails, RemoveVectors, RemoveFile,
                RemoveFileFails, MarkDeleted, PublishIndexed, PublishDeleted, Publish, history
  <2>2. NamesIn(active)' \subseteq NamesIn(active)
    BY <1>1, <2>1 DEF NamesIn
  <2> QED
    BY <1>1, <1>3, <2>1, <2>2 DEF readerVars, Histories, NamesGone, DeletedNeverSuggested
<1> QED
  BY <1>4, <1>5

LEMMA ReadKeepsDeleted ==
    ASSUME Types, DeletedInv, NEW r \in Readers, Begin(r) \/ Read(r)
    PROVE  DeletedInv'
<1> USE DEF Types, DeletedInv, Histories, ReaderGoto
<1>1. UNCHANGED <<name, active>> /\ NamesIn(active)' = NamesIn(active)
  BY DEF Begin, Read, TestPool, EnterLock, ReadChunks, PublishPool, ReturnPool, Authorize, Serve, Fail,
         storeVars, NamesIn
<1>2. ASSUME Begin(r) PROVE DeletedInv'
  BY <1>1, <1>2 DEF Begin, QuestionsLabelled, NamesGone, DeletedNeverSuggested, cacheVars
<1>3. ASSUME TestPool(r) \/ EnterLock(r) \/ ReadChunks(r) PROVE DeletedInv'
  BY <1>1, <1>3 DEF TestPool, EnterLock, ReadChunks, QuestionsLabelled, NamesGone, DeletedNeverSuggested,
                    history, cacheVars
<1>4. ASSUME PublishPool(r) PROVE DeletedInv'
  <2>1. pool' = <<>> \/ pool' = Mined(name, snapshot[r])
    BY <1>4 DEF PublishPool
  <2>2. Labelled(name, <<>>)
    BY DEF Labelled
  <2>3. Labelled(name, pool')
    BY <2>1, <2>2, MinedLabelled
  <2> QED
    BY <1>1, <1>4, <2>3 DEF PublishPool, QuestionsLabelled, NamesGone, DeletedNeverSuggested, history
<1>5. ASSUME ReturnPool(r) PROVE DeletedInv'
  BY <1>1, <1>5 DEF ReturnPool, QuestionsLabelled, NamesGone, DeletedNeverSuggested, history, cacheVars
<1>6. ASSUME Authorize(r) PROVE DeletedInv'
  BY <1>1, <1>6 DEF Authorize, QuestionsLabelled, NamesGone, DeletedNeverSuggested, history, cacheVars
<1>7. ASSUME Serve(r) PROVE DeletedInv'
  <2>1. \A d \in Selected(held[r], authorized[r]) : name[d] \in authorized[r]
    BY <1>7, SelectedAllowed DEF Serve, QuestionsLabelled
  <2> QED
    BY <1>1, <1>7, <2>1 DEF Serve, QuestionsLabelled, NamesGone, DeletedNeverSuggested, history, cacheVars
<1>8. ASSUME Fail(r) PROVE DeletedInv'
  BY <1>1, <1>8 DEF Fail, QuestionsLabelled, NamesGone, DeletedNeverSuggested, history, cacheVars
<1> QED
  BY <1>2, <1>3, <1>4, <1>5, <1>6, <1>7, <1>8 DEF Read

(***************************************************************************)
(* A request never suggests a question worded from a document whose        *)
(* deletion was recorded before it began, however old the pool is, unless  *)
(* an active row bears the document's name (get_suggestions and the        *)
(* authorized names of its endpoint).                                      *)
(***************************************************************************)
THEOREM DeletedIsNeverSuggested == Spec => []DeletedNeverSuggested
<1>1. Inv /\ DeletedInv /\ [Next]_vars => DeletedInv'
  <2> SUFFICES ASSUME Inv, DeletedInv, [Next]_vars PROVE DeletedInv'
    OBVIOUS
  <2>1. ASSUME UNCHANGED vars PROVE DeletedInv'
    BY <2>1 DEF vars, storeVars, cacheVars, readerVars, history, DeletedInv, Histories, QuestionsLabelled,
                NamesGone, DeletedNeverSuggested, NamesIn
  <2> QED
    BY <2>1, WriteKeepsDeleted, ReadKeepsDeleted DEF Next, Inv
<1>2. DeletedInv => DeletedNeverSuggested
  BY DEF DeletedInv
<1> QED
  BY <1>1, <1>2, DeletedInitially, Invariance, PTL DEF Spec
=============================================================================
