--------------------------- MODULE OperationsProofs ---------------------------
(***************************************************************************)
(* What keeps a deployment honest, for every value of the constants: a      *)
(* bot's memory, the release commands, and the watch over silent runs.      *)
(*                                                                          *)
(* HistoryIsSound of the memory is inductive as it stands, because a        *)
(* statement is guarded by the row it writes and never by what its writer   *)
(* read; the cap needs CapInv, which counts a decided create as if it were  *)
(* written. DeploymentInv says, step by step of a command, what the command *)
(* knows: which release the files name while it works, what is migrated     *)
(* before it switches, and that the release it can fall back to has served. *)
(* NoticesInv gives every stall episode, and the end of the run, one teller *)
(* at most; ProgressArrives follows an event from the tracker to the row.   *)
(***************************************************************************)
EXTENDS MemoryStore, Deployment, RunNotices, FiniteSetTheorems, TLAPS

-----------------------------------------------------------------------------
(* A bot's memory *)

\* The revision a statement records.
New(d, text, deleted, origin, restored) ==
    [document |-> d, number |-> document[d].revision + 1, text |-> text, deleted |-> deleted,
     origin |-> origin, restored |-> restored]

\* Every statement that writes is one of these: a document's row and its next revision.
Written(w, d, text, deleted, origin, restored) ==
    /\ document' = [document EXCEPT ![d] = [revision |-> document[d].revision + 1,
                                            text |-> text, deleted |-> deleted]]
    /\ revisions' = revisions \cup {New(d, text, deleted, origin, restored)}
    /\ write' = [write EXCEPT ![w] = NoWrite]

(* A statement that records the next revision of a document keeps the memory *)
(* sound if only an operator removes, what follows a tombstone is an         *)
(* operator's restore, and a restore takes its text from the history         *)
(* (Persist, as createDocument, reviseDocument, tombstoneDocument and        *)
(* restoreRevision use it).                                                  *)
LEMMA WrittenKeepsMemory ==
    ASSUME HistoryIsSound,
           NEW w \in Writers, NEW d \in Documents, NEW text \in Texts,
           NEW deleted \in {"no", "yes"}, NEW origin \in Origins, NEW restored \in Nat,
           Written(w, d, text, deleted, origin, restored),
           deleted = "yes" => origin = "deliberate",
           document[d].revision > 0 /\ document[d].deleted = "yes" =>
               origin = "deliberate" /\ restored # 0,
           restored # 0 => \E s \in revisions :
               s.document = d /\ s.number = restored /\ s.text = text
    PROVE  HistoryIsSound'
<1> DEFINE n == document[d].revision + 1
           new == New(d, text, deleted, origin, restored)
<1>1. /\ document \in [Documents -> [revision : Nat, text : Texts \cup {NoText}, deleted : {"no", "yes"}]]
      /\ revisions \subseteq Revision /\ write \in [Writers -> Request]
  BY DEF HistoryIsSound, MemoryTypeOK
<1>2. n \in Nat \ {0} /\ document[d].revision \in Nat
  BY <1>1
<1>3. /\ new \in Revision /\ new.document = d /\ new.number = n /\ new.text = text
      /\ new.deleted = deleted /\ new.origin = origin /\ new.restored = restored
  BY <1>2 DEF New, Revision
<1>4. /\ revisions' = revisions \cup {new} /\ write' = [write EXCEPT ![w] = NoWrite]
      /\ document' = [document EXCEPT ![d] = [revision |-> n, text |-> text, deleted |-> deleted]]
  BY DEF Written
<1>5. /\ document'[d].revision = n /\ document'[d].text = text /\ document'[d].deleted = deleted
      /\ \A e \in Documents : e # d => document'[e] = document[e]
  BY <1>1, <1>4
<1>6. \A r \in revisions : /\ r.document \in Documents /\ r.number \in Nat \ {0}
                           /\ r.restored \in Nat /\ r.number <= document[r.document].revision
  BY <1>1 DEF Revision, HistoryIsSound, HistoryIsWhole
<1>7. \A r \in revisions : r.document = d => r.number < n
  BY <1>2, <1>6
<1> HIDE DEF new, n
<1>8. MemoryTypeOK'
  <2>1. revisions' \subseteq Revision
    BY <1>1, <1>3, <1>4
  <2>2. write' \in [Writers -> Request]
    BY <1>1, <1>4 DEF Request
  <2>3. document' \in [Documents -> [revision : Nat, text : Texts \cup {NoText}, deleted : {"no", "yes"}]]
    BY <1>1, <1>2, <1>4
  <2> QED
    BY <2>1, <2>2, <2>3 DEF MemoryTypeOK
<1>9. HistoryIsWhole'
  <2>1. \A r \in revisions' : r.number <= document'[r.document].revision
    BY <1>2, <1>3, <1>4, <1>5, <1>6, <1>7
  <2>2. ASSUME NEW e \in Documents, NEW k \in 1 .. document'[e].revision
        PROVE  \E r \in revisions' : r.document = e /\ r.number = k
    <3>1. CASE e = d /\ k = n
      BY <3>1, <1>3, <1>4
    <3>2. CASE ~(e = d /\ k = n)
      <4>1. k \in 1 .. document[e].revision
        BY <3>2, <1>1, <1>2, <1>5 DEF n
      <4>2. \E r \in revisions : r.document = e /\ r.number = k
        BY <4>1 DEF HistoryIsSound, HistoryIsWhole
      <4> QED
        BY <4>2, <1>4
    <3> QED
      BY <3>1, <3>2
  <2>3. \A r, s \in revisions' : r.document = s.document /\ r.number = s.number => r = s
    <3>1. \A r, s \in revisions : r.document = s.document /\ r.number = s.number => r = s
      BY DEF HistoryIsSound, HistoryIsWhole
    <3> QED
      BY <3>1, <1>2, <1>3, <1>4, <1>6, <1>7
  <2>4. \A r \in revisions' : r.number = document'[r.document].revision =>
            r.text = document'[r.document].text /\ r.deleted = document'[r.document].deleted
    <3>1. \A r \in revisions : r.number = document[r.document].revision =>
            r.text = document[r.document].text /\ r.deleted = document[r.document].deleted
      BY DEF HistoryIsSound, HistoryIsWhole
    <3> QED
      BY <3>1, <1>2, <1>3, <1>4, <1>5, <1>6, <1>7
  <2> QED
    BY <2>1, <2>2, <2>3, <2>4 DEF HistoryIsWhole
<1>10. RemovalIsDeliberate'
  <2>1. \A r \in revisions' : r.deleted = "yes" => r.origin = "deliberate"
    BY <1>3, <1>4 DEF HistoryIsSound, RemovalIsDeliberate
  <2>2. ASSUME NEW r \in revisions', NEW s \in revisions',
               s.document = r.document, s.deleted = "yes", r.number = s.number + 1
        PROVE  r.origin = "deliberate" /\ r.restored # 0
    <3>1. CASE r \in revisions /\ s \in revisions
      BY <3>1, <2>2 DEF HistoryIsSound, RemovalIsDeliberate
    <3>2. CASE r = new /\ s \in revisions
      <4>1. s.document = d /\ s.number = document[d].revision
        BY <3>2, <2>2, <1>2, <1>3, <1>6 DEF n
      <4>2. document[d].deleted = "yes" /\ document[d].revision > 0
        BY <3>2, <4>1, <2>2, <1>2, <1>6 DEF HistoryIsSound, HistoryIsWhole
      <4> QED
        BY <4>2, <3>2, <1>3
    <3>3. CASE s = new
      BY <3>3, <2>2, <1>2, <1>3, <1>4, <1>6, <1>7
    <3> QED
      BY <3>1, <3>2, <3>3, <1>4
  <2> QED
    BY <2>1, <2>2 DEF RemovalIsDeliberate
<1>11. RestoresRecordedText'
  <2> SUFFICES ASSUME NEW r \in revisions', r.restored # 0
               PROVE  \E s \in revisions' : /\ s.document = r.document /\ s.number = r.restored
                                            /\ s.number < r.number /\ s.text = r.text
    BY DEF RestoresRecordedText
  <2>1. CASE r \in revisions
    <3>1. PICK s \in revisions : /\ s.document = r.document /\ s.number = r.restored
                                 /\ s.number < r.number /\ s.text = r.text
      BY <2>1 DEF HistoryIsSound, RestoresRecordedText
    <3> QED
      BY <3>1, <1>4
  <2>2. CASE r = new
    <3>1. PICK s \in revisions : s.document = d /\ s.number = restored /\ s.text = text
      BY <2>2, <1>3
    <3>2. s.number < r.number
      BY <3>1, <2>2, <1>3, <1>7
    <3> QED
      BY <3>1, <3>2, <2>2, <1>3, <1>4
  <2> QED
    BY <2>1, <2>2, <1>4
<1> QED
  BY <1>8, <1>9, <1>10, <1>11 DEF HistoryIsSound

(* A statement that its guard stops writes nothing: the decision is dropped  *)
(* and the memory is as it was (Refused).                                    *)
LEMMA DecisionKeepsMemory ==
    ASSUME HistoryIsSound, UNCHANGED <<document, revisions>>,
           NEW w \in Writers, NEW q \in Request, write' = [write EXCEPT ![w] = q]
    PROVE  HistoryIsSound'
<1>1. write' \in [Writers -> Request]
  BY DEF HistoryIsSound, MemoryTypeOK
<1> QED
  BY <1>1 DEF HistoryIsSound, MemoryTypeOK, HistoryIsWhole, RemovalIsDeliberate,
              RestoresRecordedText, Revision

(* A persisted revision is the next one of the document its writer named.    *)
LEMMA PersistIsWritten ==
    ASSUME NEW w, NEW text, NEW deleted, NEW restored, Persist(w, text, deleted, restored)
    PROVE  Written(w, write[w].document, text, deleted, write[w].origin, restored)
BY DEF Persist, Written, New

(* The fields of a decided write, by its action.                             *)
LEMMA RequestFields ==
    ASSUME MemoryTypeOK, NEW w \in Writers, write[w] # NoWrite
    PROVE  /\ write[w].document \in Documents
           /\ write[w].origin \in Origins
           /\ write[w].action \in {"create", "update"} => write[w].text \in Texts
           /\ write[w].action \in {"delete", "restore"} => write[w].origin = "deliberate"
<1>1. write[w] \in Request
  BY DEF MemoryTypeOK
<1> QED
  BY <1>1 DEF Request, Origins

(* Every step of the memory's specification keeps it sound.                  *)
LEMMA MemoryStep == HistoryIsSound /\ [MemoryNext]_memoryVars => HistoryIsSound'
<1> SUFFICES ASSUME HistoryIsSound, [MemoryNext]_memoryVars PROVE HistoryIsSound'
  OBVIOUS
<1>1. MemoryTypeOK
  BY DEF HistoryIsSound
<1>2. NoWrite \in Request
  BY DEF Request
<1>3. ASSUME NEW w \in Writers, Refused(w) PROVE HistoryIsSound'
  BY <1>2, <1>3, DecisionKeepsMemory DEF Refused
<1>4. ASSUME NEW w \in Writers, NEW d \in Documents, NEW text \in Texts, NEW origin \in Origins,
             DecideCreate(w, d, text, origin) \/ DecideUpdate(w, d, text, origin)
      PROVE  HistoryIsSound'
  <2>1. \A a \in {"create", "update"} :
          [action |-> a, document |-> d, text |-> text, origin |-> origin] \in Request
    BY DEF Request
  <2>2. UNCHANGED <<document, revisions>> /\ \E q \in Request : write' = [write EXCEPT ![w] = q]
    BY <1>4, <2>1 DEF DecideCreate, DecideUpdate, Decided
  <2> QED
    BY <2>2, DecisionKeepsMemory
<1>5. ASSUME NEW w \in Writers, NEW d \in Documents, DecideDelete(w, d) PROVE HistoryIsSound'
  <2>1. [action |-> "delete", document |-> d, origin |-> "deliberate"] \in Request
    BY DEF Request
  <2> QED
    BY <1>5, <2>1, DecisionKeepsMemory DEF DecideDelete, Decided
<1>6. ASSUME NEW w \in Writers, NEW target \in revisions, DecideRestore(w, target)
      PROVE  HistoryIsSound'
  <2>1. target.document \in Documents /\ target.number \in Nat
    BY <1>1 DEF MemoryTypeOK, Revision
  <2>2. [action |-> "restore", document |-> target.document, number |-> target.number,
         origin |-> "deliberate"] \in Request
    BY <2>1 DEF Request
  <2> QED
    BY <1>6, <2>2, DecisionKeepsMemory DEF DecideRestore, Decided
<1>7. ASSUME NEW w \in Writers, createDocument(w) PROVE HistoryIsSound'
  <2>1. write[w].action = "create" /\ write[w] # NoWrite
    BY <1>7 DEF createDocument, NoWrite
  <2>2. CASE document[write[w].document].revision = 0 /\ Persist(w, write[w].text, "no", 0)
    BY <2>1, <2>2, <1>1, RequestFields, PersistIsWritten, WrittenKeepsMemory
  <2> QED
    BY <1>7, <2>2, <1>3 DEF createDocument
<1>8. ASSUME NEW w \in Writers, reviseDocument(w) PROVE HistoryIsSound'
  <2>1. write[w].action = "update" /\ write[w] # NoWrite
    BY <1>8 DEF reviseDocument, NoWrite
  <2>2. CASE Live(write[w].document) /\ Persist(w, write[w].text, "no", 0)
    BY <2>1, <2>2, <1>1, RequestFields, PersistIsWritten, WrittenKeepsMemory DEF Live
  <2> QED
    BY <1>8, <2>2, <1>3 DEF reviseDocument
<1>9. ASSUME NEW w \in Writers, tombstoneDocument(w) PROVE HistoryIsSound'
  <2>1. write[w].action = "delete" /\ write[w] # NoWrite
    BY <1>9 DEF tombstoneDocument, NoWrite
  <2> DEFINE d == write[w].document
  <2>2. CASE Live(d) /\ Persist(w, document[d].text, "yes", 0)
    <3>1. d \in Documents /\ write[w].origin = "deliberate" /\ write[w].origin \in Origins
      BY <2>1, <1>1, RequestFields
    <3>2. \E r \in revisions : r.document = d /\ r.number = document[d].revision
      BY <2>2, <3>1 DEF HistoryIsSound, MemoryTypeOK, HistoryIsWhole, Live
    <3>3. document[d].text \in Texts
      BY <3>1, <3>2 DEF HistoryIsSound, MemoryTypeOK, HistoryIsWhole, Revision
    <3>4. Written(w, d, document[d].text, "yes", write[w].origin, 0)
      BY <2>2, PersistIsWritten
    <3>5. ~(document[d].revision > 0 /\ document[d].deleted = "yes")
      BY <2>2 DEF Live
    <3> HIDE DEF d
    <3> QED
      BY <3>1, <3>3, <3>4, <3>5, WrittenKeepsMemory
  <2> QED
    BY <1>9, <2>2, <1>3 DEF tombstoneDocument
<1>10. ASSUME NEW w \in Writers, restoreRevision(w) PROVE HistoryIsSound'
  <2>1. write[w].action = "restore" /\ write[w] # NoWrite
    BY <1>10 DEF restoreRevision, NoWrite
  <2>2. PICK target \in revisions :
            /\ target.document = write[w].document /\ target.number = write[w].number
            /\ Persist(w, target.text, "no", target.number)
    BY <1>10 DEF restoreRevision
  <2>3. target.text \in Texts /\ target.number \in Nat \ {0}
    BY <1>1 DEF MemoryTypeOK, Revision
  <2>4. /\ write[w].document \in Documents /\ write[w].origin = "deliberate"
        /\ write[w].origin \in Origins
    BY <2>1, <1>1, RequestFields
  <2>5. Written(w, write[w].document, target.text, "no", write[w].origin, target.number)
    BY <2>2, PersistIsWritten
  <2> QED
    BY <2>2, <2>3, <2>4, <2>5, WrittenKeepsMemory
<1>11. CASE UNCHANGED memoryVars
  BY <1>11 DEF memoryVars, HistoryIsSound, MemoryTypeOK, HistoryIsWhole, RemovalIsDeliberate,
               RestoresRecordedText, Revision
<1> QED
  BY <1>4, <1>5, <1>6, <1>7, <1>8, <1>9, <1>10, <1>11 DEF MemoryNext

-----------------------------------------------------------------------------
(* The cap                                                                   *)

(* The sets the cap counts are finite.                                       *)
LEMMA CountsAreFinite ==
    ASSUME CapInv
    PROVE  /\ Cardinality(LiveDocuments) \in Nat
           /\ IsFiniteSet(Creators) /\ Cardinality(Creators) \in Nat
           /\ IsFiniteSet(Undone) /\ Cardinality(Undone) \in Nat
           /\ Cardinality(Writers) \in Nat /\ Cardinality(Writers) > 0
<1>1. Creators \in SUBSET Writers /\ Undone \in SUBSET revisions
  BY DEF Creators, Undone
<1>2. IsFiniteSet(Creators) /\ IsFiniteSet(Undone) /\ IsFiniteSet(LiveDocuments)
  BY <1>1, FS_Subset, MemoryAssumption DEF CapInv
<1>3. Cardinality(Writers) \in Nat /\ Cardinality(Writers) # 0
  BY FS_CardinalityType, FS_EmptySet, MemoryAssumption
<1> QED
  BY <1>2, <1>3, FS_CardinalityType

(* A step that lets no count of the left side grow and no count of the right *)
(* side shrink keeps the bound.                                              *)
LEMMA CapKept ==
    ASSUME CapInv, IsFiniteSet(revisions'),
           LiveDocuments' \subseteq LiveDocuments, Creators' \subseteq Creators,
           Undone \subseteq Undone'
    PROVE  CapInv'
<1>1. IsFiniteSet(LiveDocuments') /\ Cardinality(LiveDocuments') <= Cardinality(LiveDocuments)
  BY FS_Subset DEF CapInv
<1>2. IsFiniteSet(Creators') /\ Cardinality(Creators') <= Cardinality(Creators)
  BY CountsAreFinite, FS_Subset
<1>3. IsFiniteSet(Undone') /\ Cardinality(Undone) <= Cardinality(Undone')
  <2>1. Undone' \in SUBSET revisions'
    BY DEF Undone
  <2>2. IsFiniteSet(Undone')
    BY <2>1, FS_Subset
  <2> QED
    BY <2>2, FS_Subset
<1>4. /\ Cardinality(LiveDocuments') \in Nat /\ Cardinality(Creators') \in Nat
      /\ Cardinality(Undone') \in Nat
  BY <1>1, <1>2, <1>3, FS_CardinalityType
<1>5. Cardinality(LiveDocuments') + Cardinality(Creators') <=
          MaxDocuments + (Cardinality(Writers) - 1) + Cardinality(Undone')
  BY <1>1, <1>2, <1>3, <1>4, CountsAreFinite, MemoryAssumption DEF CapInv
<1> QED
  BY <1>1, <1>5 DEF CapInv

(* What a recorded revision does to the counts: the document's liveness is   *)
(* its own, the writer is done, and nothing undone is forgotten.             *)
LEMMA WrittenCounts ==
    ASSUME HistoryIsSound, CapInv,
           NEW w \in Writers, NEW d \in Documents, NEW text, NEW deleted \in {"no", "yes"},
           NEW origin, NEW restored \in Nat, Written(w, d, text, deleted, origin, restored)
    PROVE  /\ IsFiniteSet(revisions')
           /\ deleted = "no" => LiveDocuments' = LiveDocuments \cup {d}
           /\ deleted = "yes" => LiveDocuments' = LiveDocuments \ {d}
           /\ Creators' = Creators \ {w}
           /\ Undone \subseteq Undone'
<1> DEFINE n == document[d].revision + 1
<1>1. /\ document \in [Documents -> [revision : Nat, text : Texts \cup {NoText}, deleted : {"no", "yes"}]]
      /\ write \in [Writers -> Request]
  BY DEF HistoryIsSound, MemoryTypeOK
<1>2. n \in Nat \ {0}
  BY <1>1
<1>3. /\ document' = [document EXCEPT ![d] = [revision |-> n, text |-> text, deleted |-> deleted]]
      /\ revisions' = revisions \cup {New(d, text, deleted, origin, restored)}
      /\ write' = [write EXCEPT ![w] = NoWrite]
  BY DEF Written
<1>4. /\ document'[d].revision = n /\ document'[d].deleted = deleted
      /\ \A e \in Documents : e # d => document'[e] = document[e]
  BY <1>1, <1>3
<1> HIDE DEF n
<1>5. IsFiniteSet(revisions')
  BY <1>3, FS_AddElement DEF CapInv
<1>6. (deleted = "no" => LiveDocuments' = LiveDocuments \cup {d}) /\
      (deleted = "yes" => LiveDocuments' = LiveDocuments \ {d})
  BY <1>2, <1>4 DEF LiveDocuments, Live
<1>7. Creators' = Creators \ {w}
  BY <1>1, <1>3 DEF Creators, NoWrite
<1>8. Undone \subseteq Undone'
  BY <1>3 DEF Undone
<1> QED
  BY <1>5, <1>6, <1>7, <1>8

(* A statement that makes no new document live keeps the cap.                *)
LEMMA WrittenKeepsCap ==
    ASSUME HistoryIsSound, CapInv,
           NEW w \in Writers, NEW d \in Documents, NEW text, NEW deleted \in {"no", "yes"},
           NEW origin, NEW restored \in Nat, Written(w, d, text, deleted, origin, restored),
           deleted = "yes" \/ Live(d)
    PROVE  CapInv'
<1>1. LiveDocuments' \subseteq LiveDocuments
  <2>1. Live(d) => d \in LiveDocuments
    BY DEF LiveDocuments
  <2> QED
    BY <2>1, WrittenCounts
<1> QED
  BY <1>1, WrittenCounts, CapKept

(* A decision that is not a create, and a refused statement, keep the cap.   *)
LEMMA DecisionKeepsCap ==
    ASSUME HistoryIsSound, CapInv, UNCHANGED <<document, revisions>>,
           NEW w \in Writers, NEW q, write' = [write EXCEPT ![w] = q], q.action # "create"
    PROVE  CapInv'
<1>1. write \in [Writers -> Request]
  BY DEF HistoryIsSound, MemoryTypeOK
<1>2. Creators' \subseteq Creators
  BY <1>1 DEF Creators
<1>3. LiveDocuments' = LiveDocuments /\ Undone' = Undone /\ IsFiniteSet(revisions')
  BY DEF LiveDocuments, Live, Undone, CapInv
<1> QED
  BY <1>2, <1>3, CapKept

(* A create is decided below the cap, so even every writer creating at once  *)
(* stays within the bound (decideMemoryWrite's count of live documents).     *)
LEMMA DecideCreateKeepsCap ==
    ASSUME HistoryIsSound, CapInv, NEW w \in Writers, NEW d, NEW text, NEW origin,
           DecideCreate(w, d, text, origin)
    PROVE  CapInv'
<1>1. LiveDocuments' = LiveDocuments /\ Undone' = Undone /\ revisions' = revisions
  BY DEF DecideCreate, LiveDocuments, Live, Undone
<1>2. Creators' \in SUBSET Writers
  BY DEF Creators
<1>3. IsFiniteSet(Creators') /\ Cardinality(Creators') <= Cardinality(Writers)
  BY <1>2, FS_Subset, MemoryAssumption
<1>4. Cardinality(Creators') \in Nat
  BY <1>3, FS_CardinalityType
<1>5. Cardinality(LiveDocuments) < MaxDocuments
  BY DEF DecideCreate
<1>6. Cardinality(LiveDocuments') + Cardinality(Creators') <=
          MaxDocuments + (Cardinality(Writers) - 1) + Cardinality(Undone')
  BY <1>1, <1>3, <1>4, <1>5, CountsAreFinite, MemoryAssumption
<1> QED
  BY <1>1, <1>6 DEF CapInv

(* A create's statement turns a reserved place into a live document.         *)
LEMMA CreateKeepsCap ==
    ASSUME HistoryIsSound, CapInv, NEW w \in Writers, write[w].action = "create",
           Persist(w, write[w].text, "no", 0)
    PROVE  CapInv'
<1> DEFINE d == write[w].document
<1>1. d \in Documents
  BY RequestFields DEF HistoryIsSound, NoWrite
<1>2. Written(w, d, write[w].text, "no", write[w].origin, 0)
  BY PersistIsWritten
<1> HIDE DEF d
<1>3. /\ IsFiniteSet(revisions') /\ LiveDocuments' = LiveDocuments \cup {d}
      /\ Creators' = Creators \ {w} /\ Undone \subseteq Undone'
  BY <1>1, <1>2, WrittenCounts
<1>4. w \in Creators
  BY DEF Creators
<1>5. /\ IsFiniteSet(LiveDocuments') /\ Cardinality(LiveDocuments') <= Cardinality(LiveDocuments) + 1
      /\ Cardinality(LiveDocuments') \in Nat
  <2>1. IsFiniteSet(LiveDocuments) /\ Cardinality(LiveDocuments) \in Nat
    BY CountsAreFinite DEF CapInv
  <2>2. /\ IsFiniteSet(LiveDocuments \cup {d})
        /\ Cardinality(LiveDocuments \cup {d}) \in
             {Cardinality(LiveDocuments), Cardinality(LiveDocuments) + 1}
    BY ONLY <2>1, FS_AddElement
  <2> QED
    BY ONLY <1>3, <2>1, <2>2
<1>6. Cardinality(Creators') = Cardinality(Creators) - 1
  BY <1>3, <1>4, CountsAreFinite, FS_RemoveElement
<1>7. Cardinality(Undone) <= Cardinality(Undone') /\ Cardinality(Undone') \in Nat
  <2>1. Undone' \in SUBSET revisions'
    BY DEF Undone
  <2>2. IsFiniteSet(Undone')
    BY <2>1, <1>3, FS_Subset
  <2> QED
    BY <2>2, <1>3, FS_Subset, FS_CardinalityType
<1>8. Cardinality(LiveDocuments') + Cardinality(Creators') <=
          MaxDocuments + (Cardinality(Writers) - 1) + Cardinality(Undone')
  BY <1>5, <1>6, <1>7, CountsAreFinite, MemoryAssumption DEF CapInv
<1> QED
  BY <1>3, <1>5, <1>8 DEF CapInv

(* A restore that brings a removed document back is a removal undone.        *)
LEMMA RestoreKeepsCap ==
    ASSUME HistoryIsSound, CapInv, NEW w \in Writers, restoreRevision(w)
    PROVE  CapInv'
<1> DEFINE d == write[w].document
<1>1. PICK target \in revisions :
          target.document = d /\ target.number = write[w].number /\ Persist(w, target.text, "no", target.number)
  BY DEF restoreRevision
<1>2. target.number \in Nat \ {0} /\ d \in Documents
  BY <1>1 DEF HistoryIsSound, MemoryTypeOK, Revision
<1> DEFINE new == New(d, target.text, "no", write[w].origin, target.number)
<1>3. Written(w, d, target.text, "no", write[w].origin, target.number)
  BY <1>1, PersistIsWritten
<1>4. revisions' = revisions \cup {new}
  BY <1>3 DEF Written
<1>5. new.document = d /\ new.number = document[d].revision + 1 /\ new.restored = target.number
  BY DEF New
<1> HIDE DEF d, new
<1>6. CASE Live(d)
  BY <1>2, <1>3, <1>6, WrittenKeepsCap
<1>7. CASE ~Live(d)
  <2>1. /\ document[d].revision \in Nat /\ target.number <= document[d].revision
        /\ document[d].deleted \in {"no", "yes"}
    BY <1>1, <1>2 DEF HistoryIsSound, MemoryTypeOK, HistoryIsWhole
  <2>2. document[d].revision \in 1 .. document[d].revision /\ document[d].deleted = "yes"
    BY <2>1, <1>2, <1>7 DEF Live
  <2>3. PICK s \in revisions : s.document = d /\ s.number = document[d].revision
    BY <2>2, <1>2 DEF HistoryIsSound, HistoryIsWhole
  <2>4. s.deleted = "yes"
    BY <2>2, <2>3 DEF HistoryIsSound, HistoryIsWhole
  <2>5. new \in Undone'
    BY <1>2, <1>4, <1>5, <2>3, <2>4 DEF Undone
  <2>6. new \notin revisions
    BY <1>5, <2>1 DEF HistoryIsSound, HistoryIsWhole
  <2>7. /\ IsFiniteSet(revisions') /\ LiveDocuments' = LiveDocuments \cup {d}
        /\ Creators' = Creators \ {w} /\ Undone \subseteq Undone'
    BY <1>2, <1>3, WrittenCounts
  <2>8. Undone \cup {new} \in SUBSET Undone' /\ new \notin Undone
    BY <2>5, <2>6, <2>7 DEF Undone
  <2>9. Undone' \in SUBSET revisions'
    BY DEF Undone
  <2>10. IsFiniteSet(Undone')
    BY <2>7, <2>9, FS_Subset
  <2>11. /\ Cardinality(Undone \cup {new}) <= Cardinality(Undone')
         /\ Cardinality(Undone \cup {new}) = Cardinality(Undone) + 1
         /\ Cardinality(Undone') \in Nat
    BY <2>8, <2>10, CountsAreFinite, FS_Subset, FS_AddElement, FS_CardinalityType
  <2>12. /\ IsFiniteSet(LiveDocuments') /\ Cardinality(LiveDocuments') <= Cardinality(LiveDocuments) + 1
         /\ Cardinality(LiveDocuments') \in Nat
    <3>1. IsFiniteSet(LiveDocuments) /\ Cardinality(LiveDocuments) \in Nat
      BY CountsAreFinite DEF CapInv
    <3> QED
      BY ONLY <2>7, <3>1, FS_AddElement
  <2>13. Cardinality(Creators') <= Cardinality(Creators) /\ Cardinality(Creators') \in Nat
    <3>1. Creators' \in SUBSET Creators
      BY <2>7
    <3>2. IsFiniteSet(Creators')
      BY <3>1, CountsAreFinite, FS_Subset
    <3> QED
      BY <3>1, <3>2, CountsAreFinite, FS_Subset, FS_CardinalityType
  <2>14. Cardinality(LiveDocuments') + Cardinality(Creators') <=
             MaxDocuments + (Cardinality(Writers) - 1) + Cardinality(Undone')
    BY <2>11, <2>12, <2>13, CountsAreFinite, MemoryAssumption DEF CapInv
  <2> QED
    BY <2>7, <2>12, <2>14 DEF CapInv
<1> QED
  BY <1>6, <1>7

(* Every step keeps the cap's bound, given a sound history.                  *)
LEMMA CapStep == HistoryIsSound /\ CapInv /\ [MemoryNext]_memoryVars => CapInv'
<1> SUFFICES ASSUME HistoryIsSound, CapInv, [MemoryNext]_memoryVars PROVE CapInv'
  OBVIOUS
<1>1. MemoryTypeOK
  BY DEF HistoryIsSound
<1>2. ASSUME NEW w \in Writers, Refused(w) PROVE CapInv'
  <2>1. NoWrite.action # "create"
    BY DEF NoWrite
  <2> QED
    BY <1>2, <2>1, DecisionKeepsCap DEF Refused
<1>3. ASSUME NEW w \in Writers, NEW d \in Documents, NEW text \in Texts, NEW origin \in Origins,
             DecideUpdate(w, d, text, origin)
      PROVE  CapInv'
  <2> DEFINE q == [action |-> "update", document |-> d, text |-> text, origin |-> origin]
  <2>1. UNCHANGED <<document, revisions>> /\ write' = [write EXCEPT ![w] = q] /\ q.action # "create"
    BY <1>3 DEF DecideUpdate, Decided
  <2> QED
    BY ONLY <2>1, DecisionKeepsCap, HistoryIsSound, CapInv, w \in Writers
<1>4. ASSUME NEW w \in Writers, NEW d \in Documents, DecideDelete(w, d) PROVE CapInv'
  <2> DEFINE q == [action |-> "delete", document |-> d, origin |-> "deliberate"]
  <2>1. UNCHANGED <<document, revisions>> /\ write' = [write EXCEPT ![w] = q] /\ q.action # "create"
    BY <1>4 DEF DecideDelete, Decided
  <2> QED
    BY ONLY <2>1, DecisionKeepsCap, HistoryIsSound, CapInv, w \in Writers
<1>5. ASSUME NEW w \in Writers, NEW target \in revisions, DecideRestore(w, target) PROVE CapInv'
  <2> DEFINE q == [action |-> "restore", document |-> target.document,
                   number |-> target.number, origin |-> "deliberate"]
  <2>1. UNCHANGED <<document, revisions>> /\ write' = [write EXCEPT ![w] = q] /\ q.action # "create"
    BY <1>5 DEF DecideRestore, Decided
  <2> QED
    BY ONLY <2>1, DecisionKeepsCap, HistoryIsSound, CapInv, w \in Writers
<1>6. ASSUME NEW w \in Writers, createDocument(w) PROVE CapInv'
  BY <1>2, <1>6, CreateKeepsCap DEF createDocument
<1>7. ASSUME NEW w \in Writers, reviseDocument(w) PROVE CapInv'
  <2>1. write[w].document \in Documents
    BY <1>1, <1>7, RequestFields DEF reviseDocument, NoWrite
  <2>2. CASE Live(write[w].document) /\ Persist(w, write[w].text, "no", 0)
    BY <2>1, <2>2, PersistIsWritten, WrittenKeepsCap
  <2> QED
    BY <1>2, <1>7, <2>2 DEF reviseDocument
<1>8. ASSUME NEW w \in Writers, tombstoneDocument(w) PROVE CapInv'
  <2>1. write[w].document \in Documents
    BY <1>1, <1>8, RequestFields DEF tombstoneDocument, NoWrite
  <2>2. CASE Persist(w, document[write[w].document].text, "yes", 0)
    BY <2>1, <2>2, PersistIsWritten, WrittenKeepsCap
  <2> QED
    BY <1>2, <1>8, <2>2 DEF tombstoneDocument
<1>9. CASE UNCHANGED memoryVars
  <2>1. /\ IsFiniteSet(revisions') /\ LiveDocuments' = LiveDocuments
        /\ Creators' = Creators /\ Undone' = Undone
    BY <1>9 DEF memoryVars, LiveDocuments, Live, Creators, Undone, CapInv
  <2> QED
    BY <2>1, CapKept
<1> QED
  BY <1>3, <1>4, <1>5, <1>6, <1>7, <1>8, <1>9, DecideCreateKeepsCap, RestoreKeepsCap DEF MemoryNext

(* For every set of documents, texts and concurrent writers: a document's    *)
(* history has no gap and no fork and ends in what the row holds, only an    *)
(* operator removes or brings back, a restore brings back recorded text, and *)
(* the cap is missed by no more than the other writes under way and the      *)
(* removals undone (memory-store.ts: createDocument, reviseDocument,         *)
(* tombstoneDocument, restoreRevision after their unlocked reads).           *)
THEOREM MemoryProved == MemorySpec => []MemoryIsSound
<1>1. MemoryInit => HistoryIsSound
  BY DEF MemoryInit, HistoryIsSound, MemoryTypeOK, HistoryIsWhole, RemovalIsDeliberate,
         RestoresRecordedText, NoDocument, Request
<1>2. MemoryInit => CapInv
  <2> SUFFICES ASSUME MemoryInit PROVE CapInv
    OBVIOUS
  <2>1. LiveDocuments = {} /\ Creators = {} /\ Undone = {} /\ revisions = {}
    BY DEF MemoryInit, LiveDocuments, Live, Creators, Undone, NoDocument, NoWrite
  <2>2. IsFiniteSet({}) /\ Cardinality({}) = 0
    BY FS_EmptySet
  <2>3. Cardinality(Writers) \in Nat /\ Cardinality(Writers) # 0
    BY FS_CardinalityType, FS_EmptySet, MemoryAssumption
  <2> QED
    BY <2>1, <2>2, <2>3, MemoryAssumption DEF CapInv
<1>3. HistoryIsSound /\ CapInv => MemoryIsSound
  <2> SUFFICES ASSUME HistoryIsSound, CapInv PROVE CapIsNearlyKept
    BY DEF MemoryIsSound
  <2> QED
    BY CountsAreFinite, MemoryAssumption DEF CapInv, CapIsNearlyKept
<1> QED
  BY <1>1, <1>2, <1>3, MemoryStep, CapStep, PTL DEF MemorySpec

-----------------------------------------------------------------------------
(* Releases *)

Steps == {"idle", "pull", "candidates", "migrate", "recheck", "switch", "restore",
          "record env", "record state", "remember"}
Flag == {"no", "yes"}

DeploymentTypes ==
    /\ envTag \in Tags /\ recorded \in [active : Tags, previous : Tags] /\ schema \in Tags
    /\ running \in [Services -> Tags] /\ candidates \subseteq Services
    /\ cmd \in [pc : Steps, name : {"none", "up", "upgrade", "rollback"}, target : Tags, current : Tags]
    /\ served \subseteq Releases /\ clean \in Flag /\ override \in Flag /\ interrupted \in Flag

\* Which commands reach which steps.
StepsOfCommands ==
    /\ At("pull") \/ At("restore") \/ At("record env") \/ At("record state") =>
        cmd.name \in {"upgrade", "rollback"}
    /\ At("candidates") \/ At("recheck") => cmd.name = "upgrade"
    /\ At("migrate") => cmd.name \in {"up", "upgrade"}
    /\ At("switch") => cmd.name \in {"up", "upgrade", "rollback"}
    /\ At("remember") => cmd.name = "up"

\* What the files say while a command works.
FilesOfCommands ==
    /\ ~At("idle") => cmd.target \in Releases
    /\ ~At("idle") /\ cmd.name = "up" => envTag = cmd.target
    /\ ~At("idle") /\ cmd.name \in {"upgrade", "rollback"} =>
        cmd.target # cmd.current /\ cmd.current \in Releases
    /\ ~At("idle") /\ ~At("record state") /\ cmd.name \in {"upgrade", "rollback"} =>
        /\ cmd.current = envTag
        /\ recorded = NoRecord \/ recorded.active = cmd.current
    /\ At("record state") => envTag = cmd.target
    /\ At("record env") \/ At("record state") \/ At("remember") =>
        RunsOnly(cmd.target) /\ cmd.target \in served

\* While nothing has been overridden: what served is migrated, and so is what is about to.
MigratedInTime == override = "no" =>
    /\ \A t \in served : t <= schema
    /\ \A s \in Services : running[s] <= schema
    /\ {recorded.active, recorded.previous} \subseteq served \cup {0}
    /\ At("pull") /\ cmd.name = "rollback" => cmd.target \in served
    /\ At("recheck") \/ At("switch") => cmd.target <= schema
    /\ ~At("idle") /\ cmd.name \in {"upgrade", "rollback"} => cmd.current \in served

\* What a success left is kept until a switch begins, and known while one is undone.
SuccessIsKept == clean = "yes" =>
    /\ envTag # 0
    /\ At("idle") \/ At("pull") \/ At("candidates") \/ At("migrate") \/ At("recheck") =>
        RunsOnly(envTag) /\ recorded.active = envTag
    /\ At("switch") \/ At("restore") => recorded.active = envTag

CandidatesOfUpgrade == interrupted = "no" /\ candidates # {} =>
    cmd.name = "upgrade" /\ (At("candidates") \/ At("migrate") \/ At("recheck"))

TwoReleases == recorded.previous = recorded.active => recorded = NoRecord

DeploymentInv ==
    /\ DeploymentTypes /\ StepsOfCommands /\ FilesOfCommands /\ MigratedInTime
    /\ SuccessIsKept /\ CandidatesOfUpgrade /\ TwoReleases

(* Every step of a command keeps the invariant.                               *)
LEMMA DeploymentStep == DeploymentInv /\ [DeploymentNext]_deploymentVars => DeploymentInv'
<1> SUFFICES ASSUME DeploymentInv, [DeploymentNext]_deploymentVars PROVE DeploymentInv'
  OBVIOUS
<1> USE DeploymentAssumption
<1>1. /\ DeploymentTypes /\ StepsOfCommands /\ FilesOfCommands /\ MigratedInTime
      /\ SuccessIsKept /\ CandidatesOfUpgrade /\ TwoReleases
  BY DEF DeploymentInv
<1>2. Releases \subseteq Nat /\ 0 \notin Releases /\ Tags \subseteq Nat
  BY DEF Tags
<1>3. ASSUME NEW tag \in Releases, Setup(tag) PROVE DeploymentInv'
  <2>1. DeploymentTypes'
    BY <1>3, <1>1, <1>2
       DEF DeploymentTypes, Tags, Steps, Flag, Setup, files, ghosts, At, Go, Begin, Exit, NoCommand,
           NoRecord, KnowsActive, RunsOnly
  <2>2. StepsOfCommands'
    BY <1>3, <1>1, <1>2
       DEF StepsOfCommands, DeploymentTypes, Setup, files, ghosts, At, Go, Begin, Exit, NoCommand,
           NoRecord, KnowsActive, RunsOnly
  <2>3. FilesOfCommands'
    BY <1>3, <1>1, <1>2
       DEF FilesOfCommands, DeploymentTypes, Tags, StepsOfCommands, Setup, files, ghosts, At, Go,
           Begin, Exit, NoCommand, NoRecord, KnowsActive, RunsOnly
  <2>4. MigratedInTime'
    BY <1>3, <1>1, <1>2
       DEF MigratedInTime, DeploymentTypes, Tags, StepsOfCommands, FilesOfCommands, Setup, files,
           ghosts, At, Go, Begin, Exit, NoCommand, NoRecord, KnowsActive, RunsOnly
  <2>5. SuccessIsKept'
    BY <1>3, <1>1, <1>2
       DEF SuccessIsKept, DeploymentTypes, StepsOfCommands, FilesOfCommands, Setup, files, ghosts,
           At, Go, Begin, Exit, NoCommand, NoRecord, KnowsActive, RunsOnly
  <2>6. CandidatesOfUpgrade'
    BY <1>3, <1>1, <1>2
       DEF CandidatesOfUpgrade, DeploymentTypes, StepsOfCommands, FilesOfCommands, Setup, files,
           ghosts, At, Go, Begin, Exit, NoCommand, NoRecord, KnowsActive, RunsOnly
  <2>7. TwoReleases'
    BY <1>3, <1>1, <1>2
       DEF TwoReleases, DeploymentTypes, Tags, StepsOfCommands, FilesOfCommands, Setup, files,
           ghosts, At, Go, Begin, Exit, NoCommand, NoRecord, KnowsActive, RunsOnly
  <2> QED
    BY <2>1, <2>2, <2>3, <2>4, <2>5, <2>6, <2>7 DEF DeploymentInv
<1>4. ASSUME NEW tag \in Releases, Up(tag) PROVE DeploymentInv'
  <2>1. DeploymentTypes'
    BY <1>4, <1>1, <1>2
       DEF DeploymentTypes, Tags, Steps, Flag, Up, files, ghosts, At, Go, Begin, Exit, NoCommand,
           NoRecord, KnowsActive, RunsOnly
  <2>2. StepsOfCommands'
    BY <1>4, <1>1, <1>2
       DEF StepsOfCommands, DeploymentTypes, Up, files, ghosts, At, Go, Begin, Exit, NoCommand,
           NoRecord, KnowsActive, RunsOnly
  <2>3. FilesOfCommands'
    BY <1>4, <1>1, <1>2
       DEF FilesOfCommands, DeploymentTypes, Tags, StepsOfCommands, Up, files, ghosts, At, Go,
           Begin, Exit, NoCommand, NoRecord, KnowsActive, RunsOnly
  <2>4. MigratedInTime'
    BY <1>4, <1>1, <1>2
       DEF MigratedInTime, DeploymentTypes, Tags, StepsOfCommands, FilesOfCommands, Up, files,
           ghosts, At, Go, Begin, Exit, NoCommand, NoRecord, KnowsActive, RunsOnly
  <2>5. SuccessIsKept'
    BY <1>4, <1>1, <1>2
       DEF SuccessIsKept, DeploymentTypes, StepsOfCommands, FilesOfCommands, Up, files, ghosts, At,
           Go, Begin, Exit, NoCommand, NoRecord, KnowsActive, RunsOnly
  <2>6. CandidatesOfUpgrade'
    BY <1>4, <1>1, <1>2
       DEF CandidatesOfUpgrade, DeploymentTypes, StepsOfCommands, FilesOfCommands, Up, files,
           ghosts, At, Go, Begin, Exit, NoCommand, NoRecord, KnowsActive, RunsOnly
  <2>7. TwoReleases'
    BY <1>4, <1>1, <1>2
       DEF TwoReleases, DeploymentTypes, Tags, StepsOfCommands, FilesOfCommands, Up, files, ghosts,
           At, Go, Begin, Exit, NoCommand, NoRecord, KnowsActive, RunsOnly
  <2> QED
    BY <2>1, <2>2, <2>3, <2>4, <2>5, <2>6, <2>7 DEF DeploymentInv
<1>5. ASSUME NEW tag \in Releases, Upgrade(tag) PROVE DeploymentInv'
  <2>1. DeploymentTypes'
    BY <1>5, <1>1, <1>2
       DEF DeploymentTypes, Tags, Steps, Flag, Upgrade, files, ghosts, At, Go, Begin, Exit,
           NoCommand, NoRecord, KnowsActive, RunsOnly
  <2>2. StepsOfCommands'
    BY <1>5, <1>1, <1>2
       DEF StepsOfCommands, DeploymentTypes, Upgrade, files, ghosts, At, Go, Begin, Exit, NoCommand,
           NoRecord, KnowsActive, RunsOnly
  <2>3. FilesOfCommands'
    BY <1>5, <1>1, <1>2
       DEF FilesOfCommands, DeploymentTypes, Tags, StepsOfCommands, Upgrade, files, ghosts, At, Go,
           Begin, Exit, NoCommand, NoRecord, KnowsActive, RunsOnly
  <2>4. MigratedInTime'
    BY <1>5, <1>1, <1>2
       DEF MigratedInTime, DeploymentTypes, Tags, StepsOfCommands, FilesOfCommands, Upgrade, files,
           ghosts, At, Go, Begin, Exit, NoCommand, NoRecord, KnowsActive, RunsOnly
  <2>5. SuccessIsKept'
    BY <1>5, <1>1, <1>2
       DEF SuccessIsKept, DeploymentTypes, StepsOfCommands, FilesOfCommands, Upgrade, files, ghosts,
           At, Go, Begin, Exit, NoCommand, NoRecord, KnowsActive, RunsOnly
  <2>6. CandidatesOfUpgrade'
    BY <1>5, <1>1, <1>2
       DEF CandidatesOfUpgrade, DeploymentTypes, StepsOfCommands, FilesOfCommands, Upgrade, files,
           ghosts, At, Go, Begin, Exit, NoCommand, NoRecord, KnowsActive, RunsOnly
  <2>7. TwoReleases'
    BY <1>5, <1>1, <1>2
       DEF TwoReleases, DeploymentTypes, Tags, StepsOfCommands, FilesOfCommands, Upgrade, files,
           ghosts, At, Go, Begin, Exit, NoCommand, NoRecord, KnowsActive, RunsOnly
  <2> QED
    BY <2>1, <2>2, <2>3, <2>4, <2>5, <2>6, <2>7 DEF DeploymentInv
<1>6. ASSUME NEW tag \in Releases, Rollback(tag) PROVE DeploymentInv'
  <2>1. DeploymentTypes'
    BY <1>6, <1>1, <1>2
       DEF DeploymentTypes, Tags, Steps, Flag, Rollback, files, ghosts, At, Go, Begin, Exit,
           NoCommand, NoRecord, KnowsActive, RunsOnly
  <2>2. StepsOfCommands'
    BY <1>6, <1>1, <1>2
       DEF StepsOfCommands, DeploymentTypes, Rollback, files, ghosts, At, Go, Begin, Exit,
           NoCommand, NoRecord, KnowsActive, RunsOnly
  <2>3. FilesOfCommands'
    BY <1>6, <1>1, <1>2
       DEF FilesOfCommands, DeploymentTypes, Tags, StepsOfCommands, Rollback, files, ghosts, At, Go,
           Begin, Exit, NoCommand, NoRecord, KnowsActive, RunsOnly
  <2>4. MigratedInTime'
    BY <1>6, <1>1, <1>2
       DEF MigratedInTime, DeploymentTypes, Tags, StepsOfCommands, FilesOfCommands, Rollback, files,
           ghosts, At, Go, Begin, Exit, NoCommand, NoRecord, KnowsActive, RunsOnly
  <2>5. SuccessIsKept'
    BY <1>6, <1>1, <1>2
       DEF SuccessIsKept, DeploymentTypes, StepsOfCommands, FilesOfCommands, Rollback, files,
           ghosts, At, Go, Begin, Exit, NoCommand, NoRecord, KnowsActive, RunsOnly
  <2>6. CandidatesOfUpgrade'
    BY <1>6, <1>1, <1>2
       DEF CandidatesOfUpgrade, DeploymentTypes, StepsOfCommands, FilesOfCommands, Rollback, files,
           ghosts, At, Go, Begin, Exit, NoCommand, NoRecord, KnowsActive, RunsOnly
  <2>7. TwoReleases'
    BY <1>6, <1>1, <1>2
       DEF TwoReleases, DeploymentTypes, Tags, StepsOfCommands, FilesOfCommands, Rollback, files,
           ghosts, At, Go, Begin, Exit, NoCommand, NoRecord, KnowsActive, RunsOnly
  <2> QED
    BY <2>1, <2>2, <2>3, <2>4, <2>5, <2>6, <2>7 DEF DeploymentInv
<1>7. ASSUME pullRelease PROVE DeploymentInv'
  <2>1. DeploymentTypes'
    BY <1>7, <1>1, <1>2
       DEF DeploymentTypes, Tags, Steps, Flag, pullRelease, files, ghosts, At, Go, Begin, Exit,
           NoCommand, NoRecord, KnowsActive, RunsOnly
  <2>2. StepsOfCommands'
    BY <1>7, <1>1, <1>2
       DEF StepsOfCommands, DeploymentTypes, pullRelease, files, ghosts, At, Go, Begin, Exit,
           NoCommand, NoRecord, KnowsActive, RunsOnly
  <2>3. FilesOfCommands'
    BY <1>7, <1>1, <1>2
       DEF FilesOfCommands, DeploymentTypes, Tags, StepsOfCommands, pullRelease, files, ghosts, At,
           Go, Begin, Exit, NoCommand, NoRecord, KnowsActive, RunsOnly
  <2>4. MigratedInTime'
    BY <1>7, <1>1, <1>2
       DEF MigratedInTime, DeploymentTypes, Tags, StepsOfCommands, FilesOfCommands, pullRelease,
           files, ghosts, At, Go, Begin, Exit, NoCommand, NoRecord, KnowsActive, RunsOnly
  <2>5. SuccessIsKept'
    BY <1>7, <1>1, <1>2
       DEF SuccessIsKept, DeploymentTypes, StepsOfCommands, FilesOfCommands, pullRelease, files,
           ghosts, At, Go, Begin, Exit, NoCommand, NoRecord, KnowsActive, RunsOnly
  <2>6. CandidatesOfUpgrade'
    BY <1>7, <1>1, <1>2
       DEF CandidatesOfUpgrade, DeploymentTypes, StepsOfCommands, FilesOfCommands, pullRelease,
           files, ghosts, At, Go, Begin, Exit, NoCommand, NoRecord, KnowsActive, RunsOnly
  <2>7. TwoReleases'
    BY <1>7, <1>1, <1>2
       DEF TwoReleases, DeploymentTypes, Tags, StepsOfCommands, FilesOfCommands, pullRelease, files,
           ghosts, At, Go, Begin, Exit, NoCommand, NoRecord, KnowsActive, RunsOnly
  <2> QED
    BY <2>1, <2>2, <2>3, <2>4, <2>5, <2>6, <2>7 DEF DeploymentInv
<1>8. ASSUME PullFails PROVE DeploymentInv'
  <2>1. DeploymentTypes'
    BY <1>8, <1>1, <1>2
       DEF DeploymentTypes, Tags, Steps, Flag, PullFails, files, ghosts, At, Go, Begin, Exit,
           NoCommand, NoRecord, KnowsActive, RunsOnly
  <2>2. StepsOfCommands'
    BY <1>8, <1>1, <1>2
       DEF StepsOfCommands, DeploymentTypes, PullFails, files, ghosts, At, Go, Begin, Exit,
           NoCommand, NoRecord, KnowsActive, RunsOnly
  <2>3. FilesOfCommands'
    BY <1>8, <1>1, <1>2
       DEF FilesOfCommands, DeploymentTypes, Tags, StepsOfCommands, PullFails, files, ghosts, At,
           Go, Begin, Exit, NoCommand, NoRecord, KnowsActive, RunsOnly
  <2>4. MigratedInTime'
    BY <1>8, <1>1, <1>2
       DEF MigratedInTime, DeploymentTypes, Tags, StepsOfCommands, FilesOfCommands, PullFails,
           files, ghosts, At, Go, Begin, Exit, NoCommand, NoRecord, KnowsActive, RunsOnly
  <2>5. SuccessIsKept'
    BY <1>8, <1>1, <1>2
       DEF SuccessIsKept, DeploymentTypes, StepsOfCommands, FilesOfCommands, PullFails, files,
           ghosts, At, Go, Begin, Exit, NoCommand, NoRecord, KnowsActive, RunsOnly
  <2>6. CandidatesOfUpgrade'
    BY <1>8, <1>1, <1>2
       DEF CandidatesOfUpgrade, DeploymentTypes, StepsOfCommands, FilesOfCommands, PullFails, files,
           ghosts, At, Go, Begin, Exit, NoCommand, NoRecord, KnowsActive, RunsOnly
  <2>7. TwoReleases'
    BY <1>8, <1>1, <1>2
       DEF TwoReleases, DeploymentTypes, Tags, StepsOfCommands, FilesOfCommands, PullFails, files,
           ghosts, At, Go, Begin, Exit, NoCommand, NoRecord, KnowsActive, RunsOnly
  <2> QED
    BY <2>1, <2>2, <2>3, <2>4, <2>5, <2>6, <2>7 DEF DeploymentInv
<1>9. ASSUME NEW s \in Services, StartCandidate(s) PROVE DeploymentInv'
  <2>1. DeploymentTypes'
    BY <1>9, <1>1, <1>2
       DEF DeploymentTypes, Tags, Steps, Flag, StartCandidate, files, ghosts, At, Go, Begin, Exit,
           NoCommand, NoRecord, KnowsActive, RunsOnly
  <2>2. StepsOfCommands'
    BY <1>9, <1>1, <1>2
       DEF StepsOfCommands, DeploymentTypes, StartCandidate, files, ghosts, At, Go, Begin, Exit,
           NoCommand, NoRecord, KnowsActive, RunsOnly
  <2>3. FilesOfCommands'
    BY <1>9, <1>1, <1>2
       DEF FilesOfCommands, DeploymentTypes, Tags, StepsOfCommands, StartCandidate, files, ghosts,
           At, Go, Begin, Exit, NoCommand, NoRecord, KnowsActive, RunsOnly
  <2>4. MigratedInTime'
    BY <1>9, <1>1, <1>2
       DEF MigratedInTime, DeploymentTypes, Tags, StepsOfCommands, FilesOfCommands, StartCandidate,
           files, ghosts, At, Go, Begin, Exit, NoCommand, NoRecord, KnowsActive, RunsOnly
  <2>5. SuccessIsKept'
    BY <1>9, <1>1, <1>2
       DEF SuccessIsKept, DeploymentTypes, StepsOfCommands, FilesOfCommands, StartCandidate, files,
           ghosts, At, Go, Begin, Exit, NoCommand, NoRecord, KnowsActive, RunsOnly
  <2>6. CandidatesOfUpgrade'
    BY <1>9, <1>1, <1>2
       DEF CandidatesOfUpgrade, DeploymentTypes, StepsOfCommands, FilesOfCommands, StartCandidate,
           files, ghosts, At, Go, Begin, Exit, NoCommand, NoRecord, KnowsActive, RunsOnly
  <2>7. TwoReleases'
    BY <1>9, <1>1, <1>2
       DEF TwoReleases, DeploymentTypes, Tags, StepsOfCommands, FilesOfCommands, StartCandidate,
           files, ghosts, At, Go, Begin, Exit, NoCommand, NoRecord, KnowsActive, RunsOnly
  <2> QED
    BY <2>1, <2>2, <2>3, <2>4, <2>5, <2>6, <2>7 DEF DeploymentInv
<1>10. ASSUME AllHealthy PROVE DeploymentInv'
  <2>1. DeploymentTypes'
    BY <1>10, <1>1, <1>2
       DEF DeploymentTypes, Tags, Steps, Flag, AllHealthy, files, ghosts, At, Go, Begin, Exit,
           NoCommand, NoRecord, KnowsActive, RunsOnly
  <2>2. StepsOfCommands'
    BY <1>10, <1>1, <1>2
       DEF StepsOfCommands, DeploymentTypes, AllHealthy, files, ghosts, At, Go, Begin, Exit,
           NoCommand, NoRecord, KnowsActive, RunsOnly
  <2>3. FilesOfCommands'
    BY <1>10, <1>1, <1>2
       DEF FilesOfCommands, DeploymentTypes, Tags, StepsOfCommands, AllHealthy, files, ghosts, At,
           Go, Begin, Exit, NoCommand, NoRecord, KnowsActive, RunsOnly
  <2>4. MigratedInTime'
    BY <1>10, <1>1, <1>2
       DEF MigratedInTime, DeploymentTypes, Tags, StepsOfCommands, FilesOfCommands, AllHealthy,
           files, ghosts, At, Go, Begin, Exit, NoCommand, NoRecord, KnowsActive, RunsOnly
  <2>5. SuccessIsKept'
    BY <1>10, <1>1, <1>2
       DEF SuccessIsKept, DeploymentTypes, StepsOfCommands, FilesOfCommands, AllHealthy, files,
           ghosts, At, Go, Begin, Exit, NoCommand, NoRecord, KnowsActive, RunsOnly
  <2>6. CandidatesOfUpgrade'
    BY <1>10, <1>1, <1>2
       DEF CandidatesOfUpgrade, DeploymentTypes, StepsOfCommands, FilesOfCommands, AllHealthy,
           files, ghosts, At, Go, Begin, Exit, NoCommand, NoRecord, KnowsActive, RunsOnly
  <2>7. TwoReleases'
    BY <1>10, <1>1, <1>2
       DEF TwoReleases, DeploymentTypes, Tags, StepsOfCommands, FilesOfCommands, AllHealthy, files,
           ghosts, At, Go, Begin, Exit, NoCommand, NoRecord, KnowsActive, RunsOnly
  <2> QED
    BY <2>1, <2>2, <2>3, <2>4, <2>5, <2>6, <2>7 DEF DeploymentInv
<1>11. ASSUME CandidateFails PROVE DeploymentInv'
  <2>1. DeploymentTypes'
    BY <1>11, <1>1, <1>2
       DEF DeploymentTypes, Tags, Steps, Flag, CandidateFails, files, ghosts, At, Go, Begin, Exit,
           NoCommand, NoRecord, KnowsActive, RunsOnly
  <2>2. StepsOfCommands'
    BY <1>11, <1>1, <1>2
       DEF StepsOfCommands, DeploymentTypes, CandidateFails, files, ghosts, At, Go, Begin, Exit,
           NoCommand, NoRecord, KnowsActive, RunsOnly
  <2>3. FilesOfCommands'
    BY <1>11, <1>1, <1>2
       DEF FilesOfCommands, DeploymentTypes, Tags, StepsOfCommands, CandidateFails, files, ghosts,
           At, Go, Begin, Exit, NoCommand, NoRecord, KnowsActive, RunsOnly
  <2>4. MigratedInTime'
    BY <1>11, <1>1, <1>2
       DEF MigratedInTime, DeploymentTypes, Tags, StepsOfCommands, FilesOfCommands, CandidateFails,
           files, ghosts, At, Go, Begin, Exit, NoCommand, NoRecord, KnowsActive, RunsOnly
  <2>5. SuccessIsKept'
    BY <1>11, <1>1, <1>2
       DEF SuccessIsKept, DeploymentTypes, StepsOfCommands, FilesOfCommands, CandidateFails, files,
           ghosts, At, Go, Begin, Exit, NoCommand, NoRecord, KnowsActive, RunsOnly
  <2>6. CandidatesOfUpgrade'
    BY <1>11, <1>1, <1>2
       DEF CandidatesOfUpgrade, DeploymentTypes, StepsOfCommands, FilesOfCommands, CandidateFails,
           files, ghosts, At, Go, Begin, Exit, NoCommand, NoRecord, KnowsActive, RunsOnly
  <2>7. TwoReleases'
    BY <1>11, <1>1, <1>2
       DEF TwoReleases, DeploymentTypes, Tags, StepsOfCommands, FilesOfCommands, CandidateFails,
           files, ghosts, At, Go, Begin, Exit, NoCommand, NoRecord, KnowsActive, RunsOnly
  <2> QED
    BY <2>1, <2>2, <2>3, <2>4, <2>5, <2>6, <2>7 DEF DeploymentInv
<1>12. ASSUME Migrate PROVE DeploymentInv'
  <2>1. DeploymentTypes'
    BY <1>12, <1>1, <1>2
       DEF DeploymentTypes, Tags, Steps, Flag, Migrate, Migrated, files, ghosts, At, Go, Begin,
           Exit, NoCommand, NoRecord, KnowsActive, RunsOnly
  <2>2. StepsOfCommands'
    BY <1>12, <1>1, <1>2
       DEF StepsOfCommands, DeploymentTypes, Migrate, Migrated, files, ghosts, At, Go, Begin, Exit,
           NoCommand, NoRecord, KnowsActive, RunsOnly
  <2>3. FilesOfCommands'
    BY <1>12, <1>1, <1>2
       DEF FilesOfCommands, DeploymentTypes, Tags, StepsOfCommands, Migrate, Migrated, files,
           ghosts, At, Go, Begin, Exit, NoCommand, NoRecord, KnowsActive, RunsOnly
  <2>4. MigratedInTime'
    BY <1>12, <1>1, <1>2
       DEF MigratedInTime, DeploymentTypes, Tags, StepsOfCommands, FilesOfCommands, Migrate,
           Migrated, files, ghosts, At, Go, Begin, Exit, NoCommand, NoRecord, KnowsActive, RunsOnly
  <2>5. SuccessIsKept'
    BY <1>12, <1>1, <1>2
       DEF SuccessIsKept, DeploymentTypes, StepsOfCommands, FilesOfCommands, Migrate, Migrated,
           files, ghosts, At, Go, Begin, Exit, NoCommand, NoRecord, KnowsActive, RunsOnly
  <2>6. CandidatesOfUpgrade'
    BY <1>12, <1>1, <1>2
       DEF CandidatesOfUpgrade, DeploymentTypes, StepsOfCommands, FilesOfCommands, Migrate,
           Migrated, files, ghosts, At, Go, Begin, Exit, NoCommand, NoRecord, KnowsActive, RunsOnly
  <2>7. TwoReleases'
    BY <1>12, <1>1, <1>2
       DEF TwoReleases, DeploymentTypes, Tags, StepsOfCommands, FilesOfCommands, Migrate, Migrated,
           files, ghosts, At, Go, Begin, Exit, NoCommand, NoRecord, KnowsActive, RunsOnly
  <2> QED
    BY <2>1, <2>2, <2>3, <2>4, <2>5, <2>6, <2>7 DEF DeploymentInv
<1>13. ASSUME MigrateFails PROVE DeploymentInv'
  <2>1. DeploymentTypes'
    BY <1>13, <1>1, <1>2
       DEF DeploymentTypes, Tags, Steps, Flag, MigrateFails, Migrated, files, ghosts, At, Go, Begin,
           Exit, NoCommand, NoRecord, KnowsActive, RunsOnly
  <2>2. StepsOfCommands'
    BY <1>13, <1>1, <1>2
       DEF StepsOfCommands, DeploymentTypes, MigrateFails, Migrated, files, ghosts, At, Go, Begin,
           Exit, NoCommand, NoRecord, KnowsActive, RunsOnly
  <2>3. FilesOfCommands'
    BY <1>13, <1>1, <1>2
       DEF FilesOfCommands, DeploymentTypes, Tags, StepsOfCommands, MigrateFails, Migrated, files,
           ghosts, At, Go, Begin, Exit, NoCommand, NoRecord, KnowsActive, RunsOnly
  <2>8. /\ schema' >= schema /\ schema' \in Nat /\ cmd' = NoCommand
        /\ UNCHANGED <<served, running, recorded, override>>
    BY <1>13, <1>1, <1>2 DEF DeploymentTypes, MigrateFails, Migrated, Exit, files, ghosts
  <2>9. override = "no" => \A t \in served : t <= schema'
    BY <2>8, <1>1, <1>2 DEF MigratedInTime, DeploymentTypes
  <2>10. ASSUME override = "no", NEW s \in Services PROVE running[s] <= schema'
    <3>1. running[s] \in Nat /\ schema \in Nat
      BY <1>1, <1>2 DEF DeploymentTypes
    <3>2. running[s] <= schema
      BY <2>10, <1>1 DEF MigratedInTime
    <3> QED
      BY <3>1, <3>2, <2>8
  <2>4. MigratedInTime'
    BY <2>8, <2>9, <2>10, <1>1 DEF MigratedInTime, NoCommand, At
  <2>5. SuccessIsKept'
    BY <1>13, <1>1, <1>2
       DEF SuccessIsKept, DeploymentTypes, StepsOfCommands, FilesOfCommands, MigrateFails, Migrated,
           files, ghosts, At, Go, Begin, Exit, NoCommand, NoRecord, KnowsActive, RunsOnly
  <2>6. CandidatesOfUpgrade'
    BY <1>13, <1>1, <1>2
       DEF CandidatesOfUpgrade, DeploymentTypes, StepsOfCommands, FilesOfCommands, MigrateFails,
           Migrated, files, ghosts, At, Go, Begin, Exit, NoCommand, NoRecord, KnowsActive, RunsOnly
  <2>7. TwoReleases'
    BY <1>13, <1>1, <1>2
       DEF TwoReleases, DeploymentTypes, Tags, StepsOfCommands, FilesOfCommands, MigrateFails,
           Migrated, files, ghosts, At, Go, Begin, Exit, NoCommand, NoRecord, KnowsActive, RunsOnly
  <2> QED
    BY <2>1, <2>2, <2>3, <2>4, <2>5, <2>6, <2>7 DEF DeploymentInv
<1>14. ASSUME UpFails PROVE DeploymentInv'
  <2>1. DeploymentTypes'
    BY <1>14, <1>1, <1>2
       DEF DeploymentTypes, Tags, Steps, Flag, UpFails, Migrated, ExitDirty, files, ghosts, At, Go,
           Begin, Exit, NoCommand, NoRecord, KnowsActive, RunsOnly
  <2>2. StepsOfCommands'
    BY <1>14, <1>1, <1>2
       DEF StepsOfCommands, DeploymentTypes, UpFails, Migrated, ExitDirty, files, ghosts, At, Go,
           Begin, Exit, NoCommand, NoRecord, KnowsActive, RunsOnly
  <2>3. FilesOfCommands'
    BY <1>14, <1>1, <1>2
       DEF FilesOfCommands, DeploymentTypes, Tags, StepsOfCommands, UpFails, Migrated, ExitDirty,
           files, ghosts, At, Go, Begin, Exit, NoCommand, NoRecord, KnowsActive, RunsOnly
  <2>8. /\ schema' >= schema /\ schema' \in Nat /\ cmd' = NoCommand
        /\ UNCHANGED <<served, running, recorded, override>>
    BY <1>14, <1>1, <1>2 DEF DeploymentTypes, UpFails, Migrated, ExitDirty, Exit, files, ghosts
  <2>9. override = "no" => \A t \in served : t <= schema'
    BY <2>8, <1>1, <1>2 DEF MigratedInTime, DeploymentTypes
  <2>10. ASSUME override = "no", NEW s \in Services PROVE running[s] <= schema'
    <3>1. running[s] \in Nat /\ schema \in Nat
      BY <1>1, <1>2 DEF DeploymentTypes
    <3>2. running[s] <= schema
      BY <2>10, <1>1 DEF MigratedInTime
    <3> QED
      BY <3>1, <3>2, <2>8
  <2>4. MigratedInTime'
    BY <2>8, <2>9, <2>10, <1>1 DEF MigratedInTime, NoCommand, At
  <2>5. SuccessIsKept'
    BY <1>14, <1>1, <1>2
       DEF SuccessIsKept, DeploymentTypes, StepsOfCommands, FilesOfCommands, UpFails, Migrated,
           ExitDirty, files, ghosts, At, Go, Begin, Exit, NoCommand, NoRecord, KnowsActive, RunsOnly
  <2>6. CandidatesOfUpgrade'
    BY <1>14, <1>1, <1>2
       DEF CandidatesOfUpgrade, DeploymentTypes, StepsOfCommands, FilesOfCommands, UpFails,
           Migrated, ExitDirty, files, ghosts, At, Go, Begin, Exit, NoCommand, NoRecord, KnowsActive,
           RunsOnly
  <2>7. TwoReleases'
    BY <1>14, <1>1, <1>2
       DEF TwoReleases, DeploymentTypes, Tags, StepsOfCommands, FilesOfCommands, UpFails, Migrated,
           ExitDirty, files, ghosts, At, Go, Begin, Exit, NoCommand, NoRecord, KnowsActive, RunsOnly
  <2> QED
    BY <2>1, <2>2, <2>3, <2>4, <2>5, <2>6, <2>7 DEF DeploymentInv
<1>15. ASSUME Recheck PROVE DeploymentInv'
  <2>1. DeploymentTypes'
    BY <1>15, <1>1, <1>2
       DEF DeploymentTypes, Tags, Steps, Flag, Recheck, files, ghosts, At, Go, Begin, Exit,
           NoCommand, NoRecord, KnowsActive, RunsOnly
  <2>2. StepsOfCommands'
    BY <1>15, <1>1, <1>2
       DEF StepsOfCommands, DeploymentTypes, Recheck, files, ghosts, At, Go, Begin, Exit, NoCommand,
           NoRecord, KnowsActive, RunsOnly
  <2>3. FilesOfCommands'
    BY <1>15, <1>1, <1>2
       DEF FilesOfCommands, DeploymentTypes, Tags, StepsOfCommands, Recheck, files, ghosts, At, Go,
           Begin, Exit, NoCommand, NoRecord, KnowsActive, RunsOnly
  <2>4. MigratedInTime'
    BY <1>15, <1>1, <1>2
       DEF MigratedInTime, DeploymentTypes, Tags, StepsOfCommands, FilesOfCommands, Recheck, files,
           ghosts, At, Go, Begin, Exit, NoCommand, NoRecord, KnowsActive, RunsOnly
  <2>5. SuccessIsKept'
    BY <1>15, <1>1, <1>2
       DEF SuccessIsKept, DeploymentTypes, StepsOfCommands, FilesOfCommands, Recheck, files, ghosts,
           At, Go, Begin, Exit, NoCommand, NoRecord, KnowsActive, RunsOnly
  <2>6. CandidatesOfUpgrade'
    BY <1>15, <1>1, <1>2
       DEF CandidatesOfUpgrade, DeploymentTypes, StepsOfCommands, FilesOfCommands, Recheck, files,
           ghosts, At, Go, Begin, Exit, NoCommand, NoRecord, KnowsActive, RunsOnly
  <2>7. TwoReleases'
    BY <1>15, <1>1, <1>2
       DEF TwoReleases, DeploymentTypes, Tags, StepsOfCommands, FilesOfCommands, Recheck, files,
           ghosts, At, Go, Begin, Exit, NoCommand, NoRecord, KnowsActive, RunsOnly
  <2> QED
    BY <2>1, <2>2, <2>3, <2>4, <2>5, <2>6, <2>7 DEF DeploymentInv
<1>16. ASSUME NEW s \in Services, SwitchOne(s) PROVE DeploymentInv'
  <2>1. DeploymentTypes'
    BY <1>16, <1>1, <1>2
       DEF DeploymentTypes, Tags, Steps, Flag, SwitchOne, Wanted, files, ghosts, At, Go, Begin,
           Exit, NoCommand, NoRecord, KnowsActive, RunsOnly
  <2>2. StepsOfCommands'
    BY <1>16, <1>1, <1>2
       DEF StepsOfCommands, DeploymentTypes, SwitchOne, Wanted, files, ghosts, At, Go, Begin, Exit,
           NoCommand, NoRecord, KnowsActive, RunsOnly
  <2>3. FilesOfCommands'
    BY <1>16, <1>1, <1>2
       DEF FilesOfCommands, DeploymentTypes, Tags, StepsOfCommands, SwitchOne, Wanted, files,
           ghosts, At, Go, Begin, Exit, NoCommand, NoRecord, KnowsActive, RunsOnly
  <2>4. MigratedInTime'
    BY <1>16, <1>1, <1>2
       DEF MigratedInTime, DeploymentTypes, Tags, StepsOfCommands, FilesOfCommands, SwitchOne,
           Wanted, files, ghosts, At, Go, Begin, Exit, NoCommand, NoRecord, KnowsActive, RunsOnly
  <2>5. SuccessIsKept'
    BY <1>16, <1>1, <1>2
       DEF SuccessIsKept, DeploymentTypes, StepsOfCommands, FilesOfCommands, SwitchOne, Wanted,
           files, ghosts, At, Go, Begin, Exit, NoCommand, NoRecord, KnowsActive, RunsOnly
  <2>6. CandidatesOfUpgrade'
    BY <1>16, <1>1, <1>2
       DEF CandidatesOfUpgrade, DeploymentTypes, StepsOfCommands, FilesOfCommands, SwitchOne,
           Wanted, files, ghosts, At, Go, Begin, Exit, NoCommand, NoRecord, KnowsActive, RunsOnly
  <2>7. TwoReleases'
    BY <1>16, <1>1, <1>2
       DEF TwoReleases, DeploymentTypes, Tags, StepsOfCommands, FilesOfCommands, SwitchOne, Wanted,
           files, ghosts, At, Go, Begin, Exit, NoCommand, NoRecord, KnowsActive, RunsOnly
  <2> QED
    BY <2>1, <2>2, <2>3, <2>4, <2>5, <2>6, <2>7 DEF DeploymentInv
<1>17. ASSUME Switched PROVE DeploymentInv'
  <2>1. DeploymentTypes'
    BY <1>17, <1>1, <1>2
       DEF StepsOfCommands, FilesOfCommands, DeploymentTypes, Tags, Steps, Flag, Switched, files,
           ghosts, At, Go, Begin, Exit, NoCommand, NoRecord, KnowsActive, RunsOnly
  <2>2. StepsOfCommands'
    BY <1>17, <1>1, <1>2
       DEF StepsOfCommands, DeploymentTypes, Switched, files, ghosts, At, Go, Begin, Exit,
           NoCommand, NoRecord, KnowsActive, RunsOnly
  <2>3. FilesOfCommands'
    BY <1>17, <1>1, <1>2
       DEF FilesOfCommands, DeploymentTypes, Tags, StepsOfCommands, Switched, files, ghosts, At, Go,
           Begin, Exit, NoCommand, NoRecord, KnowsActive, RunsOnly
  <2>4. MigratedInTime'
    BY <1>17, <1>1, <1>2
       DEF MigratedInTime, DeploymentTypes, Tags, StepsOfCommands, FilesOfCommands, Switched, files,
           ghosts, At, Go, Begin, Exit, NoCommand, NoRecord, KnowsActive, RunsOnly
  <2>5. SuccessIsKept'
    BY <1>17, <1>1, <1>2
       DEF SuccessIsKept, DeploymentTypes, StepsOfCommands, FilesOfCommands, Switched, files,
           ghosts, At, Go, Begin, Exit, NoCommand, NoRecord, KnowsActive, RunsOnly
  <2>6. CandidatesOfUpgrade'
    BY <1>17, <1>1, <1>2
       DEF CandidatesOfUpgrade, DeploymentTypes, StepsOfCommands, FilesOfCommands, Switched, files,
           ghosts, At, Go, Begin, Exit, NoCommand, NoRecord, KnowsActive, RunsOnly
  <2>7. TwoReleases'
    BY <1>17, <1>1, <1>2
       DEF TwoReleases, DeploymentTypes, Tags, StepsOfCommands, FilesOfCommands, Switched, files,
           ghosts, At, Go, Begin, Exit, NoCommand, NoRecord, KnowsActive, RunsOnly
  <2> QED
    BY <2>1, <2>2, <2>3, <2>4, <2>5, <2>6, <2>7 DEF DeploymentInv
<1>18. ASSUME SwitchFails PROVE DeploymentInv'
  <2>1. DeploymentTypes'
    BY <1>18, <1>1, <1>2
       DEF DeploymentTypes, Tags, Steps, Flag, SwitchFails, files, ghosts, At, Go, Begin, Exit,
           NoCommand, NoRecord, KnowsActive, RunsOnly
  <2>2. StepsOfCommands'
    BY <1>18, <1>1, <1>2
       DEF StepsOfCommands, DeploymentTypes, SwitchFails, files, ghosts, At, Go, Begin, Exit,
           NoCommand, NoRecord, KnowsActive, RunsOnly
  <2>3. FilesOfCommands'
    BY <1>18, <1>1, <1>2
       DEF FilesOfCommands, DeploymentTypes, Tags, StepsOfCommands, SwitchFails, files, ghosts, At,
           Go, Begin, Exit, NoCommand, NoRecord, KnowsActive, RunsOnly
  <2>4. MigratedInTime'
    BY <1>18, <1>1, <1>2
       DEF MigratedInTime, DeploymentTypes, Tags, StepsOfCommands, FilesOfCommands, SwitchFails,
           files, ghosts, At, Go, Begin, Exit, NoCommand, NoRecord, KnowsActive, RunsOnly
  <2>5. SuccessIsKept'
    BY <1>18, <1>1, <1>2
       DEF SuccessIsKept, DeploymentTypes, StepsOfCommands, FilesOfCommands, SwitchFails, files,
           ghosts, At, Go, Begin, Exit, NoCommand, NoRecord, KnowsActive, RunsOnly
  <2>6. CandidatesOfUpgrade'
    BY <1>18, <1>1, <1>2
       DEF CandidatesOfUpgrade, DeploymentTypes, StepsOfCommands, FilesOfCommands, SwitchFails,
           files, ghosts, At, Go, Begin, Exit, NoCommand, NoRecord, KnowsActive, RunsOnly
  <2>7. TwoReleases'
    BY <1>18, <1>1, <1>2
       DEF TwoReleases, DeploymentTypes, Tags, StepsOfCommands, FilesOfCommands, SwitchFails, files,
           ghosts, At, Go, Begin, Exit, NoCommand, NoRecord, KnowsActive, RunsOnly
  <2> QED
    BY <2>1, <2>2, <2>3, <2>4, <2>5, <2>6, <2>7 DEF DeploymentInv
<1>19. ASSUME Restored PROVE DeploymentInv'
  <2>1. DeploymentTypes'
    BY <1>19, <1>1, <1>2
       DEF StepsOfCommands, FilesOfCommands, DeploymentTypes, Tags, Steps, Flag, Restored, files,
           ghosts, At, Go, Begin, Exit, NoCommand, NoRecord, KnowsActive, RunsOnly
  <2>2. StepsOfCommands'
    BY <1>19, <1>1, <1>2
       DEF StepsOfCommands, DeploymentTypes, Restored, files, ghosts, At, Go, Begin, Exit,
           NoCommand, NoRecord, KnowsActive, RunsOnly
  <2>3. FilesOfCommands'
    BY <1>19, <1>1, <1>2
       DEF FilesOfCommands, DeploymentTypes, Tags, StepsOfCommands, Restored, files, ghosts, At, Go,
           Begin, Exit, NoCommand, NoRecord, KnowsActive, RunsOnly
  <2>4. MigratedInTime'
    BY <1>19, <1>1, <1>2
       DEF MigratedInTime, DeploymentTypes, Tags, StepsOfCommands, FilesOfCommands, Restored, files,
           ghosts, At, Go, Begin, Exit, NoCommand, NoRecord, KnowsActive, RunsOnly
  <2>5. SuccessIsKept'
    BY <1>19, <1>1, <1>2
       DEF SuccessIsKept, DeploymentTypes, StepsOfCommands, FilesOfCommands, Restored, files,
           ghosts, At, Go, Begin, Exit, NoCommand, NoRecord, KnowsActive, RunsOnly
  <2>6. CandidatesOfUpgrade'
    BY <1>19, <1>1, <1>2
       DEF CandidatesOfUpgrade, DeploymentTypes, StepsOfCommands, FilesOfCommands, Restored, files,
           ghosts, At, Go, Begin, Exit, NoCommand, NoRecord, KnowsActive, RunsOnly
  <2>7. TwoReleases'
    BY <1>19, <1>1, <1>2
       DEF TwoReleases, DeploymentTypes, Tags, StepsOfCommands, FilesOfCommands, Restored, files,
           ghosts, At, Go, Begin, Exit, NoCommand, NoRecord, KnowsActive, RunsOnly
  <2> QED
    BY <2>1, <2>2, <2>3, <2>4, <2>5, <2>6, <2>7 DEF DeploymentInv
<1>20. ASSUME Stranded PROVE DeploymentInv'
  <2>1. DeploymentTypes'
    BY <1>20, <1>1, <1>2
       DEF DeploymentTypes, Tags, Steps, Flag, Stranded, ExitDirty, files, ghosts, At, Go, Begin,
           Exit, NoCommand, NoRecord, KnowsActive, RunsOnly
  <2>2. StepsOfCommands'
    BY <1>20, <1>1, <1>2
       DEF StepsOfCommands, DeploymentTypes, Stranded, ExitDirty, files, ghosts, At, Go, Begin,
           Exit, NoCommand, NoRecord, KnowsActive, RunsOnly
  <2>3. FilesOfCommands'
    BY <1>20, <1>1, <1>2
       DEF FilesOfCommands, DeploymentTypes, Tags, StepsOfCommands, Stranded, ExitDirty, files,
           ghosts, At, Go, Begin, Exit, NoCommand, NoRecord, KnowsActive, RunsOnly
  <2>4. MigratedInTime'
    BY <1>20, <1>1, <1>2
       DEF MigratedInTime, DeploymentTypes, Tags, StepsOfCommands, FilesOfCommands, Stranded,
           ExitDirty, files, ghosts, At, Go, Begin, Exit, NoCommand, NoRecord, KnowsActive, RunsOnly
  <2>5. SuccessIsKept'
    BY <1>20, <1>1, <1>2
       DEF SuccessIsKept, DeploymentTypes, StepsOfCommands, FilesOfCommands, Stranded, ExitDirty,
           files, ghosts, At, Go, Begin, Exit, NoCommand, NoRecord, KnowsActive, RunsOnly
  <2>6. CandidatesOfUpgrade'
    BY <1>20, <1>1, <1>2
       DEF CandidatesOfUpgrade, DeploymentTypes, StepsOfCommands, FilesOfCommands, Stranded,
           ExitDirty, files, ghosts, At, Go, Begin, Exit, NoCommand, NoRecord, KnowsActive, RunsOnly
  <2>7. TwoReleases'
    BY <1>20, <1>1, <1>2
       DEF TwoReleases, DeploymentTypes, Tags, StepsOfCommands, FilesOfCommands, Stranded,
           ExitDirty, files, ghosts, At, Go, Begin, Exit, NoCommand, NoRecord, KnowsActive, RunsOnly
  <2> QED
    BY <2>1, <2>2, <2>3, <2>4, <2>5, <2>6, <2>7 DEF DeploymentInv
<1>21. ASSUME RecordEnv PROVE DeploymentInv'
  <2>1. DeploymentTypes'
    BY <1>21, <1>1, <1>2
       DEF DeploymentTypes, Tags, Steps, Flag, RecordEnv, files, ghosts, At, Go, Begin, Exit,
           NoCommand, NoRecord, KnowsActive, RunsOnly
  <2>2. StepsOfCommands'
    BY <1>21, <1>1, <1>2
       DEF StepsOfCommands, DeploymentTypes, RecordEnv, files, ghosts, At, Go, Begin, Exit,
           NoCommand, NoRecord, KnowsActive, RunsOnly
  <2>3. FilesOfCommands'
    BY <1>21, <1>1, <1>2
       DEF FilesOfCommands, DeploymentTypes, Tags, StepsOfCommands, RecordEnv, files, ghosts, At,
           Go, Begin, Exit, NoCommand, NoRecord, KnowsActive, RunsOnly
  <2>4. MigratedInTime'
    BY <1>21, <1>1, <1>2
       DEF MigratedInTime, DeploymentTypes, Tags, StepsOfCommands, FilesOfCommands, RecordEnv,
           files, ghosts, At, Go, Begin, Exit, NoCommand, NoRecord, KnowsActive, RunsOnly
  <2>5. SuccessIsKept'
    BY <1>21, <1>1, <1>2
       DEF SuccessIsKept, DeploymentTypes, StepsOfCommands, FilesOfCommands, RecordEnv, files,
           ghosts, At, Go, Begin, Exit, NoCommand, NoRecord, KnowsActive, RunsOnly
  <2>6. CandidatesOfUpgrade'
    BY <1>21, <1>1, <1>2
       DEF CandidatesOfUpgrade, DeploymentTypes, StepsOfCommands, FilesOfCommands, RecordEnv, files,
           ghosts, At, Go, Begin, Exit, NoCommand, NoRecord, KnowsActive, RunsOnly
  <2>7. TwoReleases'
    BY <1>21, <1>1, <1>2
       DEF TwoReleases, DeploymentTypes, Tags, StepsOfCommands, FilesOfCommands, RecordEnv, files,
           ghosts, At, Go, Begin, Exit, NoCommand, NoRecord, KnowsActive, RunsOnly
  <2> QED
    BY <2>1, <2>2, <2>3, <2>4, <2>5, <2>6, <2>7 DEF DeploymentInv
<1>22. ASSUME RecordState PROVE DeploymentInv'
  <2>1. DeploymentTypes'
    BY <1>22, <1>1, <1>2
       DEF DeploymentTypes, Tags, Steps, Flag, RecordState, files, ghosts, At, Go, Begin, Exit,
           NoCommand, NoRecord, KnowsActive, RunsOnly
  <2>2. StepsOfCommands'
    BY <1>22, <1>1, <1>2
       DEF StepsOfCommands, DeploymentTypes, RecordState, files, ghosts, At, Go, Begin, Exit,
           NoCommand, NoRecord, KnowsActive, RunsOnly
  <2>3. FilesOfCommands'
    BY <1>22, <1>1, <1>2
       DEF FilesOfCommands, DeploymentTypes, Tags, StepsOfCommands, RecordState, files, ghosts, At,
           Go, Begin, Exit, NoCommand, NoRecord, KnowsActive, RunsOnly
  <2>4. MigratedInTime'
    BY <1>22, <1>1, <1>2
       DEF MigratedInTime, DeploymentTypes, Tags, StepsOfCommands, FilesOfCommands, RecordState,
           files, ghosts, At, Go, Begin, Exit, NoCommand, NoRecord, KnowsActive, RunsOnly
  <2>5. SuccessIsKept'
    BY <1>22, <1>1, <1>2
       DEF SuccessIsKept, DeploymentTypes, StepsOfCommands, FilesOfCommands, RecordState, files,
           ghosts, At, Go, Begin, Exit, NoCommand, NoRecord, KnowsActive, RunsOnly
  <2>6. CandidatesOfUpgrade'
    BY <1>22, <1>1, <1>2
       DEF CandidatesOfUpgrade, DeploymentTypes, StepsOfCommands, FilesOfCommands, RecordState,
           files, ghosts, At, Go, Begin, Exit, NoCommand, NoRecord, KnowsActive, RunsOnly
  <2>7. TwoReleases'
    BY <1>22, <1>1, <1>2
       DEF TwoReleases, DeploymentTypes, Tags, StepsOfCommands, FilesOfCommands, RecordState, files,
           ghosts, At, Go, Begin, Exit, NoCommand, NoRecord, KnowsActive, RunsOnly
  <2> QED
    BY <2>1, <2>2, <2>3, <2>4, <2>5, <2>6, <2>7 DEF DeploymentInv
<1>23. ASSUME rememberActiveRelease PROVE DeploymentInv'
  <2>1. DeploymentTypes'
    BY <1>23, <1>1, <1>2
       DEF DeploymentTypes, Tags, Steps, Flag, rememberActiveRelease, Previous, files, ghosts, At,
           Go, Begin, Exit, NoCommand, NoRecord, KnowsActive, RunsOnly
  <2>2. StepsOfCommands'
    BY <1>23, <1>1, <1>2
       DEF StepsOfCommands, DeploymentTypes, rememberActiveRelease, Previous, files, ghosts, At, Go,
           Begin, Exit, NoCommand, NoRecord, KnowsActive, RunsOnly
  <2>3. FilesOfCommands'
    BY <1>23, <1>1, <1>2
       DEF FilesOfCommands, DeploymentTypes, Tags, StepsOfCommands, rememberActiveRelease, Previous,
           files, ghosts, At, Go, Begin, Exit, NoCommand, NoRecord, KnowsActive, RunsOnly
  <2>4. MigratedInTime'
    BY <1>23, <1>1, <1>2
       DEF MigratedInTime, DeploymentTypes, Tags, StepsOfCommands, FilesOfCommands,
           rememberActiveRelease, Previous, files, ghosts, At, Go, Begin, Exit, NoCommand, NoRecord,
           KnowsActive, RunsOnly
  <2>5. SuccessIsKept'
    BY <1>23, <1>1, <1>2
       DEF SuccessIsKept, DeploymentTypes, StepsOfCommands, FilesOfCommands, rememberActiveRelease,
           Previous, files, ghosts, At, Go, Begin, Exit, NoCommand, NoRecord, KnowsActive, RunsOnly
  <2>6. CandidatesOfUpgrade'
    BY <1>23, <1>1, <1>2
       DEF CandidatesOfUpgrade, DeploymentTypes, StepsOfCommands, FilesOfCommands,
           rememberActiveRelease, Previous, files, ghosts, At, Go, Begin, Exit, NoCommand, NoRecord,
           KnowsActive, RunsOnly
  <2>7. TwoReleases'
    BY <1>23, <1>1, <1>2
       DEF TwoReleases, DeploymentTypes, Tags, StepsOfCommands, FilesOfCommands,
           rememberActiveRelease, Previous, files, ghosts, At, Go, Begin, Exit, NoCommand, NoRecord,
           KnowsActive, RunsOnly
  <2> QED
    BY <2>1, <2>2, <2>3, <2>4, <2>5, <2>6, <2>7 DEF DeploymentInv
<1>24. ASSUME RecordFails PROVE DeploymentInv'
  <2>1. DeploymentTypes'
    BY <1>24, <1>1, <1>2
       DEF DeploymentTypes, Tags, Steps, Flag, RecordFails, ExitDirty, files, ghosts, At, Go, Begin,
           Exit, NoCommand, NoRecord, KnowsActive, RunsOnly
  <2>2. StepsOfCommands'
    BY <1>24, <1>1, <1>2
       DEF StepsOfCommands, DeploymentTypes, RecordFails, ExitDirty, files, ghosts, At, Go, Begin,
           Exit, NoCommand, NoRecord, KnowsActive, RunsOnly
  <2>3. FilesOfCommands'
    BY <1>24, <1>1, <1>2
       DEF FilesOfCommands, DeploymentTypes, Tags, StepsOfCommands, RecordFails, ExitDirty, files,
           ghosts, At, Go, Begin, Exit, NoCommand, NoRecord, KnowsActive, RunsOnly
  <2>4. MigratedInTime'
    BY <1>24, <1>1, <1>2
       DEF MigratedInTime, DeploymentTypes, Tags, StepsOfCommands, FilesOfCommands, RecordFails,
           ExitDirty, files, ghosts, At, Go, Begin, Exit, NoCommand, NoRecord, KnowsActive, RunsOnly
  <2>5. SuccessIsKept'
    BY <1>24, <1>1, <1>2
       DEF SuccessIsKept, DeploymentTypes, StepsOfCommands, FilesOfCommands, RecordFails, ExitDirty,
           files, ghosts, At, Go, Begin, Exit, NoCommand, NoRecord, KnowsActive, RunsOnly
  <2>6. CandidatesOfUpgrade'
    BY <1>24, <1>1, <1>2
       DEF CandidatesOfUpgrade, DeploymentTypes, StepsOfCommands, FilesOfCommands, RecordFails,
           ExitDirty, files, ghosts, At, Go, Begin, Exit, NoCommand, NoRecord, KnowsActive, RunsOnly
  <2>7. TwoReleases'
    BY <1>24, <1>1, <1>2
       DEF TwoReleases, DeploymentTypes, Tags, StepsOfCommands, FilesOfCommands, RecordFails,
           ExitDirty, files, ghosts, At, Go, Begin, Exit, NoCommand, NoRecord, KnowsActive, RunsOnly
  <2> QED
    BY <2>1, <2>2, <2>3, <2>4, <2>5, <2>6, <2>7 DEF DeploymentInv
<1>25. ASSUME NEW volumes \in BOOLEAN, Down(volumes) PROVE DeploymentInv'
  <2>1. DeploymentTypes'
    BY <1>25, <1>1, <1>2
       DEF DeploymentTypes, Tags, Steps, Flag, Down, files, ghosts, At, Go, Begin, Exit, NoCommand,
           NoRecord, KnowsActive, RunsOnly
  <2>2. StepsOfCommands'
    BY <1>25, <1>1, <1>2
       DEF StepsOfCommands, DeploymentTypes, Down, files, ghosts, At, Go, Begin, Exit, NoCommand,
           NoRecord, KnowsActive, RunsOnly
  <2>3. FilesOfCommands'
    BY <1>25, <1>1, <1>2
       DEF FilesOfCommands, DeploymentTypes, Tags, StepsOfCommands, Down, files, ghosts, At, Go,
           Begin, Exit, NoCommand, NoRecord, KnowsActive, RunsOnly
  <2>4. MigratedInTime'
    BY <1>25, <1>1, <1>2
       DEF MigratedInTime, DeploymentTypes, Tags, StepsOfCommands, FilesOfCommands, Down, files,
           ghosts, At, Go, Begin, Exit, NoCommand, NoRecord, KnowsActive, RunsOnly
  <2>5. SuccessIsKept'
    BY <1>25, <1>1, <1>2
       DEF SuccessIsKept, DeploymentTypes, StepsOfCommands, FilesOfCommands, Down, files, ghosts,
           At, Go, Begin, Exit, NoCommand, NoRecord, KnowsActive, RunsOnly
  <2>6. CandidatesOfUpgrade'
    BY <1>25, <1>1, <1>2
       DEF CandidatesOfUpgrade, DeploymentTypes, StepsOfCommands, FilesOfCommands, Down, files,
           ghosts, At, Go, Begin, Exit, NoCommand, NoRecord, KnowsActive, RunsOnly
  <2>7. TwoReleases'
    BY <1>25, <1>1, <1>2
       DEF TwoReleases, DeploymentTypes, Tags, StepsOfCommands, FilesOfCommands, Down, files,
           ghosts, At, Go, Begin, Exit, NoCommand, NoRecord, KnowsActive, RunsOnly
  <2> QED
    BY <2>1, <2>2, <2>3, <2>4, <2>5, <2>6, <2>7 DEF DeploymentInv
<1>26. ASSUME Interrupt PROVE DeploymentInv'
  <2>1. DeploymentTypes'
    BY <1>26, <1>1, <1>2
       DEF DeploymentTypes, Tags, Steps, Flag, Interrupt, files, ghosts, At, Go, Begin, Exit,
           NoCommand, NoRecord, KnowsActive, RunsOnly
  <2>2. StepsOfCommands'
    BY <1>26, <1>1, <1>2
       DEF StepsOfCommands, DeploymentTypes, Interrupt, files, ghosts, At, Go, Begin, Exit,
           NoCommand, NoRecord, KnowsActive, RunsOnly
  <2>3. FilesOfCommands'
    BY <1>26, <1>1, <1>2
       DEF FilesOfCommands, DeploymentTypes, Tags, StepsOfCommands, Interrupt, files, ghosts, At,
           Go, Begin, Exit, NoCommand, NoRecord, KnowsActive, RunsOnly
  <2>4. MigratedInTime'
    BY <1>26, <1>1, <1>2
       DEF MigratedInTime, DeploymentTypes, Tags, StepsOfCommands, FilesOfCommands, Interrupt,
           files, ghosts, At, Go, Begin, Exit, NoCommand, NoRecord, KnowsActive, RunsOnly
  <2>5. SuccessIsKept'
    BY <1>26, <1>1, <1>2
       DEF SuccessIsKept, DeploymentTypes, StepsOfCommands, FilesOfCommands, Interrupt, files,
           ghosts, At, Go, Begin, Exit, NoCommand, NoRecord, KnowsActive, RunsOnly
  <2>6. CandidatesOfUpgrade'
    BY <1>26, <1>1, <1>2
       DEF CandidatesOfUpgrade, DeploymentTypes, StepsOfCommands, FilesOfCommands, Interrupt, files,
           ghosts, At, Go, Begin, Exit, NoCommand, NoRecord, KnowsActive, RunsOnly
  <2>7. TwoReleases'
    BY <1>26, <1>1, <1>2
       DEF TwoReleases, DeploymentTypes, Tags, StepsOfCommands, FilesOfCommands, Interrupt, files,
           ghosts, At, Go, Begin, Exit, NoCommand, NoRecord, KnowsActive, RunsOnly
  <2> QED
    BY <2>1, <2>2, <2>3, <2>4, <2>5, <2>6, <2>7 DEF DeploymentInv
<1>27. CASE UNCHANGED deploymentVars
  BY <1>27, <1>1
     DEF deploymentVars, DeploymentInv, DeploymentTypes, StepsOfCommands, FilesOfCommands,
       MigratedInTime, SuccessIsKept, CandidatesOfUpgrade, TwoReleases, At, RunsOnly
<1> QED
  BY <1>3, <1>4, <1>5, <1>6, <1>7, <1>8, <1>9, <1>10, <1>11, <1>12, <1>13, <1>14, <1>15, <1>16, <1>17, <1>18, <1>19, <1>20, <1>21, <1>22, <1>23, <1>24, <1>25, <1>26, <1>27
     DEF DeploymentNext

(* What the invariant is for.                                                 *)
LEMMA DeploymentInvSuffices == DeploymentInv => DeploymentIsSound
<1> SUFFICES ASSUME DeploymentInv PROVE DeploymentIsSound
  OBVIOUS
<1>1. DeploymentTypeOK
  BY DEF DeploymentInv, DeploymentTypes, DeploymentTypeOK
<1>2. MigratedBeforeServing /\ RollbackServed
  BY DEF DeploymentInv, MigratedInTime, TwoReleases, MigratedBeforeServing, RollbackServed
<1>3. FilesTellTheTruth /\ NoStrayCandidates
  BY DEF DeploymentInv, SuccessIsKept, CandidatesOfUpgrade, FilesTellTheTruth, NoStrayCandidates, At
<1> QED
  BY <1>1, <1>2, <1>3 DEF DeploymentIsSound

(* For every set of releases and services, and wherever Docker refuses or the *)
(* operator interrupts: no service runs a release whose migrations are        *)
(* missing, the previous release on record has served, and the files name     *)
(* what runs after a success (commands.ts: runSetup, runUp, runUpgrade,       *)
(* runRollback, runDown).                                                     *)
THEOREM DeploymentProved == DeploymentSpec => []DeploymentIsSound
<1>1. DeploymentInit => DeploymentInv
  BY DeploymentAssumption
     DEF DeploymentInit, DeploymentInv, DeploymentTypes, StepsOfCommands, FilesOfCommands,
         MigratedInTime, SuccessIsKept, CandidatesOfUpgrade, TwoReleases, At, RunsOnly,
         NoCommand, NoRecord, Tags, Steps, Flag
<1> QED
  BY <1>1, DeploymentStep, DeploymentInvSuffices, PTL DEF DeploymentSpec

-----------------------------------------------------------------------------
(* The watch over silent runs *)

\* A step that tells nobody anything, and after which no subject is newly unborn, keeps
\* one teller per subject.
LEMMA QuietTelling ==
    ASSUME NoticesInv, NoticeShapes', UNCHANGED <<series, messages>>,
           \A p \in Producers : job'[p].phase \in {"eligible", "send"} => job'[p] = job[p],
           \A s \in Subjects \ {MaxEpisodes} : Unborn(s)' => Unborn(s)
    PROVE  \A s \in Subjects \ {MaxEpisodes} : OneTeller(s)'
<1> SUFFICES ASSUME NEW s \in Subjects \ {MaxEpisodes} PROVE OneTeller(s)'
  OBVIOUS
<1>0. OneTeller(s)
  BY DEF NoticesInv
<1>1. \A p \in Producers : Tells(p, s)' => Tells(p, s) /\ job'[p] = job[p]
  BY DEF Tells
<1>2. \A p, q \in Producers : Tells(p, s)' /\ Tells(q, s)' => p = q
  BY <1>0, <1>1 DEF OneTeller
<1>3. \A p \in Producers : Tells(p, s)' =>
        IF job'[p].phase = "eligible" THEN series'[s] = 0 ELSE series'[s] = 1 /\ messages'[s] <= job'[p].tries
  BY <1>0, <1>1 DEF OneTeller
<1>4. series'[s] <= 1 /\ messages'[s] <= MaxAttempts * series'[s]
  BY <1>0 DEF OneTeller
<1>5. Unborn(s)' => series'[s] = 0 /\ \A p \in Producers : ~Tells(p, s)'
  BY <1>0, <1>1 DEF OneTeller
<1> QED
  BY <1>2, <1>3, <1>4, <1>5 DEF OneTeller

\* What the steps need of the state.
LEMMA NoticeFacts ==
    ASSUME NoticesInv
    PROVE  /\ RowShapes /\ WorkShapes /\ NoticeShapes /\ ClaimsAreOfTheEnd
           /\ Threshold \in Nat /\ LeaseTtl \in Nat \ {0} /\ MaxAttempts \in Nat \ {0}
           /\ MaxEpisodes \in Nat \ {0}
           /\ \A p \in Producers : job[p] \in Works
           /\ \A s \in Subjects : s \in 0 .. MaxEpisodes
           /\ Idle \in Works /\ Idle.phase = "idle"
           /\ "executor" \in Producers /\ \A w \in Dogs : w \in Producers
<1>1. Idle \in Works /\ Idle.phase = "idle"
  BY NoticesAssumption DEF Idle, Works, Subjects, End
<1> QED
  BY <1>1, NoticesAssumption DEF NoticesInv, NoticeShapes, Subjects, Producers

\* A step that leaves the producers' business alone.
LEMMA RunKeeps ==
    ASSUME NoticesInv, RowShapes', WorkShapes', UNCHANGED <<status, stalled, notified, notice>>
    PROVE  NoticesInv'
<1>1. UNCHANGED <<job, episode, series, messages>>
  BY DEF notice
<1>2. NoticeShapes' /\ ClaimsAreOfTheEnd'
  BY <1>1 DEF NoticesInv, NoticeShapes, ClaimsAreOfTheEnd
<1>3. \A s \in Subjects \ {MaxEpisodes} : Unborn(s)' => Unborn(s)
  BY <1>1 DEF Unborn
<1>4. \A s \in Subjects \ {MaxEpisodes} : OneTeller(s)'
  BY <1>1, <1>2, <1>3, QuietTelling
<1> QED
  BY <1>2, <1>4 DEF NoticesInv

\* Ages saturate just past the limit.
LEMMA OlderFits ==
    ASSUME NEW limit \in Nat, NEW age \in 0 .. limit + 1
    PROVE  Older(age, limit) \in 0 .. limit + 1 /\ age <= Older(age, limit)
BY DEF Older

LEMMA WorkerKeeps ==
    ASSUME NoticesInv, Emit \/ Hang \/ Snapshot \/ LoseLease \/ Die \/ RequestStop \/ Tick
    PROVE  NoticesInv'
<1> USE NoticeFacts
<1>1. CASE Emit
  <2>1. UNCHANGED <<runRow, worker, hung, beat, notice>> /\ eventAge' = 0 /\ covered' = FALSE /\ reported' = FALSE
    BY <1>1 DEF Emit
  <2>2. tracker' \in [progressed : BOOLEAN, step : RUN_STEP_KINDS]
    <3>1. PICK kind \in RUN_STEP_KINDS : note(kind)
      BY <1>1 DEF Emit
    <3>2. CASE WorkNotes
      BY <3>1, <3>2 DEF note
    <3>3. CASE ~WorkNotes
      BY <3>1, <3>3 DEF note, WorkShapes
    <3> QED
      BY <3>2, <3>3
  <2>3. WorkShapes'
    <3>0. Threshold \in Nat
      OBVIOUS
    <3>1. eventAge' \in 0 .. Threshold + 1
      BY ONLY <2>1, <3>0
    <3>3. covered' \in BOOLEAN /\ reported' \in BOOLEAN
      BY ONLY <2>1
    <3>2. hung \in BOOLEAN /\ worker \in {"up", "beating", "gone"} /\ beat \in Beats
          /\ (worker = "beating" => beat.step # "none")
      BY DEF WorkShapes
    <3> QED
      BY <2>1, <2>2, <3>1, <3>2, <3>3 DEF WorkShapes
  <2> QED
    BY <2>1, <2>3, RunKeeps DEF runRow, RowShapes
<1>2. CASE Hang
  <2>1. UNCHANGED <<runRow, worker, tracker, beat, eventAge, covered, reported, notice>> /\ hung' = TRUE
    BY <1>2 DEF Hang
  <2> QED
    BY <2>1, RunKeeps DEF runRow, RowShapes, WorkShapes
<1>3. CASE Snapshot
  <2>1. /\ UNCHANGED <<runRow, hung, eventAge, reported, notice>> /\ worker' = "beating" /\ covered' = TRUE
        /\ beat' = [progressed |-> tracker.progressed, step |-> tracker.step, idle |-> eventAge]
        /\ tracker' = [tracker EXCEPT !.progressed = FALSE]
    BY <1>3 DEF Snapshot
  <2>2. /\ tracker \in [progressed : BOOLEAN, step : RUN_STEP_KINDS] /\ eventAge \in 0 .. Threshold + 1
        /\ "none" \notin RUN_STEP_KINDS
    BY DEF WorkShapes, RUN_STEP_KINDS
  <2>3. tracker' \in [progressed : BOOLEAN, step : RUN_STEP_KINDS]
    BY <2>1, <2>2
  <2>4. beat' \in Beats /\ beat'.step # "none"
    BY <2>1, <2>2 DEF Beats
  <2>5. WorkShapes'
    BY <2>1, <2>3, <2>4 DEF WorkShapes
  <2> QED
    BY <2>1, <2>5, RunKeeps DEF runRow, RowShapes
<1>4. CASE LoseLease \/ Die
  <2>1. UNCHANGED <<runRow, hung, eventAge, covered, reported, notice>> /\ Gone
    BY <1>4 DEF LoseLease, Die
  <2>2. WorkShapes'
    <3>1. beat' \in Beats
      BY <2>1 DEF Gone, NoBeat, Beats
    <3>2. tracker' \in [progressed : BOOLEAN, step : RUN_STEP_KINDS] /\ worker' = "gone"
      BY <2>1 DEF Gone, RUN_STEP_KINDS
    <3> QED
      BY <2>1, <3>1, <3>2 DEF WorkShapes
  <2> QED
    BY <2>1, <2>2, RunKeeps DEF runRow, RowShapes
<1>5. CASE RequestStop
  <2>1. UNCHANGED <<status, leaseLeft, progressAge, step, stalled, notified, work, notice>> /\ stop' = TRUE
    BY <1>5 DEF RequestStop
  <2> QED
    BY <2>1, RunKeeps DEF work, RowShapes, WorkShapes
<1>6. CASE Tick
  <2>1. /\ UNCHANGED <<status, step, stalled, stop, notified, worker, hung, tracker, beat, covered, reported, notice>>
        /\ leaseLeft' = (IF leaseLeft = 0 THEN 0 ELSE leaseLeft - 1)
        /\ progressAge' = Older(progressAge, Threshold) /\ eventAge' = Older(eventAge, Threshold)
    BY <1>6 DEF Tick
  <2>2. progressAge' \in 0 .. Threshold + 1 /\ eventAge' \in 0 .. Threshold + 1
    BY <2>1, OlderFits DEF RowShapes, WorkShapes
  <2>3. leaseLeft' \in 0 .. LeaseTtl
    BY <2>1 DEF RowShapes
  <2> QED
    BY <2>1, <2>2, <2>3, RunKeeps DEF RowShapes, WorkShapes
<1> QED
  BY <1>1, <1>2, <1>3, <1>4, <1>5, <1>6

\* The beat's one statement: the mark goes with the progress, and the next stall is a new
\* episode.
LEMMA HeartbeatKeeps ==
    ASSUME NoticesInv, Heartbeat
    PROVE  NoticesInv'
<1> USE NoticeFacts
<1>1. /\ status = "running" /\ leaseLeft' = LeaseTtl /\ step' = beat.step /\ worker = "beating" /\ worker' = "up"
      /\ reported' = (reported \/ covered) /\ beat' = NoBeat
      /\ UNCHANGED <<status, stop, notified, hung, tracker, eventAge, covered, job, series, messages>>
  BY DEF Heartbeat
<1>2. beat \in Beats /\ beat.step \in RUN_STEP_KINDS /\ beat.idle \in 0 .. Threshold + 1
  BY <1>1 DEF WorkShapes, Beats
<1>3. \/ beat.progressed /\ progressAge' = beat.idle /\ stalled' = FALSE
         /\ episode' = (IF stalled /\ episode < MaxEpisodes THEN episode + 1 ELSE episode)
      \/ UNCHANGED <<progressAge, stalled, episode>>
  BY DEF Heartbeat
<1>4. RowShapes'
  <2>0. progressAge \in 0 .. Threshold + 1 /\ LeaseTtl \in Nat
    BY DEF RowShapes
  <2>1. progressAge' \in 0 .. Threshold + 1 /\ leaseLeft' \in 0 .. LeaseTtl
    BY ONLY <1>1, <1>2, <1>3, <2>0
  <2>3. stalled \in BOOLEAN
    BY DEF RowShapes
  <2>4. stalled' \in BOOLEAN
    BY ONLY <1>3, <2>3
  <2>2. step' \in RUN_STEP_KINDS /\ step' # "none"
    BY <1>1, <1>2 DEF RUN_STEP_KINDS
  <2> QED
    BY <1>1, <2>1, <2>2, <2>4 DEF RowShapes
<1>5. WorkShapes'
  <2>1. beat' \in Beats
    BY <1>1 DEF NoBeat, Beats
  <2>2. reported' \in BOOLEAN
    BY <1>1
  <2> QED
    BY <1>1, <2>1, <2>2 DEF WorkShapes
<1>6. NoticeShapes' /\ ClaimsAreOfTheEnd'
  <2>1. episode' \in 1 .. MaxEpisodes
    BY <1>3 DEF NoticeShapes
  <2> QED
    BY <1>1, <2>1 DEF NoticeShapes, ClaimsAreOfTheEnd
<1>7. ASSUME NEW s \in Subjects \ {MaxEpisodes}, Unborn(s)' PROVE Unborn(s)
  <2>1. CASE s = End
    BY <1>1, <1>7, <2>1 DEF Unborn
  <2>2. CASE s # End
    <3>1. s > episode' \/ (s = episode' /\ ~stalled')
      BY <1>7, <2>2 DEF Unborn
    <3>2. s \in 0 .. MaxEpisodes /\ s # MaxEpisodes /\ episode \in 1 .. MaxEpisodes
      BY DEF NoticeShapes
    <3>3. s > episode \/ (s = episode /\ ~stalled)
      BY <1>3, <3>1, <3>2
    <3> QED
      BY <1>1, <2>2, <3>3 DEF Unborn
  <2> QED
    BY <2>1, <2>2
<1>8. \A s \in Subjects \ {MaxEpisodes} : OneTeller(s)'
  BY <1>1, <1>6, <1>7, QuietTelling
<1> QED
  BY <1>4, <1>5, <1>6, <1>8 DEF NoticesInv

\* A run that ends is told about by its executor, once it has claimed the notice.
LEMMA SettleKeeps ==
    ASSUME NoticesInv, Settle
    PROVE  NoticesInv'
<1> USE NoticeFacts
<1>1. /\ status = "running" /\ status' \in {"completed", "failed", "cancelled"} /\ step' = "none"
      /\ stalled' = FALSE /\ leaseLeft' = 0 /\ Gone
      /\ UNCHANGED <<progressAge, stop, notified, hung, eventAge, covered, reported, episode, series, messages>>
  BY DEF Settle
<1> DEFINE j == [job["executor"] EXCEPT !.phase = "claim", !.about = End]
<1>2. job["executor"] \in Works /\ End \in Subjects
  BY DEF End, Subjects
<1>3. j \in Works /\ j.phase = "claim" /\ j.about = End
  BY ONLY <1>2 DEF j, Works
<1>4. job' = [job EXCEPT !["executor"] = j]
  BY DEF Settle
<1> HIDE DEF j
<1>5. job \in [Producers -> Works]
  BY DEF NoticeShapes
<1>6. \A p \in Producers : job'[p] = IF p = "executor" THEN j ELSE job[p]
  BY <1>4, <1>5
<1>7. RowShapes'
  <2>1. leaseLeft' \in 0 .. LeaseTtl
    BY <1>1
  <2>2. stalled' \in BOOLEAN /\ step' \in RUN_STEP_KINDS \cup {"none"}
    BY ONLY <1>1
  <2>3. status' \in {"running", "completed", "failed", "cancelled"} /\ status' # "running" /\ step' = "none"
    BY ONLY <1>1
  <2> QED
    BY <1>1, <2>1, <2>2, <2>3 DEF RowShapes
<1>8. WorkShapes'
  <2>1. beat' \in Beats
    BY <1>1 DEF Gone, NoBeat, Beats
  <2>2. tracker' \in [progressed : BOOLEAN, step : RUN_STEP_KINDS] /\ worker' = "gone"
    BY <1>1 DEF Gone, RUN_STEP_KINDS
  <2> QED
    BY <1>1, <2>1, <2>2 DEF WorkShapes
<1>9. NoticeShapes'
  <2>1. job' \in [Producers -> Works]
    BY <1>3, <1>4, <1>5
  <2> QED
    BY <1>1, <2>1 DEF NoticeShapes
<1>10. ClaimsAreOfTheEnd'
  BY <1>1, <1>3, <1>6 DEF ClaimsAreOfTheEnd
<1>11. \A s \in Subjects \ {MaxEpisodes} : Unborn(s)' => Unborn(s)
  BY <1>1 DEF Unborn
<1>12. \A p \in Producers : job'[p].phase \in {"eligible", "send"} => job'[p] = job[p]
  BY <1>3, <1>6
<1>13. \A s \in Subjects \ {MaxEpisodes} : OneTeller(s)'
  BY <1>1, <1>9, <1>11, <1>12, QuietTelling
<1> QED
  BY <1>7, <1>8, <1>9, <1>10, <1>13 DEF NoticesInv

\* A producer goes on to a step in which it tells nothing, or gives up.
LEMMA ProducerKeeps ==
    ASSUME NoticesInv, NEW p \in Producers, NEW j \in Works, job' = [job EXCEPT ![p] = j],
           j.phase \notin {"eligible", "send"}, j.phase \in {"reclaim", "claim"} => j.about = End,
           RowShapes', UNCHANGED <<work, notified, episode, series, messages>>,
           status' = status \/ status' \in {"completed", "failed"},
           status' = status => stalled' = stalled
    PROVE  NoticesInv'
<1> USE NoticeFacts
<1>1. job \in [Producers -> Works]
  BY DEF NoticeShapes
<1>2. \A q \in Producers : job'[q] = IF q = p THEN j ELSE job[q]
  BY <1>1
<1>3. WorkShapes'
  BY DEF WorkShapes, work
<1>4. NoticeShapes'
  <2>1. job' \in [Producers -> Works]
    BY <1>1
  <2> QED
    BY <2>1 DEF NoticeShapes
<1>5. ClaimsAreOfTheEnd'
  BY <1>2 DEF ClaimsAreOfTheEnd
<1>6. \A s \in Subjects \ {MaxEpisodes} : Unborn(s)' => Unborn(s)
  BY DEF Unborn
<1>7. \A q \in Producers : job'[q].phase \in {"eligible", "send"} => job'[q] = job[q]
  BY <1>2
<1>8. \A s \in Subjects \ {MaxEpisodes} : OneTeller(s)'
  BY <1>4, <1>6, <1>7, QuietTelling
<1> QED
  BY <1>3, <1>4, <1>5, <1>8 DEF NoticesInv

\* The watchdog's steps but the mark itself.
LEMMA WatchKeeps ==
    ASSUME NoticesInv, NEW w \in Dogs, Scan(w) \/ TimeOutRun(w) \/ (MarkStalled(w) /\ ~Stalls)
    PROVE  NoticesInv'
<1> USE NoticeFacts
<1>1. w \in Producers /\ job[w] \in Works /\ End \in Subjects /\ episode \in Subjects
  BY DEF End, Subjects, NoticeShapes
<1>2. CASE Scan(w)
  <2>0. UNCHANGED <<runRow, work, episode, series, messages>>
    BY <1>2 DEF Scan
  <2>1. RowShapes'
    BY <2>0 DEF runRow, RowShapes
  <2>2. CASE job' = [job EXCEPT ![w] = [@ EXCEPT !.phase = "mark", !.about = episode]]
    <3> DEFINE j == [job[w] EXCEPT !.phase = "mark", !.about = episode]
    <3>1. j \in Works /\ j.phase = "mark"
      BY ONLY <1>1 DEF j, Works
    <3>2. job' = [job EXCEPT ![w] = j]
      BY <2>2
    <3> HIDE DEF j
    <3> QED
      BY <1>1, <2>0, <2>1, <3>1, <3>2, ProducerKeeps DEF runRow
  <2>3. CASE job' = [job EXCEPT ![w] = [@ EXCEPT !.phase = "reclaim", !.about = End]]
    <3> DEFINE j == [job[w] EXCEPT !.phase = "reclaim", !.about = End]
    <3>1. j \in Works /\ j.phase = "reclaim" /\ j.about = End
      BY ONLY <1>1 DEF j, Works
    <3>2. job' = [job EXCEPT ![w] = j]
      BY <2>3
    <3> HIDE DEF j
    <3> QED
      BY <1>1, <2>0, <2>1, <3>1, <3>2, ProducerKeeps DEF runRow
  <2> QED
    BY <1>2, <2>2, <2>3 DEF Scan
<1>3. CASE MarkStalled(w) /\ ~Stalls
  <2>1. /\ job' = [job EXCEPT ![w] = Idle] /\ UNCHANGED stalled
        /\ UNCHANGED <<status, leaseLeft, progressAge, step, stop, notified, work, episode, series, messages>>
    BY <1>3 DEF MarkStalled
  <2>2. RowShapes'
    BY <2>1 DEF RowShapes
  <2> QED
    BY <1>1, <2>1, <2>2, ProducerKeeps
<1>4. CASE TimeOutRun(w) /\ status = "running" /\ leaseLeft = 0
  <2>1. /\ job[w].phase = "reclaim" /\ status' = "failed" /\ step' = "none" /\ stalled' = FALSE
        /\ UNCHANGED <<leaseLeft, progressAge, stop, notified, work, episode, series, messages>>
        /\ job' = [job EXCEPT ![w] = [@ EXCEPT !.phase = "claim"]]
    BY <1>4 DEF TimeOutRun
  <2> DEFINE j == [job[w] EXCEPT !.phase = "claim"]
  <2>2. j \in Works /\ j.phase = "claim" /\ j.about = job[w].about
    BY ONLY <1>1 DEF j, Works
  <2>3. job' = [job EXCEPT ![w] = j]
    BY <2>1
  <2> HIDE DEF j
  <2>4. j.about = End
    BY <1>1, <2>1, <2>2 DEF ClaimsAreOfTheEnd
  <2>5. RowShapes'
    <3>1. stalled' \in BOOLEAN /\ step' \in RUN_STEP_KINDS \cup {"none"}
      BY ONLY <2>1
    <3> QED
      BY <2>1, <3>1 DEF RowShapes
  <2> QED
    BY <1>1, <1>4, <2>1, <2>2, <2>3, <2>4, <2>5, ProducerKeeps
<1>5. CASE TimeOutRun(w) /\ ~(status = "running" /\ leaseLeft = 0)
  <2>1. /\ job' = [job EXCEPT ![w] = Idle] /\ UNCHANGED <<status, step, stalled>>
        /\ UNCHANGED <<leaseLeft, progressAge, stop, notified, work, episode, series, messages>>
    BY <1>5 DEF TimeOutRun
  <2>2. RowShapes'
    BY <2>1 DEF RowShapes
  <2> QED
    BY <1>1, <2>1, <2>2, ProducerKeeps
<1> QED
  BY <1>2, <1>3, <1>4, <1>5

\* A producer gives up, or is not the one to tell.
LEMMA GiveUpKeeps ==
    ASSUME NoticesInv, NEW p \in Producers, job' = [job EXCEPT ![p] = Idle],
           UNCHANGED <<runRow, work, episode, series, messages>>
    PROVE  NoticesInv'
<1>1. RowShapes'
  BY DEF NoticesInv, runRow, RowShapes
<1> QED
  BY <1>1, NoticeFacts, ProducerKeeps DEF runRow

\* A step that makes a producer the only one to tell of a subject nobody has told of.
LEMMA NewTeller ==
    ASSUME NoticesInv, NEW p \in Producers, NEW t \in Subjects, NEW j \in Works,
           job' = [job EXCEPT ![p] = j], j.phase = "eligible", j.about = t,
           Unborn(t), UNCHANGED <<episode, status, series, messages>>,
           t = End => UNCHANGED stalled /\ notified',
           t # End => t = episode /\ UNCHANGED notified /\ stalled'
    PROVE  NoticeShapes' /\ \A s \in Subjects \ {MaxEpisodes} : OneTeller(s)'
<1> USE NoticeFacts
<1>1. job \in [Producers -> Works]
  BY DEF NoticeShapes
<1>2. \A q \in Producers : job'[q] = IF q = p THEN j ELSE job[q]
  BY <1>1
<1>3. NoticeShapes'
  <2>1. job' \in [Producers -> Works]
    BY <1>1
  <2> QED
    BY <2>1 DEF NoticeShapes
<1> SUFFICES ASSUME NEW s \in Subjects \ {MaxEpisodes} PROVE OneTeller(s)'
  BY <1>3
<1>4. OneTeller(s)
  BY DEF NoticesInv
<1>5. s \in Nat /\ episode \in Nat
  BY DEF Subjects, NoticeShapes
<1>6. CASE s = t
  <2>1. series[s] = 0 /\ \A q \in Producers : ~Tells(q, s)
    BY <1>4, <1>6 DEF OneTeller
  <2>2. \A q \in Producers : Tells(q, s)' => q = p
    BY <1>2, <2>1 DEF Tells
  <2>3. ~Unborn(s)'
    BY <1>5, <1>6 DEF Unborn
  <2>4. \A q \in Producers : Tells(q, s)' => job'[q].phase = "eligible"
    BY <1>2, <2>2
  <2>5. series'[s] = 0 /\ messages'[s] <= MaxAttempts * series'[s]
    BY <1>4, <2>1 DEF OneTeller
  <2> QED
    BY <2>1, <2>2, <2>3, <2>4, <2>5 DEF OneTeller
<1>7. CASE s # t
  <2>1. \A q \in Producers : Tells(q, s)' => Tells(q, s) /\ job'[q] = job[q]
    BY <1>2, <1>7 DEF Tells
  <2>2. Unborn(s)' => Unborn(s)
    BY <1>7 DEF Unborn
  <2>3. \A q, r \in Producers : Tells(q, s)' /\ Tells(r, s)' => q = r
    BY <1>4, <2>1 DEF OneTeller
  <2>4. \A q \in Producers : Tells(q, s)' =>
          IF job'[q].phase = "eligible" THEN series'[s] = 0 ELSE series'[s] = 1 /\ messages'[s] <= job'[q].tries
    BY <1>4, <2>1 DEF OneTeller
  <2>5. series'[s] <= 1 /\ messages'[s] <= MaxAttempts * series'[s]
    BY <1>4 DEF OneTeller
  <2>6. Unborn(s)' => series'[s] = 0 /\ \A q \in Producers : ~Tells(q, s)'
    BY <1>4, <2>1, <2>2 DEF OneTeller
  <2> QED
    BY <2>3, <2>4, <2>5, <2>6 DEF OneTeller
<1> QED
  BY <1>6, <1>7

\* The mark is set by one watchdog, and that watchdog tells of the episode.
LEMMA MarkKeeps ==
    ASSUME NoticesInv, NEW w \in Dogs, MarkStalled(w), Stalls
    PROVE  NoticesInv'
<1> USE NoticeFacts
<1>1. w \in Producers /\ job[w] \in Works /\ episode \in Subjects /\ episode # End
  BY DEF End, Subjects, NoticeShapes
<1>2. /\ stalled' = TRUE /\ job' = [job EXCEPT ![w] = [@ EXCEPT !.phase = "eligible", !.about = episode]]
      /\ UNCHANGED <<status, leaseLeft, progressAge, step, stop, notified, work, episode, series, messages>>
  BY DEF MarkStalled
<1> DEFINE j == [job[w] EXCEPT !.phase = "eligible", !.about = episode]
<1>3. j \in Works /\ j.phase = "eligible" /\ j.about = episode
  BY ONLY <1>1 DEF j, Works
<1>4. job' = [job EXCEPT ![w] = j]
  BY <1>2
<1> HIDE DEF j
<1>5. Unborn(episode) /\ status = "running" /\ ~stalled
  BY <1>1 DEF Unborn, Stalls
<1>6. NoticeShapes' /\ \A s \in Subjects \ {MaxEpisodes} : OneTeller(s)'
  BY <1>1, <1>2, <1>3, <1>4, <1>5, NewTeller
<1>7. RowShapes'
  <2>1. stalled' \in BOOLEAN
    BY ONLY <1>2
  <2> QED
    BY <1>2, <1>5, <2>1 DEF RowShapes
<1>8. WorkShapes'
  BY <1>2 DEF work, WorkShapes
<1>9. ClaimsAreOfTheEnd'
  <2>1. \A p \in Producers : job'[p] = job[p] \/ job'[p].phase = "eligible"
    BY <1>3, <1>4 DEF NoticeShapes
  <2> QED
    BY <1>2, <2>1 DEF ClaimsAreOfTheEnd
<1> QED
  BY <1>6, <1>7, <1>8, <1>9 DEF NoticesInv

\* The end of a run is claimed by one of those that know of it.
LEMMA ClaimKeeps ==
    ASSUME NoticesInv, NEW p \in Producers, Claim(p)
    PROVE  NoticesInv'
<1> USE NoticeFacts
<1>1. job[p] \in Works /\ End \in Subjects /\ job[p].phase = "claim"
  BY DEF End, Subjects, Claim
<1>2. UNCHANGED <<status, leaseLeft, progressAge, step, stalled, stop, work, episode, series, messages>>
  BY DEF Claim
<1>3. CASE status \in {"completed", "failed"} /\ ~notified
  <2>1. notified' = TRUE /\ job' = [job EXCEPT ![p].phase = "eligible"]
    BY <1>3 DEF Claim
  <2> DEFINE j == [job[p] EXCEPT !.phase = "eligible"]
  <2>2. j \in Works /\ j.phase = "eligible" /\ j.about = job[p].about
    BY ONLY <1>1 DEF j, Works
  <2>3. job' = [job EXCEPT ![p] = j]
    BY <2>1
  <2> HIDE DEF j
  <2>4. j.about = End /\ Unborn(End)
    BY <1>1, <1>3, <2>2 DEF ClaimsAreOfTheEnd, Unborn
  <2>5. NoticeShapes' /\ \A s \in Subjects \ {MaxEpisodes} : OneTeller(s)'
    BY <1>1, <1>2, <2>1, <2>2, <2>3, <2>4, NewTeller
  <2>6. RowShapes'
    <3>1. notified' \in BOOLEAN
      BY ONLY <2>1
    <3> QED
      BY <1>2, <3>1 DEF RowShapes
  <2>7. WorkShapes'
    BY <1>2 DEF work, WorkShapes
  <2>8. ClaimsAreOfTheEnd'
    <3>1. \A q \in Producers : job'[q] = job[q] \/ job'[q].phase = "eligible"
      BY <2>2, <2>3 DEF NoticeShapes
    <3> QED
      BY <1>2, <1>3, <3>1 DEF ClaimsAreOfTheEnd
  <2> QED
    BY <2>5, <2>6, <2>7, <2>8 DEF NoticesInv
<1>4. CASE ~(status \in {"completed", "failed"} /\ ~notified)
  <2>1. job' = [job EXCEPT ![p] = Idle] /\ UNCHANGED notified
    BY <1>4 DEF Claim
  <2> QED
    BY <1>2, <2>1, GiveUpKeeps DEF runRow
<1> QED
  BY <1>3, <1>4

\* A series begins for the teller's subject and for no other.
LEMMA EligibleKeeps ==
    ASSUME NoticesInv, NEW p \in Producers, CheckEligible(p)
    PROVE  NoticesInv'
<1> USE NoticeFacts
<1>1. job[p] \in Works /\ job[p].phase = "eligible" /\ UNCHANGED <<runRow, work, episode, messages>>
  BY DEF CheckEligible
<1>2. CASE job' = [job EXCEPT ![p] = Idle] /\ UNCHANGED series
  BY <1>1, <1>2, GiveUpKeeps
<1>3. CASE /\ job' = [job EXCEPT ![p].phase = "send"]
           /\ series' = [series EXCEPT ![job[p].about] = Older(@, 1)]
  <2> DEFINE j == [job[p] EXCEPT !.phase = "send"]
             t == job[p].about
  <2>1. j \in Works /\ j.phase = "send" /\ j.about = t /\ j.tries = job[p].tries /\ t \in Subjects /\ j.tries \in Nat
    BY ONLY <1>1, NoticeFacts DEF j, t, Works
  <2>2. job' = [job EXCEPT ![p] = j] /\ series' = [series EXCEPT ![t] = Older(@, 1)]
    BY <1>3
  <2>3. job \in [Producers -> Works] /\ series \in [Subjects -> 0 .. 2] /\ messages \in [Subjects -> 0 .. MaxAttempts + 1]
    BY DEF NoticeShapes
  <2> HIDE DEF j, t
  <2>4. \A q \in Producers : job'[q] = IF q = p THEN j ELSE job[q]
    BY <2>2, <2>3
  <2>5. \A s \in Subjects : series'[s] = IF s = t THEN Older(series[s], 1) ELSE series[s]
    BY <2>1, <2>2, <2>3
  <2>6. NoticeShapes'
    <3>1. job' \in [Producers -> Works]
      BY <2>1, <2>2, <2>3
    <3>2. Older(series[t], 1) \in 0 .. 2
      BY <2>1, <2>3 DEF Older
    <3>3. series' \in [Subjects -> 0 .. 2]
      BY <2>2, <2>3, <3>2
    <3> QED
      BY <1>1, <3>1, <3>3 DEF NoticeShapes
  <2>7. ASSUME NEW s \in Subjects \ {MaxEpisodes} PROVE OneTeller(s)'
    <3>1. OneTeller(s)
      BY DEF NoticesInv
    <3>2. \A q \in Producers : Tells(q, s)' <=> Tells(q, s)
      BY <1>1, <2>1, <2>4 DEF Tells, t
    <3>3. Unborn(s)' <=> Unborn(s)
      BY <1>1 DEF Unborn, runRow
    <3>4. \A q, r \in Producers : Tells(q, s)' /\ Tells(r, s)' => q = r
      BY <3>1, <3>2 DEF OneTeller
    <3>5. CASE s = t
      <4>1. Tells(p, s) /\ series[s] = 0 /\ ~Unborn(s)
        BY <1>1, <3>1, <3>5 DEF Tells, OneTeller, t
      <4>2. messages[s] = 0 /\ series'[s] = 1
        <5>1. messages[s] <= 0 /\ messages[s] \in Nat
          BY <2>3, <3>1, <4>1 DEF OneTeller
        <5> QED
          BY <2>5, <3>5, <4>1, <5>1 DEF Older
      <4>3. \A q \in Producers : Tells(q, s)' => q = p
        BY <3>1, <3>2, <4>1 DEF OneTeller
      <4>4. \A q \in Producers : Tells(q, s)' => job'[q].phase = "send" /\ messages'[s] <= job'[q].tries
        BY <1>1, <2>1, <2>4, <4>2, <4>3
      <4>5. messages'[s] <= MaxAttempts * series'[s]
        BY <1>1, <4>2
      <4> QED
        BY <3>3, <3>4, <4>1, <4>2, <4>4, <4>5 DEF OneTeller
    <3>6. CASE s # t
      <4>1. series'[s] = series[s] /\ messages'[s] = messages[s]
        BY <1>1, <2>5, <3>6
      <4>2. \A q \in Producers : Tells(q, s) => job'[q] = job[q]
        BY <2>4, <3>6 DEF Tells, t
      <4> QED
        BY <3>1, <3>2, <3>3, <3>4, <4>1, <4>2 DEF OneTeller
    <3> QED
      BY <3>5, <3>6
  <2>8. ClaimsAreOfTheEnd'
    BY <1>1, <2>1, <2>4 DEF ClaimsAreOfTheEnd, runRow
  <2> QED
    BY <1>1, <2>6, <2>7, <2>8 DEF NoticesInv, runRow, RowShapes, work, WorkShapes
<1> QED
  BY <1>2, <1>3 DEF CheckEligible

\* An attempt tells at most once, and no attempt follows the last.
LEMMA SendKeeps ==
    ASSUME NoticesInv, NEW p \in Producers, Send(p)
    PROVE  NoticesInv'
<1> USE NoticeFacts
<1>1. job[p] \in Works /\ job[p].phase = "send" /\ UNCHANGED <<runRow, work, episode, series>>
  BY DEF Send
<1> DEFINE t == job[p].about
           k == job[p].tries
<1>2. t \in Subjects /\ k \in 0 .. MaxAttempts - 1
  BY <1>1 DEF Works
<1>3. messages' = messages \/ messages' = [messages EXCEPT ![t] = Older(@, MaxAttempts)]
  BY DEF Send, Told
<1> DEFINE j == [job[p] EXCEPT !.tries = @ + 1]
<1>4. job' = [job EXCEPT ![p] = Idle] \/ job' = [job EXCEPT ![p] = IF k + 1 >= MaxAttempts THEN Idle ELSE j]
  BY DEF Send
<1>5. k + 1 < MaxAttempts => j \in Works /\ j.phase = "send" /\ j.about = t /\ j.tries = k + 1
  <2> SUFFICES ASSUME k + 1 < MaxAttempts PROVE j \in Works /\ j.phase = "send" /\ j.about = t /\ j.tries = k + 1
    OBVIOUS
  <2>1. k + 1 \in 0 .. MaxAttempts - 1
    BY <1>2
  <2> QED
    BY ONLY <1>1, <2>1 DEF j, t, k, Works
<1> HIDE DEF j, k
<1>6. job' = [job EXCEPT ![p] = Idle] \/ (k + 1 < MaxAttempts /\ job' = [job EXCEPT ![p] = j])
  <2>1. CASE k + 1 >= MaxAttempts
    BY <1>4, <2>1
  <2>2. CASE ~(k + 1 >= MaxAttempts)
    <3>1. k + 1 < MaxAttempts
      BY <1>2, <2>2
    <3> QED
      BY <1>4, <2>2, <3>1
  <2> QED
    BY <2>1, <2>2
<1>7. job \in [Producers -> Works] /\ series \in [Subjects -> 0 .. 2] /\ messages \in [Subjects -> 0 .. MaxAttempts + 1]
  BY DEF NoticeShapes
<1>8. PICK i \in {Idle, j} : job' = [job EXCEPT ![p] = i] /\ (i = Idle \/ (k + 1 < MaxAttempts /\ i = j))
  BY <1>6
<1>9. i \in Works /\ (i.phase = "idle" \/ (i.phase = "send" /\ i.about = t /\ i.tries = k + 1))
  BY <1>5, <1>8
<1>10. \A q \in Producers : job'[q] = IF q = p THEN i ELSE job[q]
  BY <1>7, <1>8
<1>11. \A s \in Subjects : messages'[s] = messages[s] \/ (s = t /\ messages'[s] = Older(messages[s], MaxAttempts))
  BY <1>2, <1>3, <1>7
<1>12. NoticeShapes'
  <2>1. job' \in [Producers -> Works]
    BY <1>7, <1>8, <1>9
  <2>2. messages' \in [Subjects -> 0 .. MaxAttempts + 1]
    <3>1. messages[t] \in 0 .. MaxAttempts + 1
      BY <1>2, <1>7
    <3>2. Older(messages[t], MaxAttempts) \in 0 .. MaxAttempts + 1
      BY <3>1, OlderFits
    <3> QED
      BY <1>3, <1>7, <3>2
  <2> QED
    BY <1>1, <2>1, <2>2 DEF NoticeShapes
<1> HIDE DEF t
<1>13. ASSUME NEW s \in Subjects \ {MaxEpisodes} PROVE OneTeller(s)'
  <2>1. OneTeller(s)
    BY DEF NoticesInv
  <2>2. Unborn(s)' <=> Unborn(s)
    BY <1>1 DEF Unborn, runRow
  <2>3. CASE s = t
    <3>1. Tells(p, s)
      BY <1>1, <2>3 DEF Tells, t
    <3>2. series[s] = 1 /\ messages[s] <= k /\ ~Unborn(s)
      BY <1>1, <2>1, <3>1 DEF OneTeller, k
    <3>3. messages'[s] <= k + 1 /\ messages'[s] <= MaxAttempts
      <4>1. messages[s] \in 0 .. MaxAttempts + 1
        BY <1>7
      <4>2. messages'[s] <= messages[s] + 1
        BY <1>11, <4>1 DEF Older
      <4>3. messages'[s] \in Int
        BY <1>12 DEF NoticeShapes
      <4> QED
        BY <1>2, <3>2, <4>1, <4>2, <4>3
    <3>4. \A q \in Producers : Tells(q, s)' => q = p
      BY <1>10, <2>1, <3>1 DEF OneTeller, Tells
    <3>5. \A q \in Producers : Tells(q, s)' => job'[q].phase = "send" /\ messages'[s] <= job'[q].tries
      BY <1>9, <1>10, <3>3, <3>4 DEF Tells
    <3>6. series'[s] = 1
      BY <1>1, <3>2
    <3>7. messages'[s] <= MaxAttempts * series'[s]
      BY <3>3, <3>6
    <3>8. \A q, r \in Producers : Tells(q, s)' /\ Tells(r, s)' => q = r
      BY <3>4
    <3> QED
      BY <2>2, <3>2, <3>5, <3>6, <3>7, <3>8 DEF OneTeller
  <2>4. CASE s # t
    <3>1. series'[s] = series[s] /\ messages'[s] = messages[s]
      BY <1>1, <1>11, <2>4
    <3>2. \A q \in Producers : Tells(q, s)' => Tells(q, s) /\ job'[q] = job[q]
      BY <1>9, <1>10, <2>4 DEF Tells
    <3>3. \A q, r \in Producers : Tells(q, s)' /\ Tells(r, s)' => q = r
      BY <2>1, <3>2 DEF OneTeller
    <3> QED
      BY <2>1, <2>2, <3>1, <3>2, <3>3 DEF OneTeller
  <2> QED
    BY <2>3, <2>4
<1>14. ClaimsAreOfTheEnd'
  BY <1>1, <1>9, <1>10 DEF ClaimsAreOfTheEnd, runRow
<1> QED
  BY <1>1, <1>12, <1>13, <1>14 DEF NoticesInv, runRow, RowShapes, work, WorkShapes

LEMMA AbandonKeeps ==
    ASSUME NoticesInv, NEW p \in Producers, Abandon(p)
    PROVE  NoticesInv'
BY GiveUpKeeps DEF Abandon

LEMMA NoticesStart == NoticesInit => NoticesInv
<1> SUFFICES ASSUME NoticesInit PROVE NoticesInv
  OBVIOUS
<1> USE NoticesAssumption
<1>1. Idle \in Works /\ Idle.phase = "idle" /\ 0 \in Subjects
  BY DEF Idle, Works, Subjects, End
<1>2. RowShapes
  <2>1. leaseLeft \in 0 .. LeaseTtl /\ progressAge \in 0 .. Threshold + 1
    BY DEF NoticesInit
  <2>2. stalled \in BOOLEAN /\ stop \in BOOLEAN /\ notified \in BOOLEAN
    BY DEF NoticesInit
  <2>3. status = "running" /\ step = "starting"
    BY DEF NoticesInit
  <2> QED
    BY <2>1, <2>2, <2>3 DEF RowShapes, RUN_STEP_KINDS
<1>3. WorkShapes
  <2>1. beat \in Beats
    BY DEF NoticesInit, NoBeat, Beats
  <2>2. tracker \in [progressed : BOOLEAN, step : RUN_STEP_KINDS]
    BY DEF NoticesInit, RUN_STEP_KINDS
  <2>3. eventAge \in 0 .. Threshold + 1 /\ worker = "up"
    BY DEF NoticesInit
  <2>4. covered \in BOOLEAN /\ reported \in BOOLEAN /\ hung \in BOOLEAN
    BY DEF NoticesInit
  <2> QED
    BY <2>1, <2>2, <2>3, <2>4 DEF WorkShapes
<1>4. NoticeShapes
  <2>1. job \in [Producers -> Works]
    BY <1>1 DEF NoticesInit
  <2>2. episode \in 1 .. MaxEpisodes
    BY DEF NoticesInit
  <2>3. series \in [Subjects -> 0 .. 2] /\ messages \in [Subjects -> 0 .. MaxAttempts + 1]
    BY DEF NoticesInit
  <2> QED
    BY <2>1, <2>2, <2>3 DEF NoticeShapes
<1>5. \A p \in Producers : job[p].phase = "idle"
  BY <1>1 DEF NoticesInit
<1>6. ClaimsAreOfTheEnd
  BY <1>5 DEF ClaimsAreOfTheEnd, NoticesInit
<1>7. ASSUME NEW s \in Subjects PROVE OneTeller(s)
  <2>1. series[s] = 0 /\ messages[s] = 0 /\ MaxAttempts * 0 = 0
    BY DEF NoticesInit
  <2>2. \A p \in Producers : ~Tells(p, s)
    BY <1>5 DEF Tells
  <2> QED
    BY <2>1, <2>2 DEF OneTeller
<1> QED
  BY <1>2, <1>3, <1>4, <1>6, <1>7 DEF NoticesInv

LEMMA NoticesStay == NoticesInv /\ UNCHANGED noticesVars => NoticesInv'
<1> SUFFICES ASSUME NoticesInv, UNCHANGED noticesVars PROVE NoticesInv'
  OBVIOUS
<1>1. UNCHANGED <<status, leaseLeft, progressAge, step, stalled, stop, notified>> /\ UNCHANGED work /\ UNCHANGED notice
  BY DEF noticesVars, runRow
<1>2. RowShapes' /\ WorkShapes'
  BY <1>1 DEF NoticesInv, RowShapes, WorkShapes, work
<1> QED
  BY <1>1, <1>2, RunKeeps

LEMMA NoticesStep == NoticesInv /\ NoticesNext => NoticesInv'
<1> SUFFICES ASSUME NoticesInv, NoticesNext PROVE NoticesInv'
  OBVIOUS
<1>1. ASSUME NEW w \in Dogs, Watch(w) PROVE NoticesInv'
  BY <1>1, WatchKeeps, MarkKeeps DEF Watch
<1>2. ASSUME NEW p \in Producers, Notify(p) \/ Abandon(p) PROVE NoticesInv'
  BY <1>2, ClaimKeeps, EligibleKeeps, SendKeeps, AbandonKeeps DEF Notify
<1> QED
  BY <1>1, <1>2, WorkerKeeps, HeartbeatKeeps, SettleKeeps DEF NoticesNext

LEMMA NoticesAlways == NoticesSpec => []NoticesInv
BY NoticesStart, NoticesStay, NoticesStep, PTL DEF NoticesSpec

(* However many watchdog passes overlap with beats, ends and slow deliveries, a   *)
(* stall episode and a run's end begin one series of messages each, no longer     *)
(* than the attempts allowed; a cancelled run is never announced; and the scan    *)
(* selects what the shared assessment calls stuck.                                *)
THEOREM NoticesProved == NoticesSpec => []NoticesAreSound
<1>1. NoticesInv => NoticesAreSound
  <2> SUFFICES ASSUME NoticesInv PROVE NoticesAreSound
    OBVIOUS
  <2> USE NoticeFacts
  <2>1. NoticesTypeOK
    <3>1. \A p \in Producers : job[p].phase \in {"idle", "mark", "reclaim", "claim", "eligible", "send"}
      BY DEF Works
    <3> QED
      BY <3>1 DEF NoticesTypeOK, RowShapes, WorkShapes
  <2>2. \A s \in Subjects \ {MaxEpisodes} : OneTeller(s)
    BY DEF NoticesInv
  <2>3. OneSeriesPerEpisode
    BY <2>2 DEF OneSeriesPerEpisode, OneTeller
  <2>4. MessagesAreBounded
    <3>1. \A s \in Subjects \ {MaxEpisodes} : messages[s] <= MaxAttempts * series[s]
      BY <2>2 DEF OneTeller
    <3>2. ASSUME status = "cancelled" PROVE messages[End] = 0
      <4>1. End \in Subjects \ {MaxEpisodes} /\ messages[End] \in Nat
        BY DEF End, Subjects, NoticeShapes
      <4>2. Unborn(End)
        BY <3>2 DEF Unborn, ClaimsAreOfTheEnd
      <4>3. series[End] = 0 /\ messages[End] <= MaxAttempts * series[End]
        BY <2>2, <4>1, <4>2 DEF OneTeller
      <4>4. messages[End] <= 0
        BY <4>3
      <4> QED
        BY <4>1, <4>4
    <3> QED
      BY <3>1, <3>2 DEF MessagesAreBounded
  <2>5. ScanAgrees
    BY DEF ScanAgrees, Stalls, assessRunLiveness, RowShapes, RUN_STEP_KINDS
  <2> QED
    BY <2>1, <2>3, <2>4, <2>5 DEF NoticesAreSound
<1> QED
  BY <1>1, NoticesAlways, PTL

\* Of a work that notes its events: they reach the row in order.
LEMMA ProgressStart == NoticesInit => ProgressArrives
<1> SUFFICES ASSUME NoticesInit PROVE ProgressArrives
  OBVIOUS
<1>1. progressAge <= eventAge
  BY DEF NoticesInit
<1>2. worker = "up" /\ reported /\ covered
  BY DEF NoticesInit
<1> QED
  BY <1>1, <1>2 DEF ProgressArrives

LEMMA ProgressRests ==
    ASSUME ProgressArrives, UNCHANGED <<progressAge, work>>
    PROVE  ProgressArrives'
BY DEF ProgressArrives, work

LEMMA ProgressWorks ==
    ASSUME WorkNotes, NoticesInv, ProgressArrives, Emit \/ Hang \/ Snapshot \/ LoseLease \/ Die \/ Settle
    PROVE  ProgressArrives'
<1> USE NoticeFacts
<1>1. CASE Emit
  <2>1. worker' = worker /\ covered' = FALSE /\ reported' = FALSE
    BY <1>1 DEF Emit
  <2>2. tracker'.progressed
    BY <1>1 DEF Emit, note
  <2> QED
    BY <2>1, <2>2 DEF ProgressArrives
<1>2. CASE Hang
  BY <1>2 DEF Hang, runRow, ProgressArrives
<1>3. CASE Snapshot
  <2>1. /\ UNCHANGED <<progressAge, eventAge, reported>> /\ worker = "up" /\ worker' = "beating" /\ covered' = TRUE
        /\ beat' = [progressed |-> tracker.progressed, step |-> tracker.step, idle |-> eventAge]
    BY <1>3 DEF Snapshot, runRow
  <2>2. beat'.idle = eventAge /\ eventAge <= eventAge
    BY <2>1 DEF WorkShapes
  <2>3. ~reported => beat'.progressed
    BY <2>1 DEF ProgressArrives
  <2>4. reported => progressAge <= eventAge
    BY DEF ProgressArrives
  <2> QED
    BY <2>1, <2>2, <2>3, <2>4 DEF ProgressArrives
<1>4. CASE LoseLease \/ Die \/ Settle
  <2>1. worker' = "gone" /\ UNCHANGED <<progressAge, eventAge, covered, reported>>
    BY <1>4 DEF LoseLease, Die, Settle, Gone, runRow
  <2> QED
    BY <2>1 DEF ProgressArrives
<1> QED
  BY <1>1, <1>2, <1>3, <1>4

LEMMA ProgressBeats ==
    ASSUME NoticesInv, ProgressArrives, Heartbeat
    PROVE  ProgressArrives'
<1>1. /\ worker = "beating" /\ worker' = "up" /\ reported' = (reported \/ covered)
      /\ UNCHANGED <<tracker, eventAge, covered>>
      /\ \/ beat.progressed /\ progressAge' = beat.idle
         \/ ~beat.progressed /\ UNCHANGED progressAge
  BY DEF Heartbeat
<1>2. reported' => covered'
  BY <1>1 DEF ProgressArrives
<1>3. covered => progressAge' <= eventAge'
  BY <1>1 DEF ProgressArrives
<1>4. ~reported' => tracker'.progressed
  BY <1>1 DEF ProgressArrives
<1> QED
  BY <1>1, <1>2, <1>3, <1>4 DEF ProgressArrives

LEMMA ProgressAges ==
    ASSUME NoticesInv, ProgressArrives, Tick
    PROVE  ProgressArrives'
<1> USE NoticeFacts
<1>1. /\ UNCHANGED <<worker, tracker, beat, covered, reported>>
      /\ progressAge' = Older(progressAge, Threshold) /\ eventAge' = Older(eventAge, Threshold)
  BY DEF Tick
<1>2. progressAge \in 0 .. Threshold + 1 /\ eventAge \in 0 .. Threshold + 1 /\ beat.idle \in 0 .. Threshold + 1
  BY DEF RowShapes, WorkShapes, Beats
<1>3. reported => progressAge' <= eventAge'
  <2>1. ASSUME progressAge <= eventAge PROVE progressAge' <= eventAge'
    BY <1>1, <1>2, <2>1 DEF Older
  <2> QED
    BY <2>1 DEF ProgressArrives
<1>4. worker = "beating" /\ covered => beat.idle <= eventAge'
  <2>1. ASSUME beat.idle <= eventAge PROVE beat.idle <= eventAge'
    BY <1>1, <1>2, <2>1 DEF Older
  <2> QED
    BY <2>1 DEF ProgressArrives
<1> QED
  BY <1>1, <1>3, <1>4 DEF ProgressArrives

LEMMA ProgressStep ==
    ASSUME WorkNotes, NoticesInv, ProgressArrives, NoticesNext
    PROVE  ProgressArrives'
<1>1. ASSUME NEW w \in Dogs, Watch(w) PROVE ProgressArrives'
  BY <1>1, ProgressRests DEF Watch, Scan, MarkStalled, TimeOutRun, runRow
<1>2. ASSUME NEW p \in Producers, Notify(p) \/ Abandon(p) PROVE ProgressArrives'
  BY <1>2, ProgressRests DEF Notify, Claim, CheckEligible, Send, Abandon, runRow
<1>3. ASSUME RequestStop PROVE ProgressArrives'
  BY <1>3, ProgressRests DEF RequestStop
<1> QED
  BY <1>1, <1>2, <1>3, ProgressWorks, ProgressBeats, ProgressAges DEF NoticesNext

\* Only a watchdog's mark sets it, on a run whose stamped progress is past the threshold.
LEMMA MarksAreStalls ==
    ASSUME NoticesInv, NoticesNext, ~stalled, stalled'
    PROVE  progressAge > Threshold
<1>1. ASSUME NEW w \in Dogs, Watch(w) PROVE progressAge > Threshold
  <2>1. MarkStalled(w)
    BY <1>1 DEF Watch, Scan, TimeOutRun, runRow
  <2> QED
    BY <2>1 DEF MarkStalled, Stalls
<1>2. ASSUME NEW p \in Producers, Notify(p) \/ Abandon(p) PROVE FALSE
  BY <1>2 DEF Notify, Claim, CheckEligible, Send, Abandon, runRow
<1>3. ~(Emit \/ Hang \/ Snapshot \/ Heartbeat \/ LoseLease \/ Die \/ Settle \/ RequestStop \/ Tick)
  BY DEF Emit, Hang, Snapshot, Heartbeat, LoseLease, Die, Settle, RequestStop, Tick, runRow
<1> QED
  BY <1>1, <1>2, <1>3 DEF NoticesNext

(* When the work hands its events to the tracker, a mark is never wrong: whatever  *)
(* beats, scans and passes overlap, a run that is marked stalled has produced no   *)
(* event within the threshold that a written beat could have carried.              *)
THEOREM StallProved == ASSUME WorkNotes PROVE NoticesSpec => StallIsSilence
<1>1. NoticesInv /\ ProgressArrives /\ [NoticesNext]_noticesVars => ProgressArrives'
  BY ProgressStep, ProgressRests DEF noticesVars, runRow
<1>2. NoticesInv /\ ProgressArrives /\ [NoticesNext]_noticesVars
        => [~stalled /\ stalled' => ~reported \/ eventAge > Threshold]_noticesVars
  <2> SUFFICES ASSUME NoticesInv, ProgressArrives, NoticesNext, ~stalled, stalled', reported
               PROVE  eventAge > Threshold
    BY DEF noticesVars, runRow
  <2>1. progressAge > Threshold /\ progressAge <= eventAge
    BY MarksAreStalls DEF ProgressArrives
  <2>2. progressAge \in Int /\ eventAge \in Int /\ Threshold \in Int
    BY NoticeFacts DEF RowShapes, WorkShapes
  <2> QED
    BY <2>1, <2>2
<1> QED
  BY <1>1, <1>2, ProgressStart, NoticesAlways, PTL DEF NoticesSpec, StallIsSilence
=============================================================================
