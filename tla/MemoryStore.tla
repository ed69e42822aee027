---------------------------- MODULE MemoryStore ----------------------------
(***************************************************************************)
(* A bot's durable memory: documents and their revisions                    *)
(* (db/src/memory-store.ts), the rules a write is decided by                *)
(* (core/src/memory-rules.ts), and the agent's tools, which propose writes  *)
(* (effect/src/memory-tools.ts).                                            *)
(*                                                                          *)
(* A write reads what its rules need, decides, and then sends one statement *)
(* that changes the document and records the revision together.  Anything   *)
(* may happen between the two.  A text stands for a title and its content;  *)
(* the kind, which no statement changes, the author and the reason are left *)
(* out, and so are requests that fail validation: they write nothing.       *)
(***************************************************************************)
EXTENDS Naturals, FiniteSets

CONSTANTS
    Documents,      \* document ids; an agent's create uses the one minted from its call
    Texts,
    Writers,        \* requests under way: operators' and agents'
    MaxDocuments,   \* MAX_MEMORY_DOCUMENTS_PER_BOT
    MaxRevisions    \* bound: revisions per document

ASSUME MemoryAssumption ==
    /\ MaxDocuments \in Nat /\ MaxRevisions \in Nat
    /\ Writers # {} /\ IsFiniteSet(Writers)

VARIABLES
    document,   \* memory_document by id; revision 0 where there is no row
    revisions,  \* memory_revision
    write       \* what each writer has decided and not persisted
memoryVars == <<document, revisions, write>>

NoText == "none"
NoDocument == [revision |-> 0, text |-> NoText, deleted |-> "no"]
NoWrite == [action |-> "none"]
Origins == {"deliberate", "agent_proposed"}

MemoryInit ==
    /\ document = [d \in Documents |-> NoDocument] /\ revisions = {}
    /\ write = [w \in Writers |-> NoWrite]

\* findLiveDocument and liveDocumentCount
Live(d) == document[d].revision > 0 /\ document[d].deleted = "no"
LiveDocuments == {d \in Documents : Live(d)}

----------------------------------------------------------------------------
(* applyWrite and restoreRevision, first half: read and decide.             *)

Decided(w, request) == write' = [write EXCEPT ![w] = request]

DecideCreate(w, d, text, origin) ==
    /\ write[w] = NoWrite /\ ~Live(d) /\ Cardinality(LiveDocuments) < MaxDocuments
    /\ Decided(w, [action |-> "create", document |-> d, text |-> text, origin |-> origin])
    /\ UNCHANGED <<document, revisions>>

\* An update that repeats the text is no_change.
DecideUpdate(w, d, text, origin) ==
    /\ write[w] = NoWrite /\ Live(d) /\ document[d].text # text
    /\ Decided(w, [action |-> "update", document |-> d, text |-> text, origin |-> origin])
    /\ UNCHANGED <<document, revisions>>

\* Deleting and restoring are the operator's: an agent's proposal is refused by the rules.
DecideDelete(w, d) ==
    /\ write[w] = NoWrite /\ Live(d)
    /\ Decided(w, [action |-> "delete", document |-> d, origin |-> "deliberate"])
    /\ UNCHANGED <<document, revisions>>

\* A restore may name a tombstone; one that names the live text is no_change.
DecideRestore(w, target) ==
    /\ write[w] = NoWrite
    /\ ~(Live(target.document) /\ document[target.document].text = target.text)
    /\ Decided(w, [action |-> "restore", document |-> target.document,
                   number |-> target.number, origin |-> "deliberate"])
    /\ UNCHANGED <<document, revisions>>

----------------------------------------------------------------------------
(* Second half: one statement, guarded by what the row holds by then.       *)

\* The row as a statement leaves it, and its revision: the number comes from the row.
Persist(w, text, deleted, restored) ==
    LET d == write[w].document
        n == document[d].revision + 1
    IN  /\ document' = [document EXCEPT ![d] = [revision |-> n, text |-> text, deleted |-> deleted]]
        /\ revisions' = revisions \cup
             {[document |-> d, number |-> n, text |-> text, deleted |-> deleted,
               origin |-> write[w].origin, restored |-> restored]}
        /\ write' = [write EXCEPT ![w] = NoWrite]

Refused(w) == write' = [write EXCEPT ![w] = NoWrite] /\ UNCHANGED <<document, revisions>>
Room(w) == document[write[w].document].revision < MaxRevisions

\* A spent id, live or tombstoned, is a conflict and inserts nothing.
createDocument(w) ==
    /\ write[w].action = "create"
    /\ \/ document[write[w].document].revision = 0 /\ Room(w) /\ Persist(w, write[w].text, "no", 0)
       \/ document[write[w].document].revision > 0 /\ Refused(w)

\* Mutant: the statement finds the row by its id alone.
reviseDocumentAny(w) ==
    /\ write[w].action = "update" /\ Room(w) /\ Persist(w, write[w].text, "no", 0)

reviseDocument(w) ==
    /\ write[w].action = "update"
    /\ \/ Live(write[w].document) /\ Room(w) /\ Persist(w, write[w].text, "no", 0)
       \/ ~Live(write[w].document) /\ Refused(w)

tombstoneDocument(w) ==
    /\ write[w].action = "delete"
    /\ \/ /\ Live(write[w].document) /\ Room(w)
          /\ Persist(w, document[write[w].document].text, "yes", 0)
       \/ ~Live(write[w].document) /\ Refused(w)

\* The text is read again, from the revision; the row is written whatever it holds by then.
restoreRevision(w) ==
    /\ write[w].action = "restore" /\ Room(w)
    /\ \E target \in revisions :
        /\ target.document = write[w].document /\ target.number = write[w].number
        /\ Persist(w, target.text, "no", target.number)

MemoryNext ==
    \E w \in Writers :
        \/ \E d \in Documents :
            \/ \E text \in Texts, origin \in Origins :
                DecideCreate(w, d, text, origin) \/ DecideUpdate(w, d, text, origin)
            \/ DecideDelete(w, d)
        \/ \E target \in revisions : DecideRestore(w, target)
        \/ createDocument(w) \/ reviseDocument(w) \/ tombstoneDocument(w) \/ restoreRevision(w)

MemorySpec == MemoryInit /\ [][MemoryNext]_memoryVars

----------------------------------------------------------------------------
Revision == [document : Documents, number : Nat \ {0}, text : Texts, deleted : {"no", "yes"},
             origin : Origins, restored : Nat]
Request ==
    {NoWrite}
    \cup [action : {"create", "update"}, document : Documents, text : Texts, origin : Origins]
    \cup [action : {"delete"}, document : Documents, origin : {"deliberate"}]
    \cup [action : {"restore"}, document : Documents, number : Nat, origin : {"deliberate"}]

MemoryTypeOK ==
    /\ document \in [Documents -> [revision : Nat, text : Texts \cup {NoText}, deleted : {"no", "yes"}]]
    /\ revisions \subseteq Revision
    /\ write \in [Writers -> Request]

(* A document's revisions are numbered 1 up to the number in its row, each   *)
(* number once, and the newest is what the row holds: overlapping writers,   *)
(* replays and restores leave no gap, no fork and nothing unrecorded.        *)
HistoryIsWhole ==
    /\ \A r \in revisions : r.number <= document[r.document].revision
    /\ \A d \in Documents : \A n \in 1 .. document[d].revision :
        \E r \in revisions : r.document = d /\ r.number = n
    /\ \A r, s \in revisions : r.document = s.document /\ r.number = s.number => r = s
    /\ \A r \in revisions : r.number = document[r.document].revision =>
        r.text = document[r.document].text /\ r.deleted = document[r.document].deleted

(* A document is removed and brought back by an operator only, although an   *)
(* agent's rewrite may have been decided before the removal: the revision    *)
(* after a tombstone is a restore.                                           *)
RemovalIsDeliberate ==
    \A r \in revisions :
        /\ r.deleted = "yes" => r.origin = "deliberate"
        /\ \A s \in revisions :
            s.document = r.document /\ s.deleted = "yes" /\ r.number = s.number + 1 =>
                r.origin = "deliberate" /\ r.restored # 0

(* A restored revision is the text of the revision it names, which came      *)
(* before it.                                                                *)
RestoresRecordedText ==
    \A r \in revisions : r.restored # 0 =>
        \E s \in revisions : /\ s.document = r.document /\ s.number = r.restored
                             /\ s.number < r.number /\ s.text = r.text

(* The memory and its history agree whatever overlaps.                       *)
HistoryIsSound == MemoryTypeOK /\ HistoryIsWhole /\ RemovalIsDeliberate /\ RestoresRecordedText

(* The cap is best effort, and this is how far it can be missed: by one      *)
(* document per other write under way, and one per removal undone.           *)
Undone == {r \in revisions : r.restored # 0 /\ \E s \in revisions :
              s.document = r.document /\ s.deleted = "yes" /\ r.number = s.number + 1}
CapIsNearlyKept ==
    Cardinality(LiveDocuments) <=
        MaxDocuments + (Cardinality(Writers) - 1) + Cardinality(Undone)

(* Overlapping writers leave every document one unbroken history that ends   *)
(* in its row; only an operator removes or brings back; the cap is missed by *)
(* the writes under way and the removals undone at most.                     *)
MemoryIsSound == HistoryIsSound /\ CapIsNearlyKept

(* The cap's inductive strengthening: a create that was decided has its      *)
(* place reserved in the bound before its statement runs.                    *)
Creators == {w \in Writers : write[w].action = "create"}
CapInv ==
    /\ IsFiniteSet(LiveDocuments) /\ IsFiniteSet(revisions)
    /\ Cardinality(LiveDocuments) + Cardinality(Creators) <=
         MaxDocuments + (Cardinality(Writers) - 1) + Cardinality(Undone)
=============================================================================
