--------------------------- MODULE PostingProofs ---------------------------
(* Proofs about Posting, for any number of runs, processes and documents. *)
EXTENDS Posting, TLAPS

(* What keeps two runs off one document: the caller's header lock, or an   *)
(* advisory key on which all processes agree.                              *)
SerialisedDoc(d) ==
    \/ d \in HeaderLocked
    \/ \A v, w \in Workers : KeyOf[v][d] = KeyOf[w][d]

Serialised == \A d \in Docs : SerialisedDoc(d)

(* What is enough for the ledger: such a lock, or a locator without a NULL,*)
(* which the unique constraints see.                                       *)
Protected == \A d \in Docs : d \in ScopedDocs \/ SerialisedDoc(d)

Exclusive == \A p, q \in InFlight : doc[p] = doc[q] /\ SerialisedDoc(doc[p]) => p = q

(* One run at a time has created a batch for a document.                   *)
OneBatched ==
    \A p, q \in Runs :
        stage[p] \in Batched /\ stage[q] \in Batched /\ doc[p] = doc[q] => p = q

(* Row locks: no two runs have deactivated the same batch.                 *)
Holding  == {"deactivated"} \cup Batched
OffApart ==
    /\ \A r \in Runs : off[r] # {} => stage[r] \in Holding
    /\ \A p, q \in Runs : p # q => off[p] \cap off[q] = {}

(* What a run in flight has found or written: batches of its own document; *)
(* from the batch it creates on, just what is still committed; and before  *)
(* that too where the runs of the document come one after the other.       *)
Current(r) ==
    /\ stage[r] = "deactivating" =>
          /\ seen[r] \subseteq Of(Runs, doc[r])
          /\ SerialisedDoc(doc[r]) => seen[r] = Of(active, doc[r])
    /\ stage[r] = "deactivated" =>
          /\ off[r] \subseteq Of(active, doc[r])
          /\ SerialisedDoc(doc[r]) => off[r] = Of(active, doc[r])
    /\ stage[r] \in Batched => off[r] = Of(active, doc[r])
    /\ stage[r] = "clearing" => seen[r] = Of(rows, doc[r])
    /\ stage[r] \in {"cleared", "entered", "lined", "checked"} =>
          del[r] = Of(rows, doc[r])
    /\ stage[r] \in {"entered", "lined", "checked"} =>
          \/ ent[r] = {r} /\ Of(Entries, doc[r]) = {}
          \/ \E e \in Entries : ent[r] = {e} /\ Of(Entries, doc[r]) = {e}

PendingIsCurrent == \A r \in Runs : Current(r)

CommittedIds == active \subseteq Committed /\ Entries \subseteq Committed

IInv == /\ TypeOK
        /\ Exclusive
        /\ OneBatched
        /\ OffApart
        /\ PendingIsCurrent
        /\ CommittedIds
        /\ OneActiveBatch
        /\ LedgerIsActiveBatch

LEMMA TypeInductive == TypeOK /\ [Next]_vars => TypeOK'
<1> SUFFICES ASSUME TypeOK, [Next]_vars PROVE TypeOK'
  OBVIOUS
<1> USE DEF TypeOK, Goto, request, effects, ledger, committed, Stages, Waiting, Batched
<1>1. ASSUME NEW r \in Runs, LockForTxn(r) PROVE TypeOK'
  BY <1>1 DEF LockForTxn, Entries
<1>2. ASSUME NEW r \in Runs, Statement(r) PROVE TypeOK'
  <2>1. CASE AssertFinancialYearOpen(r)
    BY <2>1 DEF AssertFinancialYearOpen, Entries
  <2>2. CASE NextRevision(r)
    BY <2>2 DEF NextRevision, Revisions, Of, Committed, Entries
  <2>3. CASE FindPreviousBatch(r)
    BY <2>3 DEF FindPreviousBatch, Of, Entries
  <2>4. CASE DeactivatePreviousBatch(r)
    BY <2>4 DEF DeactivatePreviousBatch, Entries
  <2>5. CASE CreateBatch(r)
    BY <2>5 DEF CreateBatch, Entries
  <2>6. CASE FindExistingRows(r)
    BY <2>6 DEF FindExistingRows, Of, Entries
  <2>7. CASE DeleteExistingRows(r)
    BY <2>7 DEF DeleteExistingRows, Entries
  <2>8. CASE UpdateEntry(r)
    BY <2>8 DEF UpdateEntry, Entries
  <2>9. CASE CreateEntry(r)
    BY <2>9 DEF CreateEntry, Entries
  <2>10. CASE InsertLines(r)
    BY <2>10 DEF InsertLines, Entries
  <2>11. CASE AssertBalanced(r)
    BY <2>11 DEF AssertBalanced, Entries
  <2>12. CASE Commit(r)
    BY <2>12 DEF Commit, Forget, Entries
  <2>13. QED
    BY <1>2, <2>1, <2>2, <2>3, <2>4, <2>5, <2>6, <2>7, <2>8, <2>9, <2>10,
       <2>11, <2>12 DEF Statement
<1>3. ASSUME NEW r \in Runs, Rollback(r) PROVE TypeOK'
  BY <1>3 DEF Rollback, Forget, Entries
<1>4. CASE CloseYear \/ ReopenYear
  BY <1>4 DEF CloseYear, ReopenYear, SetYear, Entries
<1>5. CASE UNCHANGED vars
  BY <1>5 DEF vars, Entries
<1>6. QED
  BY <1>1, <1>2, <1>3, <1>4, <1>5 DEF Next


(* Every step of every run keeps the types, whatever the locks allow.      *)
THEOREM TypeCorrect == Spec => []TypeOK
<1>1. Init => TypeOK
  BY DEF Init, TypeOK, Stages, Waiting, Entries
<1>2. QED
  BY <1>1, TypeInductive, PTL DEF Spec

LEMMA InitIInv == Init => IInv
<1> SUFFICES ASSUME Init PROVE IInv
  OBVIOUS
<1>1. TypeOK
  BY DEF Init, TypeOK, Stages, Waiting, Entries
<1>2. InFlight = {} /\ active = {} /\ rows = {} /\ Entries = {}
  BY DEF Init, InFlight, Waiting, Batched, Entries
<1>3. Exclusive /\ CommittedIds /\ OneActiveBatch
  BY <1>2 DEF Exclusive, CommittedIds, OneActiveBatch
<1>4. PendingIsCurrent /\ OneBatched /\ OffApart
  BY DEF Init, PendingIsCurrent, Current, OneBatched, OffApart, Batched
<1>5. LedgerIsActiveBatch
  BY <1>2 DEF LedgerIsActiveBatch, Of
<1>6. QED
  BY <1>1, <1>3, <1>4, <1>5 DEF IInv

(* A step that commits nothing keeps what is said of the committed state.  *)
LEMMA CommittedStateKept ==
    ASSUME IInv, UNCHANGED <<doc, active, rows, entryBatch>>,
           Committed' = Committed
    PROVE  CommittedIds' /\ OneActiveBatch' /\ LedgerIsActiveBatch'
<1>1. Entries' = Entries
  BY DEF Entries
<1>2. CommittedIds'
  BY <1>1 DEF IInv, CommittedIds
<1>3. OneActiveBatch'
  BY DEF IInv, OneActiveBatch
<1>4. LedgerIsActiveBatch'
  BY <1>1 DEF IInv, LedgerIsActiveBatch, Of
<1>5. QED
  BY <1>2, <1>3, <1>4

(* Taking the locks: the header's lock or a shared key keeps rivals out.   *)
LEMMA LockStep ==
    ASSUME IInv, TypeOK', NEW r \in Runs, LockForTxn(r)
    PROVE  IInv'
<1> USE DEF IInv, TypeOK
<1>1. stage[r] = "idle" /\ stage' = [stage EXCEPT ![r] = "locked"]
      /\ UNCHANGED <<doc, worker, seen, off, del, ent, active, rows, entryBatch>>
  BY DEF LockForTxn, Goto, request, effects, committed, ledger
<1>2. \A q \in InFlight : q # r /\ (SerialisedDoc(doc[r]) => doc[q] # doc[r])
  <2> SUFFICES ASSUME NEW q \in InFlight, SerialisedDoc(doc[r]), doc[q] = doc[r] PROVE FALSE
    BY <1>1 DEF InFlight, Waiting, Batched
  <2>1. q \in Others(r)
    BY <1>1 DEF Others, InFlight, Waiting, Batched
  <2>2. KeyOf[worker[q]][doc[q]] # KeyOf[worker[r]][doc[r]] /\ doc[r] \notin HeaderLocked
    BY <2>1 DEF LockForTxn, LockFree
  <2>3. q \in Runs /\ doc[r] \in Docs /\ worker[q] \in Workers /\ worker[r] \in Workers
    BY DEF InFlight
  <2>4. QED
    BY <2>2, <2>3 DEF SerialisedDoc
<1>3. InFlight' = InFlight \cup {r} /\ Committed' = Committed
  BY <1>1 DEF InFlight, Committed, Waiting, Batched
<1>4. Exclusive'
  BY <1>1, <1>2, <1>3 DEF Exclusive
<1>7. OneBatched' /\ OffApart'
  BY <1>1 DEF OneBatched, OffApart, Holding, Batched
<1>5. PendingIsCurrent'
  BY <1>1 DEF PendingIsCurrent, Current, Batched, Of, Entries
<1>6. QED
  BY <1>1, <1>3, <1>4, <1>5, <1>7, CommittedStateKept

(* Every statement before the commit stays within one transaction.         *)
LEMMA PrivateStep ==
    ASSUME IInv, TypeOK', NEW r \in Runs, NEW s \in Waiting \cup Batched,
           r \in InFlight, stage' = [stage EXCEPT ![r] = s],
           UNCHANGED <<doc, active, rows, entryBatch>>,
           PendingIsCurrent', OneBatched', OffApart'
    PROVE  IInv'
<1> USE DEF IInv, TypeOK
<1>1. InFlight' = InFlight /\ Committed' = Committed
  BY DEF InFlight, Committed, Waiting, Batched
<1>2. Exclusive'
  BY <1>1 DEF Exclusive
<1>3. QED
  BY <1>1, <1>2, CommittedStateKept

(* Most statements take no batch off and create none.                      *)
LEMMA QuietStep ==
    ASSUME IInv, TypeOK', NEW r \in Runs, NEW s \in Waiting \cup Batched,
           r \in InFlight, stage' = [stage EXCEPT ![r] = s],
           stage[r] \in Batched <=> s \in Batched,
           stage[r] \in Holding <=> s \in Holding,
           UNCHANGED <<doc, off, active, rows, entryBatch>>, PendingIsCurrent'
    PROVE  IInv'
<1>1. \A p \in Runs : /\ stage'[p] \in Batched <=> stage[p] \in Batched
                      /\ stage'[p] \in Holding <=> stage[p] \in Holding
  BY DEF IInv, TypeOK
<1>2. OneBatched' /\ OffApart'
  BY <1>1 DEF IInv, OneBatched, OffApart
<1>3. QED
  BY <1>2, PrivateStep

(* What is true of a run stays so while nothing is committed and it waits. *)
LEMMA CurrentKept ==
    ASSUME NEW r, UNCHANGED <<doc, active, rows, entryBatch>>,
           UNCHANGED <<stage[r], seen[r], off[r], del[r], ent[r]>>, Current(r)
    PROVE  Current(r)'
BY DEF Current, Of, Entries

LEMMA StatementStep ==
    ASSUME Protected, IInv, TypeOK', NEW r \in Runs, Statement(r), ~Commit(r)
    PROVE  IInv'
<1> USE DEF IInv, TypeOK, Goto, request, effects, committed, ledger
<1>0. Current(r)
  BY DEF PendingIsCurrent
<1>a. ASSUME UNCHANGED <<doc, active, rows, entryBatch>>, Current(r)',
             \A p \in Runs \ {r} : UNCHANGED <<stage[p], seen[p], off[p], del[p], ent[p]>>
      PROVE  PendingIsCurrent'
  <2> SUFFICES ASSUME NEW p \in Runs PROVE Current(p)'
    BY DEF PendingIsCurrent
  <2>1. CASE p = r
    BY <2>1, <1>a
  <2>2. CASE p # r
    <3>1. Current(p)
      BY DEF PendingIsCurrent
    <3>2. UNCHANGED <<stage[p], seen[p], off[p], del[p], ent[p]>>
      BY <1>a, <2>2
    <3>3. QED
      BY <3>1, <3>2, <1>a, CurrentKept
  <2>3. QED
    BY <2>1, <2>2
<1>1. CASE AssertFinancialYearOpen(r)
  <2>1. Current(r)' BY <1>1 DEF AssertFinancialYearOpen, Current, Batched
  <2>2. PendingIsCurrent' BY <1>1, <1>a, <2>1 DEF AssertFinancialYearOpen
  <2>3. QED BY <1>1, <2>2, QuietStep DEF AssertFinancialYearOpen, InFlight, Waiting, Batched, Holding
<1>2. CASE NextRevision(r)
  <2>1. Current(r)' BY <1>2 DEF NextRevision, Current, Batched
  <2>2. PendingIsCurrent' BY <1>2, <1>a, <2>1 DEF NextRevision
  <2>3. QED BY <1>2, <2>2, QuietStep DEF NextRevision, InFlight, Waiting, Batched, Holding
<1>3. CASE FindPreviousBatch(r)
  <2>1. Current(r)' BY <1>3 DEF FindPreviousBatch, Current, Batched, Of
  <2>2. PendingIsCurrent' BY <1>3, <1>a, <2>1 DEF FindPreviousBatch
  <2>3. QED BY <1>3, <2>2, QuietStep DEF FindPreviousBatch, InFlight, Waiting, Batched, Holding
<1>4. CASE DeactivatePreviousBatch(r)
  <2>1. /\ stage[r] = "deactivating" /\ stage' = [stage EXCEPT ![r] = "deactivated"]
        /\ \A q \in Others(r) : off[q] \cap seen[r] = {}
        /\ off' = [off EXCEPT ![r] = seen[r] \cap active]
        /\ UNCHANGED <<doc, seen, del, ent, active, rows, entryBatch>>
    BY <1>4 DEF DeactivatePreviousBatch
  <2>2. Current(r)' BY <2>1, <1>0 DEF Current, Batched, Of
  <2>3. PendingIsCurrent' BY <2>1, <1>a, <2>2
  <2>4. OneBatched' BY <2>1 DEF OneBatched, Batched
  <2>5. OffApart'
    <3>1. \A q \in Runs \ {r} : off[q] \cap seen[r] = {}
      BY <2>1 DEF OffApart, Holding, Others, InFlight, Waiting
    <3>2. /\ \A q \in Runs \ {r} : off'[q] = off[q] /\ stage'[q] = stage[q]
          /\ off'[r] = seen[r] \cap active /\ stage'[r] = "deactivated"
      BY <2>1
    <3>3. \A q \in Runs \ {r} : off'[q] \cap off'[r] = {}
      BY <3>1, <3>2
    <3>4. \A p, q \in Runs : p # q => off'[p] \cap off'[q] = {}
      BY <3>2, <3>3 DEF OffApart
    <3> QED
      BY <3>2, <3>4 DEF OffApart, Holding
  <2>6. QED BY <2>1, <2>3, <2>4, <2>5, PrivateStep DEF InFlight, Waiting
<1>5. CASE CreateBatch(r)
  <2>1. /\ stage[r] = "deactivated" /\ stage' = [stage EXCEPT ![r] = "batched"]
        /\ doc[r] \in ScopedDocs => RivalActive(r) = {} /\ ~RivalPending(r)
        /\ UNCHANGED <<doc, seen, off, del, ent, active, rows, entryBatch>>
    BY <1>5 DEF CreateBatch
  <2>2. doc[r] \in ScopedDocs \/ SerialisedDoc(doc[r])
    BY DEF Protected
  <2>3. off[r] = Of(active, doc[r])
    <3>1. CASE SerialisedDoc(doc[r])
      BY <2>1, <1>0, <3>1 DEF Current
    <3>2. CASE doc[r] \in ScopedDocs
      <4>1. Of(active, doc[r]) \ off[r] = {}
        BY <2>1, <3>2 DEF RivalActive
      <4>2. off[r] \subseteq Of(active, doc[r])
        BY <2>1, <1>0 DEF Current
      <4> QED
        BY <4>1, <4>2
    <3> QED
      BY <2>2, <3>1, <3>2
  <2>4. Current(r)' BY <2>1, <2>3 DEF Current, Batched, Of
  <2>5. PendingIsCurrent' BY <2>1, <1>a, <2>4
  <2>6. ASSUME NEW q \in Runs \ {r}, stage[q] \in Batched PROVE doc[q] # doc[r]
    <3>1. q \in Others(r) /\ r \in InFlight /\ q \in InFlight
      BY <2>1, <2>6 DEF Others, InFlight, Waiting, Batched
    <3>2. CASE SerialisedDoc(doc[r])
      BY <2>6, <3>1, <3>2 DEF Exclusive
    <3>3. CASE doc[r] \in ScopedDocs
      BY <2>1, <2>6, <3>1, <3>3 DEF RivalPending, SameDoc, Of
    <3> QED
      BY <2>2, <3>2, <3>3
  <2>7. OneBatched'
    <3>1. \A q \in Runs \ {r} : stage'[q] = stage[q]
      BY <2>1
    <3> QED
      BY <2>1, <2>6, <3>1 DEF OneBatched
  <2>8. OffApart' BY <2>1 DEF OffApart, Holding, Batched
  <2>9. QED BY <2>1, <2>5, <2>7, <2>8, PrivateStep DEF InFlight, Waiting, Batched
<1>6. CASE FindExistingRows(r)
  <2>1. Current(r)' BY <1>6, <1>0 DEF FindExistingRows, Current, Batched, Of
  <2>2. PendingIsCurrent' BY <1>6, <1>a, <2>1 DEF FindExistingRows
  <2>3. QED BY <1>6, <2>2, QuietStep DEF FindExistingRows, InFlight, Waiting, Batched, Holding
<1>7. CASE DeleteExistingRows(r)
  <2>1. Current(r)' BY <1>7, <1>0 DEF DeleteExistingRows, Current, Batched, Of
  <2>2. PendingIsCurrent' BY <1>7, <1>a, <2>1 DEF DeleteExistingRows
  <2>3. QED BY <1>7, <2>2, QuietStep DEF DeleteExistingRows, InFlight, Waiting, Batched, Holding
<1>8. CASE UpdateEntry(r)
  <2>1. Current(r)' BY <1>8, <1>0 DEF UpdateEntry, Current, Batched, Of, Entries
  <2>2. PendingIsCurrent' BY <1>8, <1>a, <2>1 DEF UpdateEntry
  <2>3. QED BY <1>8, <2>2, QuietStep DEF UpdateEntry, InFlight, Waiting, Batched, Holding
<1>9. CASE CreateEntry(r)
  <2>1. Current(r)' BY <1>9, <1>0 DEF CreateEntry, Current, Batched, Of, Entries
  <2>2. PendingIsCurrent' BY <1>9, <1>a, <2>1 DEF CreateEntry
  <2>3. QED BY <1>9, <2>2, QuietStep DEF CreateEntry, InFlight, Waiting, Batched, Holding
<1>10. CASE InsertLines(r)
  <2>1. Current(r)' BY <1>10, <1>0 DEF InsertLines, Current, Batched, Of, Entries
  <2>2. PendingIsCurrent' BY <1>10, <1>a, <2>1 DEF InsertLines
  <2>3. QED BY <1>10, <2>2, QuietStep DEF InsertLines, InFlight, Waiting, Batched, Holding
<1>11. CASE AssertBalanced(r)
  <2>1. Current(r)' BY <1>11, <1>0 DEF AssertBalanced, Current, Batched, Of, Entries
  <2>2. PendingIsCurrent' BY <1>11, <1>a, <2>1 DEF AssertBalanced
  <2>3. QED BY <1>11, <2>2, QuietStep DEF AssertBalanced, InFlight, Waiting, Batched, Holding
<1>12. QED
  BY <1>1, <1>2, <1>3, <1>4, <1>5, <1>6, <1>7, <1>8, <1>9, <1>10, <1>11
     DEF Statement

(* The commit of r touches r's document alone, and no other run in flight  *)
(* is about it: what the others found is still there.                      *)
LEMMA CommitStep ==
    ASSUME IInv, TypeOK', NEW r \in Runs, Commit(r)
    PROVE  IInv'
<1> USE DEF IInv, TypeOK
<1> DEFINE d == doc[r]
<1>1. /\ stage[r] = "checked" /\ stage' = [stage EXCEPT ![r] = "committed"]
      /\ doc' = doc
      /\ active' = (active \ off[r]) \cup {r}
      /\ rows' = (rows \ del[r]) \cup {r}
      /\ entryBatch' = [e \in Entries \cup ent[r] |->
                            IF e \in ent[r] THEN r ELSE entryBatch[e]]
      /\ \A p \in Runs \ {r} : UNCHANGED <<seen[p], off[p], del[p], ent[p]>>
  BY DEF Commit, Goto, Forget, request
<1>2. r \in InFlight /\ r \notin Committed
  BY <1>1 DEF InFlight, Committed, Batched
<1>3. InFlight' = InFlight \ {r} /\ Committed' = Committed \cup {r}
  BY <1>1 DEF InFlight, Committed, Waiting, Batched
<1>4. off[r] = Of(active, d) /\ del[r] = Of(rows, d)
  BY <1>1 DEF PendingIsCurrent, Current, Batched
<1>5. PICK e0 \in Runs :
         /\ ent[r] = {e0}
         /\ \/ e0 = r /\ Of(Entries, d) = {}
            \/ e0 \in Entries /\ Of(Entries, d) = {e0}
  BY <1>1 DEF PendingIsCurrent, Current
<1>6. Entries' = Entries \cup {e0} /\ doc[e0] = d
  BY <1>1, <1>5 DEF Entries, Of
<1>7. rows' = active'
  BY <1>1, <1>4 DEF LedgerIsActiveBatch
<1>8. \A c \in Docs : Of(active, c)' = IF c = d THEN {r} ELSE Of(active, c)
  BY <1>1, <1>4 DEF Of
<1>9. \A c \in Docs : Of(Entries, c)' = IF c = d THEN {e0} ELSE Of(Entries, c)
  BY <1>1, <1>5, <1>6 DEF Of
<1>10. entryBatch'[e0] = r /\ \A e \in Entries \ {e0} : entryBatch'[e] = entryBatch[e]
  BY <1>1, <1>5 DEF Entries
<1>11. Exclusive' /\ OneBatched'
  BY <1>1, <1>3 DEF Exclusive, OneBatched, Batched
<1>17. off'[r] = {} /\ OffApart'
  <2>1. off' = [off EXCEPT ![r] = {}]
    BY DEF Commit, Forget
  <2> QED
    BY <1>1, <2>1 DEF OffApart
<1>12. CommittedIds'
  BY <1>1, <1>3, <1>5, <1>6, <1>2 DEF CommittedIds
<1>13. OneActiveBatch'
  <2> SUFFICES ASSUME NEW p \in active', NEW q \in active', doc[p] = doc[q]
               PROVE p = q
    BY <1>1 DEF OneActiveBatch
  <2>1. CASE doc[p] = d
    BY <2>1, <1>1, <1>4 DEF Of
  <2>2. CASE doc[p] # d
    BY <2>2, <1>1 DEF OneActiveBatch
  <2>3. QED
    BY <2>1, <2>2
<1>14. LedgerIsActiveBatch'
  <2> SUFFICES ASSUME NEW c \in Docs
               PROVE /\ {entryBatch'[e] : e \in Of(Entries, c)'} = Of(active, c)'
                     /\ \A e, f \in Of(Entries, c)' : e = f
    BY <1>7 DEF LedgerIsActiveBatch
  <2>1. CASE c = d
    BY <2>1, <1>8, <1>9, <1>10
  <2>2. CASE c # d
    <3>1. Of(Entries, c)' = Of(Entries, c) /\ Of(active, c)' = Of(active, c)
      BY <2>2, <1>8, <1>9
    <3>2. \A e \in Of(Entries, c) : e \in Entries \ {e0}
      BY <2>2, <1>6 DEF Of
    <3>3. QED
      BY <3>1, <3>2, <1>10, SMTT(30) DEF LedgerIsActiveBatch
  <2>3. QED
    BY <2>1, <2>2
<1>15. PendingIsCurrent'
  <2> SUFFICES ASSUME NEW p \in Runs, p # r, p \in InFlight
               PROVE  Current(p)'
    <3>1. \A p \in Runs : p \notin InFlight' => Current(p)'
      BY DEF Current, InFlight, Waiting, Batched
    <3>2. QED
      BY <3>1, <1>3 DEF PendingIsCurrent
  <2>6. doc[p] \in Docs /\ Current(p)
    BY DEF PendingIsCurrent
  <2>7. CASE doc[p] = d
    <3>1. stage[p] \notin Batched /\ ~SerialisedDoc(doc[p])
      BY <1>1, <1>2, <2>7 DEF OneBatched, Exclusive, Batched
    <3>2. UNCHANGED <<stage[p], doc[p], seen[p], off[p]>>
      BY <1>1
    <3>3. stage[p] = "deactivated" => off[p] \subseteq Of(active, doc[p])'
      <4> SUFFICES ASSUME stage[p] = "deactivated", NEW q \in off[p] PROVE q \in Of(active, doc[p])'
        OBVIOUS
      <4>1. q \in Of(active, doc[p])
        BY <2>6 DEF Current
      <4>2. q \notin off[r]
        BY DEF OffApart
      <4> QED
        BY <1>1, <4>1, <4>2 DEF Of
    <3>4. stage[p] = "deactivating" => seen[p] \subseteq Of(Runs, doc[p])'
      BY <1>1, <2>6 DEF Current, Of
    <3> QED
      BY <3>1, <3>2, <3>3, <3>4 DEF Current, Batched, SerialisedDoc
  <2>8. CASE doc[p] # d
    <3>1. /\ Of(active, doc[p])' = Of(active, doc[p])
          /\ Of(rows, doc[p])' = Of(rows, doc[p])
          /\ Of(Entries, doc[p])' = Of(Entries, doc[p])
      BY <2>6, <2>8, <1>8, <1>9, <1>7, <1>1 DEF LedgerIsActiveBatch, Of
    <3>2. UNCHANGED <<stage[p], doc[p], seen[p], off[p], del[p], ent[p]>>
      BY <1>1
    <3>3. Entries \subseteq Entries' /\ Of(Runs, doc[p])' = Of(Runs, doc[p])
      BY <1>1, <1>6 DEF Of
    <3> QED
      BY <2>6, <3>1, <3>2, <3>3 DEF Current, Batched, SerialisedDoc
  <2> QED
    BY <2>7, <2>8
<1>16. QED
  BY <1>11, <1>12, <1>13, <1>14, <1>15, <1>17

LEMMA RollbackStep ==
    ASSUME IInv, TypeOK', NEW r \in Runs, Rollback(r)
    PROVE  IInv'
<1> USE DEF IInv, TypeOK
<1>1. /\ stage' = [stage EXCEPT ![r] = "aborted"] /\ r \in InFlight
      /\ UNCHANGED <<doc, active, rows, entryBatch>>
      /\ \A p \in Runs \ {r} : UNCHANGED <<seen[p], off[p], del[p], ent[p]>>
  BY DEF Rollback, Goto, Forget, request, committed, ledger
<1>2. InFlight' = InFlight \ {r} /\ Committed' = Committed
  BY <1>1 DEF InFlight, Committed, Waiting, Batched
<1>3. Exclusive'
  BY <1>1, <1>2 DEF Exclusive
<1>4. PendingIsCurrent'
  BY <1>1, SMTT(30) DEF PendingIsCurrent, Current, Of, Entries, Batched
<1>5. OneBatched' /\ OffApart'
  <2>1. off' = [off EXCEPT ![r] = {}]
    BY DEF Rollback, Forget
  <2> QED
    BY <1>1, <2>1 DEF OneBatched, OffApart, Batched
<1>6. QED
  BY <1>1, <1>2, <1>3, <1>4, <1>5, CommittedStateKept

LEMMA OtherStep ==
    ASSUME IInv, TypeOK', (CloseYear \/ ReopenYear) \/ UNCHANGED vars
    PROVE  IInv'
<1>1. UNCHANGED <<stage, doc, seen, off, del, ent, active, rows, entryBatch>>
  BY DEF CloseYear, ReopenYear, SetYear, vars, request, effects, ledger
<1>2. InFlight' = InFlight /\ Committed' = Committed
  BY <1>1 DEF InFlight, Committed
<1>3. Exclusive' /\ PendingIsCurrent' /\ OneBatched' /\ OffApart'
  BY <1>1, <1>2 DEF IInv, Exclusive, PendingIsCurrent, Current, OneBatched, OffApart,
                    Of, Entries, SerialisedDoc
<1>4. QED
  BY <1>1, <1>2, <1>3, CommittedStateKept DEF IInv

(* If something keeps rivals off each document, the invariant is kept.     *)
THEOREM Inductive == Protected => (Spec => []IInv)
<1> SUFFICES ASSUME Protected PROVE Spec => []IInv
  OBVIOUS
<1>1. IInv /\ [Next]_vars => IInv'
  <2> SUFFICES ASSUME IInv, [Next]_vars PROVE IInv'
    OBVIOUS
  <2>1. TypeOK'
    BY TypeInductive DEF IInv
  <2>2. ASSUME NEW r \in Runs, LockForTxn(r) PROVE IInv'
    BY <2>1, <2>2, LockStep
  <2>3. ASSUME NEW r \in Runs, Statement(r) PROVE IInv'
    BY <2>1, <2>3, StatementStep, CommitStep
  <2>4. ASSUME NEW r \in Runs, Rollback(r) PROVE IInv'
    BY <2>1, <2>4, RollbackStep
  <2>5. QED
    BY <2>1, <2>2, <2>3, <2>4, OtherStep DEF Next
<1>2. QED
  BY <1>1, InitIInv, PTL DEF Spec

(* One active batch per document, and a ledger that shows just its lines:  *)
(* the locks are enough without the unique constraints, and the unique     *)
(* constraints without the locks where no column of the locator is NULL.   *)
THEOREM AtMostOneBatch == Protected => (Spec => []OneActiveBatch)
  BY Inductive, PTL DEF IInv

THEOREM LedgerCurrent == Protected => (Spec => []LedgerIsActiveBatch)
  BY Inductive, PTL DEF IInv

(* A run that has its number has a later one than every committed batch.   *)
NumberIsNext ==
    \A r \in Runs :
        stage[r] \in {"numbered", "deactivating", "deactivated"} \cup Batched =>
            \A q \in Committed : doc[q] = doc[r] => revision[q] < revision[r]

RInv == NumberIsNext /\ RevisionsOrderBatches

(* A run that is not committed stays invisible to the numbering.           *)
LEMMA RevisionStep ==
    ASSUME Serialised, IInv, RInv, [Next]_vars
    PROVE  RInv'
<1> USE DEF IInv, TypeOK, Goto, request, effects, ledger, committed
<1>1. doc' = doc /\ TypeOK'
  BY TypeInductive DEF Next, LockForTxn, Statement, AssertFinancialYearOpen,
     NextRevision, FindPreviousBatch, DeactivatePreviousBatch, CreateBatch,
     FindExistingRows, DeleteExistingRows, UpdateEntry, CreateEntry, InsertLines,
     AssertBalanced, Commit, Rollback, CloseYear, ReopenYear, SetYear, vars
<1>2. ASSUME UNCHANGED <<revision, active>>, Committed' = Committed,
             \A r \in Runs : \/ UNCHANGED stage[r]
                             \/ stage[r] \in {"numbered", "deactivating", "deactivated"} \cup Batched
                             \/ stage'[r] \in {"idle", "locked", "open", "aborted"}
      PROVE  RInv'
  <2>1. NumberIsNext'
    BY <1>1, <1>2 DEF RInv, NumberIsNext, Batched
  <2>2. RevisionsOrderBatches'
    BY <1>1, <1>2 DEF RInv, RevisionsOrderBatches
  <2>3. QED
    BY <2>1, <2>2 DEF RInv
<1>3. ASSUME NEW r \in Runs, NextRevision(r) PROVE RInv'
  <2>1. stage[r] = "open" /\ stage' = [stage EXCEPT ![r] = "numbered"] /\ active' = active
    BY <1>3 DEF NextRevision
  <2>2. PICK last \in Revisions(doc[r]) :
           /\ \A n \in Revisions(doc[r]) : n <= last
           /\ revision' = [revision EXCEPT ![r] = last + 1]
    BY <1>3 DEF NextRevision
  <2>3. Committed' = Committed /\ r \notin Committed
    BY <2>1 DEF Committed
  <2>4. last \in Nat
    BY DEF Revisions, Of, Committed
  <2>5. \A q \in Committed : doc[q] = doc[r] => revision[q] < last + 1
    <3> SUFFICES ASSUME NEW q \in Committed, doc[q] = doc[r]
                 PROVE  revision[q] < last + 1
      OBVIOUS
    <3>1. revision[q] \in Revisions(doc[r]) /\ revision[q] \in Nat
      BY DEF Revisions, Of, Committed
    <3>2. QED
      BY <3>1, <2>2, <2>4
  <2>6. \A q \in Runs \ {r} : revision'[q] = revision[q] /\ stage'[q] = stage[q]
    BY <2>1, <2>2
  <2>7. revision'[r] = last + 1
    BY <2>2
  <2>8. NumberIsNext'
    BY <1>1, <2>3, <2>5, <2>6, <2>7, SMTT(30) DEF RInv, NumberIsNext, Committed
  <2>9. RevisionsOrderBatches'
    BY <1>1, <2>1, <2>3, <2>6 DEF RInv, RevisionsOrderBatches, Committed
  <2>10. QED
    BY <2>8, <2>9 DEF RInv
<1>4. ASSUME NEW r \in Runs, Commit(r) PROVE RInv'
  <2>1. /\ stage[r] = "checked" /\ stage' = [stage EXCEPT ![r] = "committed"]
        /\ active' = (active \ off[r]) \cup {r} /\ revision' = revision
    BY <1>4 DEF Commit
  <2>2. Committed' = Committed \cup {r} /\ r \in InFlight /\ r \notin Committed
    BY <2>1 DEF Committed, InFlight, Batched
  <2>3. off[r] = Of(active, doc[r])
    BY <2>1 DEF PendingIsCurrent, Current, Batched
  <2>4. \A q \in Committed : doc[q] = doc[r] => revision[q] < revision[r]
    BY <2>1 DEF RInv, NumberIsNext, Batched
  <2>5. \A q \in InFlight : q # r => doc[q] # doc[r]
    BY <2>2 DEF Exclusive, Serialised, InFlight
  <2>6. NumberIsNext'
    BY <1>1, <2>1, <2>2, <2>5 DEF RInv, NumberIsNext, InFlight, Waiting, Batched
  <2>7. RevisionsOrderBatches'
    <3> SUFFICES ASSUME NEW p \in Committed \cup {r}, NEW q \in Committed \cup {r},
                        doc[p] = doc[q], p # q
                 PROVE  /\ revision[p] # revision[q]
                        /\ p \in active' => revision[q] < revision[p]
      BY <1>1, <2>1, <2>2 DEF RevisionsOrderBatches
    <3>1. revision[p] \in Nat /\ revision[q] \in Nat
      BY DEF Committed
    <3>2. CASE p = r
      BY <3>2, <3>1, <2>4
    <3>3. CASE q = r
      BY <3>3, <3>1, <2>4, <2>1, <2>3 DEF Of
    <3>4. CASE p # r /\ q # r
      BY <3>4, <2>1 DEF RInv, RevisionsOrderBatches
    <3>5. QED
      BY <3>2, <3>3, <3>4
  <2>8. QED
    BY <2>6, <2>7 DEF RInv
<1>5. ASSUME NEW r \in Runs, LockForTxn(r) \/ Rollback(r) PROVE RInv'
  BY <1>5, <1>2 DEF LockForTxn, Rollback, Committed, InFlight, Waiting, Batched
<1>6. ASSUME NEW r \in Runs, Statement(r), ~NextRevision(r), ~Commit(r) PROVE RInv'
  <2>1. /\ UNCHANGED <<revision, active>>
        /\ \E s \in Waiting \cup Batched :
              /\ stage' = [stage EXCEPT ![r] = s]
              /\ \/ stage[r] = "locked" /\ s = "open"
                 \/ stage[r] \in {"numbered", "deactivating", "deactivated"} \cup Batched
    BY <1>6 DEF Statement, AssertFinancialYearOpen, FindPreviousBatch,
       DeactivatePreviousBatch, CreateBatch, FindExistingRows, DeleteExistingRows,
       UpdateEntry, CreateEntry, InsertLines, AssertBalanced, Waiting, Batched
  <2>2. PICK s \in Waiting \cup Batched :
           /\ stage' = [stage EXCEPT ![r] = s]
           /\ \/ stage[r] = "locked" /\ s = "open"
              \/ stage[r] \in {"numbered", "deactivating", "deactivated"} \cup Batched
    BY <2>1
  <2>3. Committed' = Committed
    BY <2>2 DEF Committed, Waiting, Batched
  <2>4. \A p \in Runs :
           \/ UNCHANGED stage[p]
           \/ stage[p] \in {"numbered", "deactivating", "deactivated"} \cup Batched
           \/ stage'[p] \in {"idle", "locked", "open", "aborted"}
    BY <2>2
  <2>5. QED
    BY <2>1, <2>3, <2>4, <1>2
<1>7. CASE CloseYear \/ ReopenYear \/ UNCHANGED vars
  BY <1>7, <1>2 DEF CloseYear, ReopenYear, SetYear, vars, Committed
<1>8. QED
  BY <1>3, <1>4, <1>5, <1>6, <1>7 DEF Next

(* Batch revisions are distinct and the active one is the last.            *)
THEOREM RevisionsOrdered == Serialised => (Spec => []RevisionsOrderBatches)
<1> SUFFICES ASSUME Serialised PROVE Spec => []RevisionsOrderBatches
  OBVIOUS
<1>1. Init => RInv
  BY DEF Init, RInv, NumberIsNext, RevisionsOrderBatches, Committed, Batched
<1>2. Protected
  BY DEF Serialised, Protected
<1>3. QED
  BY <1>1, <1>2, RevisionStep, Inductive, PTL DEF Spec, RInv

(* Readers of the ledger see whole postings replace one another, also when *)
(* nothing but the unique constraints keeps two postings apart.            *)
THEOREM Refinement == Protected => (Spec => ImplementsLedger)
<1> SUFFICES ASSUME Protected PROVE Spec => ImplementsLedger
  OBVIOUS
<1>1. Init => Abstract!Init
  BY DEF Init, Abstract!Init, Of, Committed
<1>2. IInv /\ IInv' /\ [Next]_vars => [Abstract!Next]_Abstract!vars
  <2> SUFFICES ASSUME IInv, IInv', [Next]_vars PROVE [Abstract!Next]_Abstract!vars
    OBVIOUS
  <2> USE DEF IInv, TypeOK, Goto, request, effects, ledger, committed
  <2>1. ASSUME NEW r \in Runs, Commit(r) PROVE Abstract!Next
    <3>1. /\ stage[r] = "checked" /\ stage' = [stage EXCEPT ![r] = "committed"]
          /\ rows' = (rows \ del[r]) \cup {r} /\ doc' = doc
      BY <2>1 DEF Commit
    <3>2. Committed' = Committed \cup {r} /\ r \notin Committed
      BY <3>1 DEF Committed
    <3>3. del[r] = Of(rows, doc[r]) /\ doc[r] \in Docs
      BY <3>1 DEF PendingIsCurrent, Current
    <3> DEFINE d == doc[r]
    <3>a. \A c \in Docs : Of(rows, c)' = IF c = d THEN {r} ELSE Of(rows, c)
      BY <3>1, <3>3 DEF Of
    <3>b. d \in Docs
      BY <3>3
    <3> HIDE DEF d
    <3>4. [c \in Docs |-> Of(rows, c)]'
             = [[c \in Docs |-> Of(rows, c)] EXCEPT ![d] = {r}]
      BY <3>a, <3>b
    <3>5. Abstract!Post(doc[r], r)
      BY <3>2, <3>4 DEF Abstract!Post, d
    <3>6. QED
      BY <3>3, <3>5 DEF Abstract!Next
  <2>2. ASSUME UNCHANGED <<doc, rows>>, Committed' = Committed
        PROVE  UNCHANGED Abstract!vars
    BY <2>2 DEF Abstract!vars, Of
  <2>3. ASSUME NEW r \in Runs, LockForTxn(r) \/ Rollback(r) PROVE UNCHANGED Abstract!vars
    BY <2>3, <2>2 DEF LockForTxn, Rollback, Committed, InFlight, Waiting, Batched
  <2>4. ASSUME NEW r \in Runs, Statement(r), ~Commit(r) PROVE UNCHANGED Abstract!vars
    BY <2>4, <2>2 DEF Statement, AssertFinancialYearOpen, NextRevision,
       FindPreviousBatch, DeactivatePreviousBatch, CreateBatch, FindExistingRows,
       DeleteExistingRows, UpdateEntry, CreateEntry, InsertLines, AssertBalanced,
       Committed
  <2>5. CASE CloseYear \/ ReopenYear \/ UNCHANGED vars
    BY <2>5, <2>2 DEF CloseYear, ReopenYear, SetYear, vars, Committed
  <2>6. QED
    BY <2>1, <2>3, <2>4, <2>5 DEF Next
<1>3. QED
  BY <1>1, <1>2, Inductive, PTL DEF Spec, ImplementsLedger, Abstract!Spec
-----------------------------------------------------------------------------
(* A run gets past the in-memory guard only with lines that balance, and   *)
(* only such runs write to the ledger, whatever locks they hold.           *)
Even == {v \in JlInputs : Dr(v) = Cr(v)}

GuardedInput ==
    \A r \in Runs : stage[r] \in {"lined", "checked", "committed"} => input[r] \in Even

RowsCommitted == rows \subseteq Committed

BInv == TypeOK /\ GuardedInput /\ RowsCommitted

LEMMA BalancedSets ==
    ASSUME NEW S, \A q \in S : input[q] \in Even
    PROVE  Debits(S) = Credits(S)
<1>1. [q \in S |-> Dr(input[q])] = [q \in S |-> Cr(input[q])]
  BY DEF Even
<1> QED
  BY <1>1 DEF Debits, Credits

LEMMA NextGuarded ==
    ASSUME BInv, [Next]_vars
    PROVE  BInv'
<1> USE DEF Goto, request, effects, ledger, committed
<1>0. TypeOK'
  BY TypeInductive DEF BInv
<1>1. ASSUME NEW r \in Runs, Commit(r) PROVE BInv'
  <2>1. /\ stage[r] = "checked" /\ stage' = [stage EXCEPT ![r] = "committed"]
        /\ rows' = (rows \ del[r]) \cup {r} /\ input' = input
    BY <1>1 DEF Commit
  <2>2. Committed' = Committed \cup {r}
    BY <2>1 DEF BInv, TypeOK, Committed
  <2>3. GuardedInput'
    BY <2>1 DEF BInv, TypeOK, GuardedInput
  <2> QED
    BY <1>0, <2>1, <2>2, <2>3 DEF BInv, RowsCommitted
<1>2. ASSUME NEW r \in Runs, InsertLines(r) PROVE BInv'
  <2>1. /\ stage[r] = "entered" /\ stage' = [stage EXCEPT ![r] = "lined"]
        /\ input[r] \in Even /\ UNCHANGED <<input, rows>>
    BY <1>2 DEF InsertLines, Even, BInv, TypeOK
  <2>2. GuardedInput' /\ RowsCommitted'
    BY <2>1 DEF BInv, TypeOK, GuardedInput, RowsCommitted, Committed
  <2> QED
    BY <1>0, <2>2 DEF BInv
<1>3. ASSUME UNCHANGED <<input, rows>>,
             \A r \in Runs : \/ stage'[r] = stage[r]
                             \/ stage[r] # "committed"
                                /\ stage'[r] \notin {"lined", "checked", "committed"}
                             \/ stage[r] = "lined" /\ stage'[r] = "checked"
      PROVE  BInv'
  <2>1. GuardedInput' /\ RowsCommitted'
    BY <1>3 DEF BInv, GuardedInput, RowsCommitted, Committed
  <2> QED
    BY <1>0, <2>1 DEF BInv
<1>4. ASSUME NEW r \in Runs, LockForTxn(r) \/ Rollback(r) PROVE BInv'
  BY <1>3, <1>4 DEF LockForTxn, Rollback, BInv, TypeOK, InFlight, Waiting, Batched
<1>5. ASSUME NEW r \in Runs, Statement(r), ~Commit(r), ~InsertLines(r) PROVE BInv'
  <2>1. UNCHANGED <<input, rows>>
    BY <1>5 DEF Statement, AssertFinancialYearOpen, NextRevision, FindPreviousBatch,
       DeactivatePreviousBatch, CreateBatch, FindExistingRows, DeleteExistingRows,
       UpdateEntry, CreateEntry, AssertBalanced
  <2>2. \E s \in Waiting \cup Batched :
           /\ stage' = [stage EXCEPT ![r] = s] /\ stage[r] # "committed"
           /\ s \in {"lined", "checked"} => stage[r] = "lined" /\ s = "checked"
    BY <1>5 DEF Statement, AssertFinancialYearOpen, NextRevision, FindPreviousBatch,
       DeactivatePreviousBatch, CreateBatch, FindExistingRows, DeleteExistingRows,
       UpdateEntry, CreateEntry, AssertBalanced, Waiting, Batched
  <2> QED
    BY <1>3, <2>1, <2>2 DEF BInv, TypeOK, Waiting, Batched
<1>6. CASE CloseYear \/ ReopenYear \/ UNCHANGED vars
  BY <1>3, <1>6 DEF CloseYear, ReopenYear, SetYear, vars
<1> QED
  BY <1>1, <1>2, <1>4, <1>5, <1>6 DEF Next

LEMMA AlwaysGuarded == Spec => []BInv
<1>1. Init => BInv
  BY DEF Init, BInv, TypeOK, Stages, Waiting, Entries, GuardedInput, RowsCommitted
<1> QED
  BY <1>1, NextGuarded, PTL DEF Spec

(* Every document's lines in the ledger balance, for any number of runs    *)
(* of any documents and whether or not their locks keep them apart.        *)
THEOREM LedgerBalances == Spec => []Balanced
<1>1. BInv => Balanced
  BY BalancedSets DEF BInv, GuardedInput, RowsCommitted, Committed, Balanced, Of
<1> QED
  BY <1>1, AlwaysGuarded, PTL

(* _assert_balanced, which sums what the database shows under the locator, *)
(* never finds what the in-memory guard has let through out of balance.    *)
SecondCheckPasses ==
    \A r \in Runs : stage[r] = "lined" => Debits(Visible(r)) = Credits(Visible(r))

(* The second balance check never fails: it guards against no interleaving.*)
THEOREM SecondCheckNeverFails == Spec => []SecondCheckPasses
<1>1. BInv => SecondCheckPasses
  BY BalancedSets DEF BInv, GuardedInput, RowsCommitted, Committed, SecondCheckPasses,
                      Visible, Of
<1> QED
  BY <1>1, AlwaysGuarded, PTL
=============================================================================
