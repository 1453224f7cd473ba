------------------------- MODULE ContractWriterProofs -------------------------
(***************************************************************************)
(* The contract file writer is right for any number of racing processes    *)
(* and any contracts: the file holds what one session would have written,  *)
(* and every write happens at one instant (ContractFile).                  *)
(***************************************************************************)
EXTENDS ContractWriter, TLAPS

Under == {"locked", "writing", "written", "unlocking"}

\* A writer past its lock has it until it unlocks.
Exclusive == \A w \in Writer : pc[w] \in Under => holder = w

\* What a writer has asked, decided and written, by where it is.
Progress ==
  \A w \in Writer :
    /\ pc[w] = "idle" <=> task[w] = NoTask
    /\ pc[w] \in {"idle", "waiting", "locked", "writing", "written"} <=>
         answer[w] = "none"
    /\ pc[w] \in {"idle", "waiting", "locked", "writing"} => w \notin applied
    /\ pc[w] = "written" => w \in applied

\* What is about to be written was decided from what the file holds: no other
\* writer has changed it since. This is what the lock is for.
Fresh == \A w \in Writer : pc[w] = "writing" => next[w] \in NextBytes(doc, task[w])

\* A file that was written is not blank again.
NotBlank == doc = Blank => applied = {}

Inv == TypeOK /\ Exclusive /\ Progress /\ Fresh /\ NotBlank /\ AsOneSession

-----------------------------------------------------------------------------
(* The documents. *)

LEMMA DocumentKinds ==
  /\ \A d \in Contract : d # Blank /\ d # Corrupt
  /\ Blank # Corrupt
  /\ NoTask \notin Task
  /\ \A t \in Task : t.contract \in Contract /\ t.mode \in Mode
BY DocumentsAssumption DEF Contract, Blank, Corrupt, NoTask, Task, Mode

\* A merge without a conflict records each identity once.
LEMMA MergeIsContract ==
  ASSUME NEW existing \in Contract, NEW new \in Contract, ~Conflict(existing, new)
  PROVE  /\ Merge(existing, new) \in Contract
         /\ Merge(existing, new).interactions =
              new.interactions \cup existing.interactions
         /\ Merge(existing, new).parties = new.parties
         /\ existing.parties = new.parties
<1>1. OneEach(new.interactions \cup existing.interactions)
  <2> SUFFICES ASSUME NEW i \in new.interactions \cup existing.interactions,
                      NEW j \in new.interactions \cup existing.interactions,
                      i.identity = j.identity
               PROVE  i = j
    BY DEF OneEach
  <2>1. i \in Interaction /\ j \in Interaction
    BY DEF Contract
  <2>2. i.record = j.record => i = j
    BY <2>1 DEF Interaction
  <2> QED
    BY <2>2 DEF Contract, OneEach, Conflict
<1> QED
  BY <1>1 DEF Contract, Merge, Conflict

\* What next_bytes answers is a document, never a blank one.
LEMMA NextBytesDocument ==
  ASSUME NEW d \in Document, NEW t \in Task, NEW bytes \in NextBytes(d, t)
  PROVE  bytes \in Document /\ bytes # Blank
<1>1. CASE t.mode = "overwrite" \/ d = Blank
  BY <1>1, DocumentKinds DEF NextBytes, Document
<1>2. CASE t.mode # "overwrite" /\ d = Corrupt
  BY <1>2, DocumentKinds DEF NextBytes, Document
<1>3. CASE t.mode # "overwrite" /\ d # Blank /\ d # Corrupt
  <2>1. d \in Contract /\ t.contract \in Contract
    BY <1>3, DocumentKinds DEF Document
  <2>2. ~Conflict(d, t.contract) /\ bytes = Merge(d, t.contract)
    BY <1>3 DEF NextBytes
  <2> QED
    BY <2>1, <2>2, MergeIsContract, DocumentKinds DEF Document
<1> QED
  BY <1>1, <1>2, <1>3

-----------------------------------------------------------------------------
(* The invariant. *)

LEMMA InvInit == ASSUME Init PROVE Inv
<1>1. TypeOK
  BY DocumentsAssumption, DocumentKinds DEF Init, TypeOK, Step, Document
<1> QED
  BY <1>1 DEF Init, Inv, Exclusive, Under, Progress, Fresh, NotBlank, AsOneSession

LEMMA InvOpen ==
  ASSUME Inv, NEW w \in Writer, NEW contract \in Contracts, NEW mode \in Mode,
         Open(w, contract, mode)
  PROVE  Inv'
<1> USE DEF Inv, Open
<1>1. [contract |-> contract, mode |-> mode] \in Task
  BY DEF Task
<1>2. TypeOK'
  BY <1>1 DEF TypeOK, Step
<1>3. Exclusive'
  BY DEF Exclusive, Under, TypeOK
<1>4. w \notin applied
  BY DEF Progress
<1>5. Progress'
  BY <1>1, DocumentKinds DEF Progress, TypeOK
<1>6. Fresh' /\ NotBlank'
  BY DEF Fresh, NotBlank, TypeOK
<1>7. AsOneSession'
  <2>1. \A v \in applied : task'[v] = task[v]
    BY <1>4 DEF TypeOK
  <2> QED
    BY <2>1 DEF AsOneSession
<1> QED
  BY <1>2, <1>3, <1>5, <1>6, <1>7

\* A step that leaves the file and what was asked of it alone.
LEMMA FileUnchanged ==
  ASSUME Inv, UNCHANGED <<doc, task, first, applied>>
  PROVE  NotBlank' /\ AsOneSession'
BY DEF Inv, NotBlank, AsOneSession

LEMMA InvUpdateQuiet ==
  ASSUME Inv, NEW w \in Writer,
         Lock(w) \/ Read(w) \/ ReadRefused(w) \/ SetLen(w) \/ Unlock(w)
  PROVE  Inv'
<1> USE DEF Inv
<1>1. NotBlank' /\ AsOneSession'
  BY FileUnchanged DEF Lock, Read, ReadRefused, SetLen, Unlock
<1>2. CASE Lock(w)
  <2>1. TypeOK'
    BY <1>2 DEF Lock, TypeOK, Step
  <2>2. Exclusive'
    BY <1>2, WriterAssumption DEF Lock, TypeOK, Exclusive, Under
  <2>3. Progress' /\ Fresh'
    BY <1>2 DEF Lock, TypeOK, Progress, Fresh
  <2> QED
    BY <1>1, <2>1, <2>2, <2>3
<1>3. CASE Read(w)
  <2>1. task[w] \in Task
    BY <1>3 DEF Read, TypeOK, Progress
  <2>2. PICK bytes \in NextBytes(doc, task[w]) : next' = [next EXCEPT ![w] = bytes]
    BY <1>3 DEF Read
  <2>3. TypeOK'
    BY <1>3, <2>1, <2>2, NextBytesDocument DEF Read, TypeOK, Step
  <2>4. Exclusive' /\ Progress'
    BY <1>3 DEF Read, TypeOK, Exclusive, Under, Progress
  <2>5. Fresh'
    BY <1>3, <2>2 DEF Read, TypeOK, Fresh
  <2> QED
    BY <1>1, <2>3, <2>4, <2>5
<1>4. CASE ReadRefused(w)
  BY <1>1, <1>4 DEF ReadRefused, TypeOK, Step, Exclusive, Under, Progress, Fresh
<1>5. CASE SetLen(w)
  BY <1>1, <1>5 DEF SetLen, TypeOK, Step, Exclusive, Under, Progress, Fresh
<1>6. CASE Unlock(w)
  <2>1. TypeOK' /\ Progress' /\ Fresh'
    BY <1>6 DEF Unlock, TypeOK, Step, Progress, Fresh
  <2>2. Exclusive'
    BY <1>6 DEF Unlock, TypeOK, Exclusive, Under
  <2> QED
    BY <1>1, <2>1, <2>2
<1> QED
  BY <1>2, <1>3, <1>4, <1>5, <1>6

\* The instant of the write.
LEMMA InvWriteAll ==
  ASSUME Inv, NEW w \in Writer, WriteAll(w)
  PROVE  Inv'
<1> USE DEF Inv, WriteAll
<1>1. task[w] \in Task /\ w \notin applied
  BY DEF TypeOK, Progress
<1>2. next[w] \in NextBytes(doc, task[w])
  BY DEF Fresh
<1>3. doc' \in Document /\ doc' # Blank
  BY <1>1, <1>2, NextBytesDocument DEF TypeOK
<1>4. TypeOK'
  BY <1>3 DEF TypeOK, Step, Document
<1>5. Exclusive' /\ Progress'
  BY DEF TypeOK, Exclusive, Under, Progress
<1>6. Fresh'
  \* No other writer is about to write: w has the lock.
  <2>1. \A v \in Writer \ {w} : pc[v] # "writing"
    BY DEF Exclusive, Under
  <2> QED
    BY <2>1 DEF Fresh, TypeOK
<1>7. AsOneSession'
  <2> SUFFICES ASSUME doc' # Corrupt, \A v \in applied' : task[v].mode = "merge"
               PROVE  /\ doc'.interactions =
                           first.interactions \cup
                             UNION {task[v].contract.interactions : v \in applied'}
                      /\ \A v \in applied' : task[v].contract.parties = doc'.parties
    BY DEF AsOneSession
  <2> DEFINE mine == task[w].contract
             Of(set) == UNION {task[v].contract.interactions : v \in set}
  <2>1. task[w].mode = "merge" /\ \A v \in applied : task[v].mode = "merge"
    OBVIOUS
  <2>2. Of(applied') = mine.interactions \cup Of(applied)
    OBVIOUS
  <2>3. mine \in Contract
    BY <1>1, DocumentKinds
  <2>4. doc # Corrupt
    BY <1>2, <2>1, DocumentKinds DEF NextBytes
  <2>5. /\ doc.interactions = first.interactions \cup Of(applied)
        /\ \A v \in applied : task[v].contract.parties = doc.parties
    BY <2>1, <2>4 DEF AsOneSession
  <2>6. CASE doc = Blank
    <3>1. doc' = mine
      BY <1>2, <2>6 DEF NextBytes
    <3>2. applied = {}
      BY <2>6 DEF NotBlank
    <3>3. doc.interactions = {}
      BY <2>6 DEF Blank
    <3>4. first.interactions = {}
      BY <2>5, <3>3
    <3> QED
      BY <2>2, <3>1, <3>2, <3>4
  <2>7. CASE doc # Blank
    <3>1. ~Conflict(doc, mine) /\ doc' = Merge(doc, mine)
      BY <1>2, <2>1, <2>4, <2>7 DEF NextBytes
    <3>2. doc \in Contract
      BY <2>4, <2>7 DEF TypeOK, Document
    <3>3. /\ doc'.interactions = mine.interactions \cup doc.interactions
          /\ doc'.parties = mine.parties /\ doc.parties = mine.parties
      BY <2>3, <3>1, <3>2, MergeIsContract
    <3>4. doc'.interactions = first.interactions \cup Of(applied')
      BY <2>2, <2>5, <3>3
    <3> QED
      BY <2>5, <3>3, <3>4
  <2> QED
    BY <2>6, <2>7
<1>8. NotBlank'
  BY <1>3 DEF NotBlank
<1> QED
  BY <1>4, <1>5, <1>6, <1>7, <1>8

\* A call fails, or its process ends.
LEMMA InvFail ==
  ASSUME Inv, NEW w \in Writer, Fail(w) \/ Crash(w)
  PROVE  Inv'
<1> USE DEF Inv
<1>1. doc' = doc \/ (doc' = Corrupt /\ pc[w] = "writing")
  BY DEF Fail, Crash, Interrupted
<1>2. TypeOK'
  <2>1. doc' \in Document
    BY <1>1 DEF TypeOK, Document
  <2>2. tail' \in BOOLEAN /\ next' \in [Writer -> Document]
    BY DEF Fail, Crash, Interrupted, TypeOK, Document
  <2>3. /\ answer' \in [Writer -> {"none", "written", "refused", "failed", "lost"}]
        /\ pc' \in [Writer -> Step]
        /\ holder' \in Writer \cup {NoWriter}
        /\ UNCHANGED <<task, first, applied>>
    BY DEF Fail, Crash, TypeOK, Step
  <2> QED
    BY <2>1, <2>2, <2>3 DEF TypeOK
<1>3. Exclusive'
  <2>1. CASE Fail(w)
    BY <2>1 DEF Fail, TypeOK, Exclusive, Under
  <2>2. CASE Crash(w)
    BY <2>2 DEF Crash, TypeOK, Exclusive, Under
  <2> QED
    BY <2>1, <2>2
<1>4. Progress'
  <2>1. CASE Fail(w)
    BY <2>1 DEF Fail, TypeOK, Progress
  <2>2. CASE Crash(w)
    BY <2>2 DEF Crash, TypeOK, Progress
  <2> QED
    BY <2>1, <2>2
<1>5. Fresh'
  <2>1. pc'[w] # "writing"
    BY DEF Fail, Crash, TypeOK
  <2>2. \A v \in Writer \ {w} : pc'[v] = pc[v] /\ next'[v] = next[v]
    BY DEF Fail, Crash, Interrupted, TypeOK
  <2>3. pc[w] = "writing" => \A v \in Writer \ {w} : pc[v] # "writing"
    BY DEF Exclusive, Under
  <2>4. task' = task
    BY DEF Fail, Crash
  <2> QED
    BY <1>1, <2>1, <2>2, <2>3, <2>4 DEF Fresh
<1>6. NotBlank' /\ AsOneSession'
  <2>1. UNCHANGED <<task, first, applied>>
    BY DEF Fail, Crash
  <2>2. CASE doc' = doc
    BY <2>1, <2>2, FileUnchanged
  <2>3. CASE doc' = Corrupt
    BY <2>1, <2>3, DocumentKinds DEF NotBlank, AsOneSession
  <2> QED
    BY <1>1, <2>2, <2>3
<1> QED
  BY <1>2, <1>3, <1>4, <1>5, <1>6

LEMMA InvNext == ASSUME Inv, [Next]_vars PROVE Inv'
<1>1. CASE \E w \in Writer, contract \in Contracts, mode \in Mode :
             Open(w, contract, mode)
  BY <1>1, InvOpen
<1>2. CASE \E w \in Writer : Update(w)
  BY <1>2, InvUpdateQuiet, InvWriteAll DEF Update
<1>3. CASE \E w \in Writer : Fail(w) \/ Crash(w)
  BY <1>3, InvFail
<1>4. CASE Over \/ UNCHANGED vars
  BY <1>4 DEF Over, vars, Inv, TypeOK, Exclusive, Progress, Fresh, NotBlank,
              AsOneSession
<1> QED
  BY <1>1, <1>2, <1>3, <1>4 DEF Next

\* The invariant holds of every behaviour of the writers.
THEOREM Invariance == Spec => []Inv
<1>1. Init => Inv
  BY InvInit
<1>2. Inv /\ [Next]_vars => Inv'
  BY InvNext
<1> QED
  BY <1>1, <1>2, PTL DEF Spec

\* The types of the variables: what is in the file is always a document in
\* which no identity is recorded twice, or the remains of a write cut off.
THEOREM TypeCorrect == Spec => []TypeOK
<1>1. Inv => TypeOK
  BY DEF Inv
<1> QED
  BY <1>1, Invariance, PTL

\* ADR 0065 decision 5: however many processes merge into the file, in any
\* order, it holds what one session recording all of it would have written.
THEOREM MergedAsOne == Spec => []AsOneSession
<1>1. Inv => AsOneSession
  BY DEF Inv
<1> QED
  BY <1>1, Invariance, PTL

-----------------------------------------------------------------------------
(* The refinement: each write happens at one instant. *)

\* The two modules mean the same by a document and by what is written over it.
LEMMA SameDocuments ==
  /\ File!NoTask = NoTask /\ File!Corrupt = Corrupt /\ File!Mode = Mode
  /\ \A d, t : /\ File!NextBytes(d, t) = NextBytes(d, t)
               /\ File!Refuses(d, t) <=> Refuses(d, t)
<1>1. File!Blank = Blank /\ File!Corrupt = Corrupt
  BY DEF File!Blank, Blank, File!Corrupt, Corrupt
<1>2. File!NoTask = NoTask /\ File!Mode = Mode
  BY <1>1 DEF File!NoTask, NoTask, File!Mode, Mode
<1>3. \A d, e : (File!Conflict(d, e) <=> Conflict(d, e)) /\ File!Merge(d, e) = Merge(d, e)
  BY DEF File!Conflict, Conflict, File!Merge, Merge
<1> QED
  BY <1>1, <1>2, <1>3 DEF File!NextBytes, NextBytes, File!Refuses, Refuses

LEMMA FileStarts == ASSUME Init PROVE File!FileInit
BY SameDocuments DEF Init, File!FileInit

LEMMA FileSteps ==
  ASSUME Inv, [Next]_vars
  PROVE  [File!FileNext]_(File!fileVars)
<1> USE DEF Inv
<1>1. ASSUME NEW w \in Writer, NEW contract \in Contracts, NEW mode \in Mode,
             Open(w, contract, mode)
      PROVE  File!Ask(w, contract, mode)
  BY <1>1, SameDocuments DEF Open, Progress, File!Ask
<1>2. ASSUME NEW w \in Writer, Lock(w) \/ Read(w) \/ Unlock(w)
      PROVE  UNCHANGED File!fileVars
  BY <1>2 DEF Lock, Read, Unlock, File!fileVars
<1>3. ASSUME NEW w \in Writer, pc[w] \in {"waiting", "locked", "writing", "written"}
      PROVE  File!Asking(w)
  BY <1>3, SameDocuments DEF Progress, File!Asking
<1>4. ASSUME NEW w \in Writer, ReadRefused(w)
      PROVE  File!Refuse(w)
  <2>1. File!Asking(w) /\ w \notin applied
    BY <1>3, <1>4 DEF ReadRefused, Progress
  <2> QED
    BY <1>4, <2>1, SameDocuments DEF ReadRefused, File!Refuse
<1>5. ASSUME NEW w \in Writer, WriteAll(w)
      PROVE  File!Apply(w)
  <2>1. File!Asking(w) /\ w \notin applied
    BY <1>3, <1>5 DEF WriteAll, Progress
  <2>2. next[w] \in NextBytes(doc, task[w])
    BY <1>5 DEF WriteAll, Fresh
  <2> QED
    BY <1>5, <2>1, <2>2, SameDocuments DEF WriteAll, File!Apply
<1>6. ASSUME NEW w \in Writer, SetLen(w)
      PROVE  File!Confirm(w)
  <2>1. File!Asking(w) /\ w \in applied
    BY <1>3, <1>6 DEF SetLen, Progress
  <2> QED
    BY <1>6, <2>1 DEF SetLen, File!Confirm
<1>7. ASSUME NEW w \in Writer, Fail(w) \/ Crash(w)
      PROVE  File!Fail(w) \/ UNCHANGED File!fileVars
  <2>1. CASE pc[w] = "unlocking"
    <3>1. answer[w] # "none"
      BY <2>1 DEF Progress
    <3>2. answer' = answer
      BY <1>7, <2>1, <3>1 DEF Fail, Crash, TypeOK
    <3>3. doc' = doc /\ tail' = tail /\ UNCHANGED <<task, applied>>
      BY <1>7, <2>1 DEF Fail, Crash, Interrupted
    <3> QED
      BY <3>2, <3>3 DEF File!fileVars
  <2>2. CASE pc[w] # "unlocking"
    <3>1. pc[w] \in {"waiting", "locked", "writing", "written"}
      BY <1>7, <2>2 DEF Fail, Crash
    <3>2. File!Asking(w) /\ answer[w] = "none"
      BY <1>3, <3>1 DEF Progress
    <3>3. w \in applied <=> pc[w] = "written"
      BY <3>1 DEF Progress
    <3>4. /\ doc' \in IF w \in applied THEN {doc} ELSE {doc, Corrupt}
          /\ UNCHANGED <<task, applied>>
      BY <1>7, <3>1, <3>3 DEF Fail, Crash, Interrupted
    <3>5. (~tail)' \in IF w \in applied THEN {~tail, TRUE} ELSE {~tail}
      <4>1. tail' = tail \/ (w \in applied /\ tail' = FALSE)
        BY <1>7, <3>1, <3>3 DEF Fail, Crash, Interrupted
      <4>2. CASE tail' = tail
        BY <4>2
      <4>3. CASE w \in applied /\ tail' = FALSE
        <5>1. (~tail)' = TRUE
          BY <4>3
        <5> QED
          BY <4>3, <5>1
      <4> QED
        BY <4>1, <4>2, <4>3
    <3>6. answer' \in {[answer EXCEPT ![w] = a] : a \in {"failed", "lost"}}
      BY <1>7, <3>2 DEF Fail, Crash, TypeOK
    <3> QED
      BY <3>2, <3>4, <3>5, <3>6, SameDocuments DEF File!Fail
  <2> QED
    BY <2>1, <2>2
<1>8. ASSUME NEW w \in Writer, Update(w)
      PROVE  [File!FileNext]_(File!fileVars)
  BY <1>2, <1>4, <1>5, <1>6, <1>8 DEF Update, File!FileNext
<1>9. CASE Over \/ UNCHANGED vars
  BY <1>9 DEF Over, vars, File!fileVars
<1> QED
  BY <1>1, <1>7, <1>8, <1>9, SameDocuments DEF Next, File!FileNext

\* ADR 0065 decisions 1, 3 and 6: the writer, with its failing calls and dying
\* processes, implements the file that each write changes at one instant.
THEOREM Atomicity == Spec => WritesAreAtomic
<1>1. Init => File!FileInit
  BY FileStarts
<1>2. Inv /\ [Next]_vars => [File!FileNext]_(File!fileVars)
  BY FileSteps
<1> QED
  BY <1>1, <1>2, Invariance, PTL DEF Spec, WritesAreAtomic, File!FileSpec

=============================================================================
