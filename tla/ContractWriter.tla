---------------------------- MODULE ContractWriter ----------------------------
(***************************************************************************)
(* The native contract file writer (cli/src/contract_files.rs), run by     *)
(* several processes on one file: the workers of a test runner, each with  *)
(* an engine of its own, end their sessions with `finalise` and a `write`. *)
(*                                                                         *)
(* A step is one call on the file: open, lock, read, write, resize, unlock.*)
(* Any of them may fail, and a process may end at any of them, which       *)
(* releases its lock. A writer stands for one finalise call.               *)
(***************************************************************************)
EXTENDS ContractMerge

VARIABLES
  \* The file.
  doc,     \* what a reader finds in it
  tail,    \* whether bytes of a longer document follow
  holder,  \* the writer that holds its lock, or NoWriter
  \* The writers.
  pc,      \* "idle", "waiting", "locked", "writing", "written", "unlocking"
           \* or "ended"
  task,    \* the contract and the mode asked for
  next,    \* the bytes to write
  answer,  \* "none", "written", "refused", "failed"; "lost" with the process
  \* History, read by no action: what the file held first, and the writers
  \* that have written it.
  first, applied

vars == <<doc, tail, holder, pc, task, next, answer, first, applied>>

NoWriter == "no writer"
Step     == {"idle", "waiting", "locked", "writing", "written", "unlocking",
             "ended"}

ASSUME WriterAssumption == NoWriter \notin Writer

Init ==
  /\ doc \in Initial
  /\ tail = FALSE
  /\ holder = NoWriter
  /\ pc = [w \in Writer |-> "idle"]
  /\ task = [w \in Writer |-> NoTask]
  /\ next = [w \in Writer |-> Blank]
  /\ answer = [w \in Writer |-> "none"]
  /\ first = doc
  /\ applied = {}

-----------------------------------------------------------------------------
\* Mutant of Open: the file is truncated as it is opened.
OpenTruncating(w, contract, mode) ==
  /\ pc[w] = "idle"
  /\ pc' = [pc EXCEPT ![w] = "waiting"]
  /\ task' = [task EXCEPT ![w] = [contract |-> contract, mode |-> mode]]
  /\ doc' = Blank
  /\ UNCHANGED <<tail, holder, next, answer, first, applied>>

\* update, and the open: an absent file is created and has nothing in it, one
\* that is there is not truncated.
Open(w, contract, mode) ==
  /\ pc[w] = "idle"
  /\ pc' = [pc EXCEPT ![w] = "waiting"]
  /\ task' = [task EXCEPT ![w] = [contract |-> contract, mode |-> mode]]
  /\ UNCHANGED <<doc, tail, holder, next, answer, first, applied>>

\* Mutant of Lock: the lock is not exclusive.
LockShared(w) ==
  /\ pc[w] = "waiting"
  /\ holder' = w
  /\ pc' = [pc EXCEPT ![w] = "locked"]
  /\ UNCHANGED <<doc, tail, task, next, answer, first, applied>>

Lock(w) ==
  /\ pc[w] = "waiting"
  /\ holder = NoWriter
  /\ holder' = w
  /\ pc' = [pc EXCEPT ![w] = "locked"]
  /\ UNCHANGED <<doc, tail, task, next, answer, first, applied>>

\* rewrite: read the file and ask the kernel what to write.
Read(w) ==
  /\ pc[w] = "locked"
  /\ \E bytes \in NextBytes(doc, task[w]) : next' = [next EXCEPT ![w] = bytes]
  /\ pc' = [pc EXCEPT ![w] = "writing"]
  /\ UNCHANGED <<doc, tail, holder, task, answer, first, applied>>

\* The kernel refuses: the error is the answer.
ReadRefused(w) ==
  /\ pc[w] = "locked"
  /\ Refuses(doc, task[w])
  /\ answer' = [answer EXCEPT ![w] = "refused"]
  /\ pc' = [pc EXCEPT ![w] = "unlocking"]
  /\ UNCHANGED <<doc, tail, holder, task, next, first, applied>>

\* write_all from the start of the file: what was longer is not gone yet.
WriteAll(w) ==
  /\ pc[w] = "writing"
  /\ doc' = next[w]
  /\ tail' \in BOOLEAN
  /\ next' = [next EXCEPT ![w] = Blank]
  /\ applied' = applied \cup {w}
  /\ pc' = [pc EXCEPT ![w] = "written"]
  /\ UNCHANGED <<holder, task, answer, first>>

\* set_len and sync_all: the update is done.
SetLen(w) ==
  /\ pc[w] = "written"
  /\ tail' = FALSE
  /\ answer' = [answer EXCEPT ![w] = "written"]
  /\ pc' = [pc EXCEPT ![w] = "unlocking"]
  /\ UNCHANGED <<doc, holder, task, next, first, applied>>

Unlock(w) ==
  /\ pc[w] = "unlocking"
  /\ holder' = NoWriter
  /\ pc' = [pc EXCEPT ![w] = "ended"]
  /\ UNCHANGED <<doc, tail, task, next, answer, first, applied>>

\* What an interrupted call leaves in the file: write_all may have written a
\* part, and set_len may have been done.
Interrupted(w) ==
  /\ next' = [next EXCEPT ![w] = Blank]
  /\ doc' \in IF pc[w] = "writing" THEN {doc, Corrupt} ELSE {doc}
  /\ tail' \in IF pc[w] = "written" THEN {tail, FALSE} ELSE {tail}

\* A call fails: open or lock before there is a lock, the others under it.
Fail(w) ==
  /\ pc[w] \in {"waiting", "locked", "writing", "written"}
  /\ Interrupted(w)
  /\ answer' = [answer EXCEPT ![w] = "failed"]
  /\ pc' = [pc EXCEPT ![w] = IF @ = "waiting" THEN "ended" ELSE "unlocking"]
  /\ UNCHANGED <<holder, task, first, applied>>

\* Mutant of Crash: the lock is a file, and stays.
CrashKeepingLock(w) ==
  /\ pc[w] \in {"waiting", "locked", "writing", "written", "unlocking"}
  /\ Interrupted(w)
  /\ answer' = [answer EXCEPT ![w] = IF @ = "none" THEN "lost" ELSE @]
  /\ pc' = [pc EXCEPT ![w] = "ended"]
  /\ UNCHANGED <<holder, task, first, applied>>

\* The process ends, and the operating system takes its lock back.
Crash(w) ==
  /\ pc[w] \in {"waiting", "locked", "writing", "written", "unlocking"}
  /\ Interrupted(w)
  /\ answer' = [answer EXCEPT ![w] = IF @ = "none" THEN "lost" ELSE @]
  /\ holder' = IF holder = w THEN NoWriter ELSE holder
  /\ pc' = [pc EXCEPT ![w] = "ended"]
  /\ UNCHANGED <<task, first, applied>>

\* Every writer has ended.
Over == (\A w \in Writer : pc[w] = "ended") /\ UNCHANGED vars

-----------------------------------------------------------------------------
Update(w) ==
  \/ Lock(w) \/ Read(w) \/ ReadRefused(w) \/ WriteAll(w) \/ SetLen(w)
  \/ Unlock(w)

Next ==
  \/ \E w \in Writer :
       \/ \E contract \in Contracts, mode \in Mode : Open(w, contract, mode)
       \/ Update(w) \/ Fail(w) \/ Crash(w)
  \/ Over

Spec == Init /\ [][Next]_vars

(* Fairness: a process goes on with its update. It need not be the next to  *)
(* get the lock, only not to be left out when nobody else asks for it.      *)
FairSpec == Spec /\ \A w \in Writer : WF_vars(Update(w))

-----------------------------------------------------------------------------
(* Properties. *)

\* The types of the variables; an identity is never recorded twice in the file.
TypeOK ==
  /\ doc \in Document
  /\ tail \in BOOLEAN
  /\ holder \in Writer \cup {NoWriter}
  /\ pc \in [Writer -> Step]
  /\ task \in [Writer -> Task \cup {NoTask}]
  /\ next \in [Writer -> Document]
  /\ answer \in [Writer -> {"none", "written", "refused", "failed", "lost"}]
  /\ first \in Document
  /\ applied \subseteq Writer

File == INSTANCE ContractFile WITH exact <- ~tail

\* ADR 0065 decisions 1, 3 and 6: racing writers, failing calls and dying
\* processes included, each write happens at one instant or not at all.
WritesAreAtomic == File!FileSpec

\* ADR 0065 decision 5: "two test files that merge into one file write the
\* bytes one session recording both would have". In whatever order writers
\* merged, the file holds what it held first and all of theirs.
AsOneSession ==
  doc # Corrupt /\ (\A w \in applied : task[w].mode = "merge") =>
    /\ doc.interactions =
         first.interactions \cup
           UNION {task[w].contract.interactions : w \in applied}
    /\ \A w \in applied : task[w].contract.parties = doc.parties

\* A writer waits for the lock "as long as that takes", and gets it: a process
\* that ends with the lock does not keep it.
EveryWriteEnds == \A w \in Writer : pc[w] = "waiting" ~> pc[w] = "ended"

=============================================================================
