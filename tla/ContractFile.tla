----------------------------- MODULE ContractFile -----------------------------
(***************************************************************************)
(* What writing a contract file promises (engine-protocol spec 8.2, ADR    *)
(* 0065): each write takes the file from one state to the next at one      *)
(* instant, whichever processes write it. It merges into what the file     *)
(* holds then, or replaces it, or is refused and leaves it as it was. Only *)
(* a write that is cut off, by an error or by the end of its process, may  *)
(* leave a file that is no writer's document.                              *)
(***************************************************************************)
EXTENDS ContractMerge

VARIABLES
  doc,     \* what a reader finds in the file
  exact,   \* whether nothing follows it there
  task,    \* what each writer asks for
  applied, \* the writers whose document the file has held
  answer   \* "none", "written", "refused", "failed" or "lost"

fileVars == <<doc, exact, task, applied, answer>>

FileInit ==
  /\ doc \in Initial
  /\ exact = TRUE
  /\ task = [w \in Writer |-> NoTask]
  /\ applied = {}
  /\ answer = [w \in Writer |-> "none"]

Asking(w) == task[w] # NoTask /\ answer[w] = "none"

Ask(w, contract, mode) ==
  /\ task[w] = NoTask
  /\ task' = [task EXCEPT ![w] = [contract |-> contract, mode |-> mode]]
  /\ UNCHANGED <<doc, exact, applied, answer>>

\* The instant of the write.
Apply(w) ==
  /\ Asking(w) /\ w \notin applied
  /\ doc' \in NextBytes(doc, task[w])
  /\ exact' \in BOOLEAN
  /\ applied' = applied \cup {w}
  /\ UNCHANGED <<task, answer>>

Refuse(w) ==
  /\ Asking(w) /\ w \notin applied
  /\ Refuses(doc, task[w])
  /\ answer' = [answer EXCEPT ![w] = "refused"]
  /\ UNCHANGED <<doc, exact, task, applied>>

\* `written`: the file has held the document and nothing else.
Confirm(w) ==
  /\ Asking(w) /\ w \in applied
  /\ exact' = TRUE
  /\ answer' = [answer EXCEPT ![w] = "written"]
  /\ UNCHANGED <<doc, task, applied>>

\* The write fails, or its process ends and nobody is answered. Before the
\* instant of the write the file may be spoilt.
Fail(w) ==
  /\ Asking(w)
  /\ doc' \in IF w \in applied THEN {doc} ELSE {doc, Corrupt}
  /\ exact' \in IF w \in applied THEN {exact, TRUE} ELSE {exact}
  /\ answer' \in {[answer EXCEPT ![w] = a] : a \in {"failed", "lost"}}
  /\ UNCHANGED <<task, applied>>

FileNext ==
  \E w \in Writer :
    \/ \E contract \in Contracts, mode \in Mode : Ask(w, contract, mode)
    \/ Apply(w) \/ Refuse(w) \/ Confirm(w) \/ Fail(w)

FileSpec == FileInit /\ [][FileNext]_fileVars

=============================================================================
