---------------------------- MODULE ContractMerge ----------------------------
(***************************************************************************)
(* What a contract file may hold and what is written over it               *)
(* (contract/files.rs, contract/merge.rs).                                 *)
(*                                                                         *)
(* Interactions are written in identity order and an identity is written   *)
(* once, so that a document's bytes are given by its parties and its set   *)
(* of interactions; an interaction is its identity and the bytes of its    *)
(* record.                                                                 *)
(***************************************************************************)
CONSTANTS
  Writer,    \* the finalise calls that ask for a write
  Parties,   \* pairs of a consumer and a provider
  Identity,  \* description and states of an interaction
  Record,    \* the canonical bytes of an interaction
  Contracts, \* what the sessions may ask to write
  Initial    \* what the file may hold at first

Interaction == [identity: Identity, record: Record]

\* An identity is recorded once.
OneEach(interactions) ==
  \A i, j \in interactions : i.identity = j.identity => i = j

Contract ==
  {c \in [kind: {"contract"}, parties: Parties, interactions: SUBSET Interaction] :
     OneEach(c.interactions)}

\* An absent or empty file, and what a write that was cut off leaves.
Blank   == [kind |-> "blank", parties |-> "none", interactions |-> {}]
Corrupt == [kind |-> "corrupt", parties |-> "none", interactions |-> {}]
Document == Contract \cup {Blank, Corrupt}

Mode   == {"merge", "overwrite"}
Task   == [contract: Contracts, mode: Mode]
NoTask == [contract |-> Blank, mode |-> "none"]

ASSUME DocumentsAssumption == Contracts \subseteq Contract /\ Initial \subseteq Document

-----------------------------------------------------------------------------
\* merge's conflicts: other parties, or one identity recorded differently.
Conflict(existing, new) ==
  \/ existing.parties # new.parties
  \/ \E i \in existing.interactions, j \in new.interactions :
       i.identity = j.identity /\ i.record # j.record

\* merge: the header is the new contract's.
Merge(existing, new) ==
  [new EXCEPT !.interactions = @ \cup existing.interactions]

\* next_bytes: what may be written over `existing`. Bytes of a write that was
\* cut off are no contract, or pass for one no writer wrote.
NextBytes(existing, t) ==
  IF t.mode = "overwrite" \/ existing = Blank THEN {t.contract}
  ELSE IF existing = Corrupt THEN {Corrupt}
  ELSE IF Conflict(existing, t.contract) THEN {}
  ELSE {Merge(existing, t.contract)}

\* next_bytes answers with an error: contract-conflict, or an unreadable file.
Refuses(existing, t) ==
  /\ t.mode = "merge"
  /\ \/ existing = Corrupt
     \/ existing # Blank /\ Conflict(existing, t.contract)

=============================================================================
