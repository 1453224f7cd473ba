--------------------------- MODULE MCContractWriter ---------------------------
(* Three racing writers of two interactions; a file that is new, holds one  *)
(* of the interactions recorded differently, or is another pair's contract. *)
EXTENDS ContractWriter

Holding(parties, identity, record) ==
  [kind |-> "contract", parties |-> parties,
   interactions |-> {[identity |-> identity, record |-> record]}]

MCContracts == {Holding("web-orders", "get", "r1"),
                Holding("web-orders", "list", "r1")}

MCInitial == {Blank, Holding("web-orders", "get", "r2"),
              Holding("web-stock", "get", "r1")}
=============================================================================
