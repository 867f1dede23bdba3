------------------------------ MODULE MCPcieMm ------------------------------
(* Instances of the paging driver for TLC. *)
EXTENDS PcieMm

OneVma == [t \in Threads |-> CHOOSE m \in Vmas : TRUE]
EachItsOwn == [t \in Threads |-> t]
=============================================================================
