----------------------------- MODULE FaultSlots -----------------------------
(***************************************************************************)
(* What the GPU-side fault reporting of dxil-spirv promises to the host    *)
(* that reads the report buffers: every slot is a write-once cell.  It is  *)
(* empty until one complete report appears in it in a single step, and a   *)
(* report that has appeared never changes.                                 *)
(*                                                                         *)
(* DescriptorQA (one slot, published by fault_type) and                    *)
(* InstrumentationReport (one slot per payload entry, published by the     *)
(* upper half of a control word) both implement this specification.        *)
(***************************************************************************)

CONSTANTS
  Slots,     \* the report cells the host polls
  Reports,   \* complete reports
  None       \* what the host sees in an unpublished cell: not a report

VARIABLE slot

FSInit == slot = [s \in Slots |-> None]

Publish(s) ==
  /\ slot[s] = None
  /\ slot'[s] \in Reports
  /\ slot' = [slot EXCEPT ![s] = slot'[s]]

FSNext == \E s \in Slots : Publish(s)

FSSpec == FSInit /\ [][FSNext]_slot

=============================================================================
