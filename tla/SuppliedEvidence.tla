-------------------------- MODULE SuppliedEvidence ---------------------------
(***************************************************************************)
(* What a user supplies: an evidence package to e7q.external_bundles, or   *)
(* an execution's three files to the legacy receipt workflow and, with a   *)
(* planned selection, to the receipt binding.  The two verifications share *)
(* no state; a behaviour is of one of them.                                *)
(***************************************************************************)
EXTENDS ExternalBundle, ReceiptBinding

vars == <<bundleVars, receiptVars, bindingVars>>

Init ==
  /\ \/ BundleInit /\ ReceiptIdle
     \/ BundleIdle /\ ReceiptInit
  /\ BindingInit

Done == (BundleEnded \/ ReceiptEnded) /\ UNCHANGED vars

Next ==
  \/ BundleNext /\ UNCHANGED <<receiptVars, bindingVars>>
  \/ ReceiptNext /\ UNCHANGED bundleVars
  \/ Done

Spec == Init /\ [][Next]_vars

-----------------------------------------------------------------------------
\* Every variable of both verifications has its type.
TypeOK == BundleTypeOK /\ ReceiptTypeOK /\ BindingTypeOK
=============================================================================
