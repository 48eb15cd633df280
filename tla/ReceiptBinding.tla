--------------------------- MODULE ReceiptBinding ----------------------------
(***************************************************************************)
(* Binding a planned selection to a supplied receipt,                      *)
(* e7q.ir.receipt_binding.assess_receipt_binding: a request names a        *)
(* replayed selection, the source and the graph of a receipt; the selected *)
(* member committed itself beforehand to a source, a bundle, a program and *)
(* a target.  The graph may be edited between the request and its          *)
(* assessment.                                                             *)
(*                                                                         *)
(* One action per part of the assessment, in its order: what a refusal is  *)
(* called, and which identities it names, depends on how far it came.      *)
(***************************************************************************)
EXTENDS LegacyReceipt

CONSTANTS
  Requests(_)   \* the requests one may make, with a plan and a source, of a graph

VARIABLES
  request,      \* the request, the plan and the source handed over with it
  part,         \* the part of the assessment that is next
  binding       \* the result, with the identities established so far

bindingVars == <<request, part, binding>>

Unestablished ==
  [outcome |-> "none", selection |-> Absent, source |-> Absent, graph |-> Absent, witness |-> Absent]

-----------------------------------------------------------------------------
BindingInit == request = Absent /\ part = "none" /\ binding = Unestablished

\* A request is made, by build_receipt_binding_request or by hand, at any time after
\* there is a graph.
MakeRequest ==
  /\ evidence # Absent /\ part = "none"
  /\ request' \in Requests(evidence)
  /\ part' = "request"
  /\ UNCHANGED binding

Refused(outcome) ==
  /\ binding' = [binding EXCEPT !.outcome = outcome]
  /\ part' = "done"

\* One condition of a part fails, or none does.
Proceed(next) == part' = next /\ UNCHANGED binding

\* The shape of the request, its identity, and the editions it is for.
AdmitRequest ==
  /\ part = "request"
  /\ \/ request.shape \in {"invalid_input", "resource_limit"} /\ Refused(request.shape)
     \/ request.shape = "fine" /\ ~request.supported /\ Refused("unsupported")
     \/ request.shape = "fine" /\ request.supported /\ Proceed("selection")
  /\ UNCHANGED request

\* The planning result is computed again; the request and the records must be of it.
ReplaySelection ==
  /\ part = "selection"
  /\ \/ ~(request.plan.replays /\ request.plan.linked) /\ Refused("invalid_input")
     \/ /\ request.plan.replays /\ request.plan.linked
        /\ binding' = [binding EXCEPT !.selection = request.plan.outcome]
        /\ part' = IF request.plan.outcome = "unique" THEN "references" ELSE "unbound"
  /\ UNCHANGED request

\* Without a unique member no evidence may be handed over, and none is looked at.
LeaveUnbound ==
  /\ part = "unbound"
  /\ Refused(IF {request.source, request.graph, request.bytes} = {Absent} /\ ~request.withGraph
               THEN "unbound" ELSE "invalid_input")
  /\ UNCHANGED request

\* The identity a graph gives itself; that of one that is not valid at F1 is as it was.
Identity(g) == [g EXCEPT !.f1 = TRUE]

\* The source, and the identity of the graph, are the requested ones.
EstablishReferences ==
  /\ part = "references"
  /\ LET named == Absent \notin {request.source, request.graph, request.bytes} /\ request.withGraph
         these == request.source = request.bytes /\ request.graph = Identity(evidence)
     IN  \/ ~named /\ Refused("invalid_input")
         \/ named /\ "source" \notin request.fits /\ Refused("resource_limit")
         \/ named /\ "source" \in request.fits /\ ~these /\ Refused("invalid_input")
         \/ /\ named /\ "source" \in request.fits /\ these
            /\ binding' = [binding EXCEPT !.source = request.bytes, !.graph = request.graph]
            /\ part' = "commitments"
  /\ UNCHANGED request

WellFormed(member) == \A key \in DOMAIN member : member[key] # Malformed

\* The budgets of the graph come first, then what the selected member committed itself to.
ReadCommitments ==
  /\ part = "commitments"
  /\ LET member == request.plan.member
     IN  \/ "graph" \notin request.fits /\ Refused("resource_limit")
         \/ "graph" \in request.fits /\ ~request.plan.retained /\ Refused("invalid_input")
         \/ /\ "graph" \in request.fits /\ request.plan.retained
            /\ \/ member = Absent /\ Refused("unsupported")
               \/ /\ member # Absent
                  /\ IF WellFormed(member) /\ {member.source, request.plan.source} = {request.bytes}
                     THEN Proceed("graph") ELSE Refused("invalid_input")
  /\ UNCHANGED request

AdmitGraph ==
  /\ part = "graph"
  /\ \/ ~evidence.f1 /\ Refused("invalid_input")
     \/ evidence.f1 /\ evidence.dialect # "legacy" /\ Refused("unsupported")
     \/ evidence.f1 /\ evidence.dialect = "legacy" /\ Proceed("bundle")
  /\ UNCHANGED request

\* A carrier is recovered before its length is looked at, one role after the other.
RecoverCarrier(role, next) ==
  /\ part = role
  /\ \/ ~Recoverable(evidence, role) /\ Refused("invalid_input")
     \/ Recoverable(evidence, role) /\ role \notin request.fits /\ Refused("resource_limit")
     \/ Recoverable(evidence, role) /\ role \in request.fits /\ Proceed(next)
  /\ UNCHANGED request

\* Every verdict but PASS is a refusal; what the validation raises is not caught here
\* either, and there is no result.
JudgeEvidence ==
  /\ part = "evidence"
  /\ LET status == Validated(evidence)
     IN  \/ status = "PASS" /\ Proceed("links")
         \/ status = "raised" /\ Proceed("raised")
         \/ status \notin {"PASS", "raised"} /\ Refused("invalid_input")
  /\ UNCHANGED request

\* A mutant: the digest the bundle declares stands for the program it holds.
CommitmentsToDeclarations(member, raw) ==
  /\ member.bundle = raw.bundle /\ member.program = raw.bundle.declared
  /\ member.source = raw.bundle.source
  /\ {raw.bundle.target, raw.result.target, raw.receipt.target} = {member.target}

\* What the member committed itself to is what the carriers hold.
CommitmentsHold(member, raw) ==
  /\ member.bundle = raw.bundle
  /\ {raw.bundle.program, raw.bundle.declared} = {member.program}
  /\ member.source = raw.bundle.source
  /\ {raw.bundle.target, raw.result.target, raw.receipt.target} = {member.target}

\* _bound: the witness names the member, its evidence and the identities established.
Bind ==
  /\ binding' = [binding EXCEPT !.outcome = "bound",
                   !.witness = [member |-> request.plan.member, evidence |-> Bytes(evidence),
                                source |-> binding.source, graph |-> binding.graph]]
  /\ part' = "done"

LinkCommitments ==
  /\ part = "links"
  /\ IF CommitmentsHold(request.plan.member, Bytes(evidence)) THEN Bind ELSE Refused("invalid_input")
  /\ UNCHANGED request

Assess ==
  \/ AdmitRequest \/ ReplaySelection \/ LeaveUnbound \/ EstablishReferences \/ ReadCommitments
  \/ AdmitGraph \/ JudgeEvidence \/ LinkCommitments
  \/ RecoverCarrier("bundle", "result") \/ RecoverCarrier("result", "receipt")
  \/ RecoverCarrier("receipt", "evidence")

\* A call of the assessment is not interrupted: nobody edits its arguments.
ReceiptNext ==
  \/ (Workflow \/ ReplaceFile) /\ UNCHANGED bindingVars
  \/ Tamper /\ part \in {"none", "request"} /\ UNCHANGED bindingVars
  \/ (MakeRequest \/ Assess) /\ UNCHANGED receiptVars

ReceiptEnded ==
  \/ phase \in {"refused", "raised"}
  \/ part \in {"done", "raised"} /\ verdict # "none"

-----------------------------------------------------------------------------
\* Every variable of the assessment has its type.
BindingTypeOK ==
  /\ part \in Roles \cup {"none", "request", "selection", "unbound", "references", "commitments",
                          "graph", "evidence", "links", "done", "raised"}
  /\ binding.outcome \in {"none", "bound", "unbound", "invalid_input", "unsupported", "resource_limit"}
  /\ (part = "done") = (binding.outcome # "none")

\* Everything a binding stands on, stated at once: one selection, replayed, that was
\* asked for with this source and this very graph, and committed to both beforehand;
\* a graph whose three carriers tell one story and which claims it.
Bindable ==
  LET plan == request.plan   member == request.plan.member   raw == Bytes(evidence)
  IN  /\ request.shape = "fine" /\ request.supported /\ request.withGraph
      /\ plan.replays /\ plan.linked /\ plan.outcome = "unique" /\ plan.retained
      /\ Absent \notin {request.bytes, member} /\ WellFormed(member)
      /\ Roles \cup {"source", "graph"} \subseteq request.fits
      /\ request.graph = evidence /\ evidence.f1 /\ evidence.dialect = "legacy"
      /\ Consistent(raw, evidence.order) /\ evidence.claim
      /\ {request.source, request.bytes, plan.source, raw.bundle.source} = {member.source}
      /\ member.bundle = raw.bundle /\ raw.receipt.bundle = member.bundle
      /\ raw.bundle.program = member.program /\ raw.bundle.declared = member.program
      /\ raw.receipt.target = member.target

\* A selection is bound to a receipt only when all of that holds, and nobody who
\* edits the graph between the request and the assessment, or after the selection,
\* gets another graph bound.  What is refused or left unbound names a source or a
\* graph only once it was established to be the requested one, and nothing at all
\* where no unique member was selected.  No graph as the workflow built it makes the
\* assessment raise.
BindingIsEarned ==
  /\ part = "done" =>
       /\ IF binding.outcome = "bound"
          THEN Bindable /\ binding.witness.graph = evidence ELSE binding.witness = Absent
       /\ binding.outcome = "unbound" =>
            request.plan.outcome # "unique" /\ {binding.source, binding.graph} = {Absent}
       /\ binding.source # Absent => binding.source = request.source /\ binding.graph = request.graph
       /\ tampered = 0 /\ Bindable => binding.outcome = "bound"
  /\ part = "raised" => tampered > 0 /\ binding.witness = Absent
=============================================================================
