---------------------------- MODULE LegacyReceipt ----------------------------
(***************************************************************************)
(* Supplied execution receipts, e7q.ir.legacy_receipt_workflow: a bundle,  *)
(* a result and a receipt are read, the receipt is computed again from the *)
(* other two, and a graph records what that supports.  The graph may be    *)
(* edited afterwards, its identities made right again, and validated.      *)
(*                                                                         *)
(* A document is a record of the facts the workflow compares; its digest   *)
(* is the document itself.  Bytes that are no JSON object are of the kind  *)
(* garbage, bytes over the input budget of the kind oversized.             *)
(***************************************************************************)
EXTENDS Integers, FiniteSets, FiniteSetsExt

CONSTANTS
  Supplied,     \* three files, a count label order, whether the references are
                \* distinct, and the documents an editor may put in the files' place
  Orders,       \* the supported orders of a count label
  Absent,       \* no such field, file or record
  Malformed,    \* a field of no use
  MaxTampering  \* bound: edits of the graph in one behaviour

Roles == {"bundle", "result", "receipt"}

\* Bytes that are a document of a role, or no document.
IsRaw(raw, role) ==
  /\ raw.kind \in {role, "garbage"}
  /\ raw.kind = "result" /\ raw.shots.integer => raw.shots.value \in Int

ASSUME SuppliedAssumption ==
  \A s \in Supplied :
    /\ DOMAIN s = {"files", "order", "distinct", "later"} /\ DOMAIN s.files = Roles
    /\ \A role \in Roles : \/ s.files[role] = Absent \/ s.files[role].kind = "oversized"
                           \/ IsRaw(s.files[role], role)
    /\ \A raw \in s.later : \A role \in Roles : raw.kind \in {role, "garbage"} => IsRaw(raw, role)

ASSUME TamperingAssumption == MaxTampering \in Nat

ASSUME FieldAssumption == Malformed # "PASS"

VARIABLES
  supplied,     \* one of Supplied, its files as they now are
  captured,     \* the bytes read
  evidence,     \* the graph
  tampered,     \* edits of the graph so far
  verdict,      \* what the validation of the graph as it is answered
  phase

receiptVars == <<supplied, captured, evidence, tampered, verdict, phase>>

-----------------------------------------------------------------------------
(* The judgement of three documents, each there or not: the set of it.     *)

Parsed(raw) == IF raw.kind = "garbage" THEN {} ELSE {raw}

NonPass == {"NOT_ASSESSED", "FAIL", "UNSUPPORTED", "BLOCKED"}

\* From the least to the most severe.
Severity == <<"NOT_ASSESSED", "FAIL", "UNSUPPORTED", "BLOCKED">>

WorstStatus(statuses) ==
  IF statuses = {} THEN "PASS" ELSE Severity[Max({i \in DOMAIN Severity : Severity[i] \in statuses})]

\* What a failed check counts as.
Unless(holds, status) == IF holds THEN {} ELSE {status}

AdmissionFailures(docs) ==
  Unless(\E d \in docs : d.schema = "own", "UNSUPPORTED")
  \cup Unless(\E d \in docs : d.conforms, "UNSUPPORTED")

BundleFailures(bundles) ==
  Unless(\E b \in bundles : b.ready, "UNSUPPORTED")
  \cup Unless(\E b \in bundles : Malformed \notin {b.source, b.declared}, "UNSUPPORTED")
  \cup Unless(\E b \in bundles : b.compiled, "UNSUPPORTED")

Complete(results) == \E r \in results : r.complete /\ r.typed

ResultFailures(results, bundles, bundle) ==
  Unless(Complete(results), "UNSUPPORTED")
  \cup Unless(\A r \in results : r.bundle \in {Absent, bundle}, "FAIL")
  \cup Unless(\E r \in results, b \in bundles : r.target = b.target, "FAIL")
  \cup Unless(\E r \in results, b \in bundles :
                r.shots.integer /\ r.shots.value = b.shots /\ b.shots > 0, "FAIL")

CountTotal(r) == MapThenSumSet(LAMBDA o : r.counts[o], DOMAIN r.counts)

AddsUp(r) == r.legal /\ r.shots.integer /\ CountTotal(r) = r.shots.value

\* The frequencies of counts that add up are computed, also of those of no shots.
DividesByZero(raw) == \E r \in Parsed(raw.result) : AddsUp(r) /\ r.shots.value = 0

CountFailures(results, order) ==
  Unless(order \in Orders, "UNSUPPORTED")
  \cup Unless(\A r \in results : r.order \in {Absent, order}, "UNSUPPORTED")
  \cup Unless(\E r \in results : r.legal, "UNSUPPORTED")
  \cup Unless(\E r \in results : AddsUp(r), "FAIL")

\* build_execution_receipt raises, and its message is read for a status; a truth
\* value is an integer to it.
ReceiptRefusal(b, r) ==
  IF r.target # b.target \/ r.shots.value < 1 \/ r.shots.value # b.shots THEN {"FAIL"}
  ELSE IF ~r.legal THEN {"UNSUPPORTED"}
  ELSE Unless(CountTotal(r) = r.shots.value /\ r.bundle \in {Absent, b}, "FAIL")

ExecutionReceipt(b, r) ==
  [schema |-> "own", status |-> "PASS", bundle |-> b, result |-> r, target |-> r.target,
   shots |-> r.shots.value, counts |-> r.counts, rest |-> "repeated"]

\* Why the receipt could not be computed again.
RecomputeFailures(bundles, results) ==
  LET able == {p \in bundles \X results :
                 p[1].schema = "own" /\ p[2].schema = "own" /\ p[1].ready /\ p[2].complete}
  IN  IF able = {} THEN {"UNSUPPORTED"} ELSE UNION {ReceiptRefusal(p[1], p[2]) : p \in able}

\* A mutant: what is derived from the compared fields is not compared.
ReceiptFailuresOfSources(receipts, bundles, results) ==
  Unless(\A p \in receipts, b \in bundles, r \in results :
           \A f \in {"schema", "bundle", "result", "status"} : p[f] = ExecutionReceipt(b, r)[f], "FAIL")

\* The supplied receipt, field by field, against the one computed.
ReceiptFailures(receipts, bundles, results) ==
  Unless(\A p \in receipts, b \in bundles, r \in results :
           \A f \in DOMAIN ExecutionReceipt(b, r) : p[f] = ExecutionReceipt(b, r)[f], "FAIL")

Declared(receipts) == {p.status : p \in receipts}

\* A status that is a list or an object cannot be looked up among the known ones.
Unhashable(raw) == Malformed \in Declared(Parsed(raw.receipt))

\* A receipt that does not claim to pass is taken at its word; the checks decide of one that does.
Outcome(raw, order) ==
  LET bundles  == Parsed(raw.bundle)     results == Parsed(raw.result)
      receipts == Parsed(raw.receipt)    computed == RecomputeFailures(bundles, results)
      failures == AdmissionFailures(bundles) \cup AdmissionFailures(results)
                    \cup AdmissionFailures(receipts) \cup BundleFailures(bundles)
                    \cup ResultFailures(results, bundles, raw.bundle)
                    \cup CountFailures(results, order) \cup computed
                    \cup (IF computed = {} THEN ReceiptFailures(receipts, bundles, results) ELSE {})
  IN  IF Declared(receipts) = {"PASS"} THEN WorstStatus(failures)
      ELSE IF Declared(receipts) \cap NonPass # {} THEN WorstStatus(Declared(receipts))
      ELSE "NOT_ASSESSED"

-----------------------------------------------------------------------------
(* The graph.                                                              *)

ValidationStatus(status) ==
  CASE status = "PASS" -> "validated" [] status = "NOT_ASSESSED" -> "not-assessed"
    [] OTHER -> "failed"

\* The typed records, each with what it was made of.
Intent(raw) ==
  [of |-> raw, status |-> IF \E b \in Parsed(raw) : b.ready THEN "PASS" ELSE "UNSUPPORTED"]

Execution(raw) ==
  [of |-> raw, status |-> IF Complete(Parsed(raw)) THEN "PASS" ELSE "UNSUPPORTED"]

\* The counts pass if they add up, whatever order the result declares.
Observation(raw, order) ==
  LET results == Parsed(raw.result)
  IN  [of |-> raw.result, order |-> IF order \in Orders THEN order ELSE Absent,
       status |-> IF order \in Orders /\ \E r \in results : AddsUp(r) THEN "PASS"
                  ELSE WorstStatus(AdmissionFailures(results) \cup CountFailures(results, order)
                                     \cup ResultFailures(results, Parsed(raw.bundle), raw.bundle))]

Typed(raw, order) ==
  [intent |-> Intent(raw.bundle), execution |-> Execution(raw.result),
   observation |-> Observation(raw, order),
   assessment |-> [of |-> raw, order |-> order, status |-> Outcome(raw, order)]]

Representation(raw) ==
  [of |-> raw, status |-> WorstStatus(AdmissionFailures(Parsed(raw)))]

Source(raw) == [bytes |-> raw, digest |-> raw]

Mappings(typed) ==
  [bundle  |-> ValidationStatus(typed.intent.status),
   result  |-> ValidationStatus(typed.execution.status),
   counts  |-> ValidationStatus(typed.observation.status),
   receipt |-> ValidationStatus(typed.assessment.status)]

EvidenceOf(raw, order) ==
  LET typed == Typed(raw, order)
  IN  [sources  |-> [role \in Roles |-> Source(raw[role])],
       order    |-> order,
       represents |-> [role \in Roles |-> Representation(raw[role])],
       typed    |-> typed,
       mappings |-> Mappings(typed),
       claim    |-> typed.assessment.status = "PASS",
       dialect  |-> "legacy", f1 |-> TRUE]

\* recover_legacy_source refuses bytes that are not those of the digest.
Recoverable(g, role) == g.f1 /\ g.sources[role].bytes = g.sources[role].digest

Bytes(g) == [role \in Roles |-> g.sources[role].bytes]

\* The three sources are there, and represented as they are.
Carried(g) ==
  /\ g.f1
  /\ \A role \in Roles : /\ Recoverable(g, role)
                         /\ g.represents[role] = Representation(Bytes(g)[role])

\* A mutant: the claim of a graph is not looked at again.
ValidatedExceptClaim(g) ==
  LET typed == Typed(Bytes(g), g.order)
  IN  IF ~Carried(g) THEN "FAIL"
      ELSE IF DividesByZero(Bytes(g)) THEN "raised"
      ELSE IF ~Unhashable(Bytes(g)) /\ g.typed = typed THEN typed.assessment.status ELSE "FAIL"

\* validate_legacy_receipt_evidence: everything is computed again from the bytes.  What
\* the computation raises is a failure, but for the division.
Validated(g) ==
  LET typed == Typed(Bytes(g), g.order)
  IN  IF ~Carried(g) THEN "FAIL"
      ELSE IF DividesByZero(Bytes(g)) THEN "raised"
      ELSE IF /\ ~Unhashable(Bytes(g)) /\ g.typed = typed
              /\ g.claim = (typed.assessment.status = "PASS")
      THEN typed.assessment.status ELSE "FAIL"

-----------------------------------------------------------------------------
NothingRead == [role \in Roles |-> Absent]

ReceiptInit ==
  /\ supplied \in Supplied
  /\ captured = NothingRead /\ evidence = Absent /\ tampered = 0 /\ verdict = "none"
  /\ phase = "start"

ReceiptIdle ==
  /\ supplied = Absent
  /\ captured = NothingRead /\ evidence = Absent /\ tampered = 0 /\ verdict = "none"
  /\ phase = "idle"

CheckReferences ==
  /\ phase = "start"
  /\ phase' = IF supplied.distinct THEN "bundle" ELSE "refused"
  /\ UNCHANGED <<supplied, captured, evidence, tampered, verdict>>

\* _read: a file, in one reading, up to the budget.
Readable(raw) == raw # Absent /\ raw.kind # "oversized"

ReadInput(role, next) ==
  /\ phase = role
  /\ LET raw == supplied.files[role]
     IN  \/ /\ ~Readable(raw)
            /\ phase' = "refused" /\ UNCHANGED captured
         \/ /\ Readable(raw)
            /\ captured' = [captured EXCEPT ![role] = raw]
            /\ phase' = next
  /\ UNCHANGED <<supplied, evidence, tampered, verdict>>

\* The graph is built and validated; one that claims support and does not validate is
\* never returned.  What computing the records raises ends the program.
BuildEvidence ==
  /\ phase = "build"
  /\ LET g == EvidenceOf(captured, supplied.order)
         raises == DividesByZero(captured) \/ Unhashable(captured)
     IN  \/ raises /\ phase' = "raised" /\ UNCHANGED evidence
         \/ /\ ~raises /\ g.claim /\ Validated(g) # "PASS"
            /\ phase' = "refused" /\ UNCHANGED evidence
         \/ /\ ~raises /\ (g.claim => Validated(g) = "PASS")
            /\ phase' = "built" /\ evidence' = g
  /\ UNCHANGED <<supplied, captured, tampered, verdict>>

ValidateEvidence ==
  /\ phase = "built" /\ verdict = "none"
  /\ verdict' = Validated(evidence)
  /\ UNCHANGED <<supplied, captured, evidence, tampered, phase>>

Workflow ==
  \/ CheckReferences
  \/ ReadInput("bundle", "result") \/ ReadInput("result", "receipt") \/ ReadInput("receipt", "build")
  \/ BuildEvidence \/ ValidateEvidence

\* Somebody replaces a file that is yet to be read, or was read.
ReplaceFile ==
  /\ phase \in Roles \cup {"build"}
  /\ \E role \in Roles, raw \in supplied.later :
       /\ raw.kind \in {role, "garbage"} /\ supplied.files[role] # raw
       /\ supplied' = [supplied EXCEPT !.files[role] = raw, !.later = @ \ {raw}]
  /\ UNCHANGED <<captured, evidence, tampered, verdict, phase>>

\* A graph with one record changed, a digest made to fit or not.
Alterations(g) ==
  {[g EXCEPT !.claim = ~@], [g EXCEPT !.typed.assessment.status = "PASS"],
   [g EXCEPT !.typed.observation.status = "PASS"], [g EXCEPT !.mappings.counts = "validated"],
   [g EXCEPT !.dialect = "other"], [g EXCEPT !.f1 = FALSE]}
  \cup {[g EXCEPT !.order = o] : o \in Orders}
  \cup {[g EXCEPT !.represents[role].status = "PASS"] : role \in Roles}
  \cup UNION {{[g EXCEPT !.sources[raw.kind].bytes = raw],
               [g EXCEPT !.sources[raw.kind] = [bytes |-> raw, digest |-> raw]],
               [g EXCEPT !.sources[raw.kind] = [bytes |-> raw, digest |-> raw],
                         !.represents[raw.kind] = Representation(raw)]} :
                raw \in {d \in supplied.later : d.kind \in Roles}}

Tamper ==
  /\ phase = "built" /\ tampered < MaxTampering
  /\ \E g \in Alterations(evidence) : g # evidence /\ evidence' = g
  /\ tampered' = tampered + 1 /\ verdict' = "none"
  /\ UNCHANGED <<supplied, captured, phase>>

-----------------------------------------------------------------------------
\* Every variable of the workflow has its type.
ReceiptTypeOK ==
  /\ DOMAIN captured = Roles
  /\ \A role \in Roles : captured[role] = Absent \/ captured[role].kind \in {role, "garbage"}
  /\ evidence # Absent =>
       /\ evidence.typed.assessment.status \in NonPass \cup {"PASS"}
       /\ evidence.mappings \in [{"bundle", "result", "counts", "receipt"} ->
                                  {"validated", "not-assessed", "failed"}]
       /\ {evidence.claim, evidence.f1} \subseteq BOOLEAN
  /\ tampered \in 0 .. MaxTampering
  /\ verdict \in NonPass \cup {"PASS", "none", "raised"}
  /\ phase \in Roles \cup {"idle", "start", "build", "built", "refused", "raised"}

\* Three documents of which something can be said.
Judgeable(raw, order) ==
  LET b == raw.bundle   r == raw.result
  IN  /\ \A role \in Roles : /\ raw[role].kind = role
                             /\ raw[role].schema = "own" /\ raw[role].conforms
      /\ b.ready /\ b.compiled /\ Malformed \notin {b.source, b.declared}
      /\ r.complete /\ r.typed /\ r.legal
      /\ order \in Orders /\ r.order \in {order, Absent}

\* Three documents that tell one story, which the receipt repeats.
Consistent(raw, order) ==
  LET b == raw.bundle   r == raw.result   p == raw.receipt
  IN  /\ Judgeable(raw, order) /\ r.shots.integer
      /\ {b.shots, r.shots.value, p.shots} = {CountTotal(r)} /\ b.shots > 0
      /\ {b.target, r.target} = {p.target} /\ r.bundle \in {b, Absent}
      /\ p.bundle = b /\ p.result = r /\ p.counts = r.counts
      /\ p.status = "PASS" /\ p.rest = "repeated"

\* What is to be said of three documents: what a receipt admits itself is repeated, one
\* that claims to pass does if they tell one story, and where nothing can be said of
\* one of them, no disagreement of the others makes it a failure.
Judgement(raw, order) ==
  CASE raw.receipt.kind # "receipt" -> "NOT_ASSESSED"
    [] raw.receipt.kind = "receipt" /\ raw.receipt.status # "PASS" ->
         IF raw.receipt.status \in NonPass THEN raw.receipt.status ELSE "NOT_ASSESSED"
    [] OTHER -> IF ~Judgeable(raw, order) THEN "UNSUPPORTED"
                ELSE IF Consistent(raw, order) THEN "PASS" ELSE "FAIL"

\* A graph claims support exactly of three documents that tell one story, the very
\* ones captured, whatever happened to the files between the readings, and none that
\* do are lost to an exception; its assessment is the one they call for, no severer
\* failure hidden behind a milder; it then validates as it was built.  A graph changed
\* since, all its identities made right, validates only if what it preserves still
\* tells one story and it claims just that.
LegacyClaimIsEarned ==
  /\ phase = "raised" => ~Consistent(captured, supplied.order)
  /\ evidence # Absent =>
       /\ tampered = 0 =>
            /\ evidence.claim = Consistent(captured, evidence.order)
            /\ evidence.typed.assessment.status = Judgement(captured, evidence.order)
            /\ Bytes(evidence) = captured
            /\ verdict \in {"none", evidence.typed.assessment.status}
       /\ verdict = "PASS" =>
            /\ Consistent(Bytes(evidence), evidence.order)
            /\ evidence.claim /\ \A role \in Roles : evidence.represents[role].status = "PASS"
=============================================================================
