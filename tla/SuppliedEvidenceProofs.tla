----------------------- MODULE SuppliedEvidenceProofs -----------------------
(***************************************************************************)
(* What the verifications of supplied evidence say is earned: the members  *)
(* of a directory, the receipt of a package, the claim of a legacy graph,  *)
(* the binding of a selection.                                             *)
(*                                                                         *)
(* The walk of a directory: what is open stays open and what it is, and    *)
(* stands where its path led, by a chain of moments each no earlier than   *)
(* the one above; what was read of a file is a beginning of what it holds  *)
(* unless its time has moved.                                              *)
(* While nobody edits the directory, what was inspected is all that stands *)
(* under the bundle's path but what lies ahead: below a name not yet       *)
(* returned, or in a directory not yet listed.                             *)
(*                                                                         *)
(* The others are inductive once what they look back at is kept beside     *)
(* them.  A receipt is of the members there are, and these stay once they  *)
(* are loaded.  A graph is of the three documents it was captured from,    *)
(* and every artifact outside the recomputed ones still is what the        *)
(* capture made it.  What witnessed a binding is what was admitted, not    *)
(* what the disk holds by now.                                             *)
(***************************************************************************)
EXTENDS SuppliedEvidence, SequenceTheorems, FiniteSetTheorems, WellFoundedInduction, TLAPS

(* What the judgement of three documents amounts to.                       *)

AllRaw(raw) == \A role \in Roles : IsRaw(raw[role], role)

LEMMA RoleSet == Roles = {"bundle", "result", "receipt"}
BY DEF Roles

LEMMA NothingIsWorst == WorstStatus({}) = "PASS"
BY DEF WorstStatus

\* What is not empty is never taken for a pass.
LEMMA SomethingIsWorst ==
  ASSUME NEW statuses, statuses \subseteq NonPass, statuses # {}
  PROVE  WorstStatus(statuses) \in statuses
<1> DEFINE I == {i \in DOMAIN Severity : Severity[i] \in statuses}
<1>1. /\ DOMAIN Severity = 1 .. 4 /\ Severity[1] = "NOT_ASSESSED" /\ Severity[2] = "FAIL"
      /\ Severity[3] = "UNSUPPORTED" /\ Severity[4] = "BLOCKED"
  BY DEF Severity
<1>2. I \subseteq 1 .. 4 /\ I # {}
  <2>1. PICK s \in statuses : TRUE
    OBVIOUS
  <2>2. \E i \in 1 .. 4 : Severity[i] = s
    <3>1. s \in {"NOT_ASSESSED", "FAIL", "UNSUPPORTED", "BLOCKED"}
      BY DEF NonPass
    <3>2. QED
      BY <1>1, <3>1
  <2>3. QED
    BY <1>1, <2>1, <2>2
<1>3. \E x \in I : \A y \in I : x >= y
  <2>1. CASE 4 \in I
    BY <1>2, <2>1
  <2>2. CASE 4 \notin I /\ 3 \in I
    BY <1>2, <2>2
  <2>3. CASE 4 \notin I /\ 3 \notin I /\ 2 \in I
    BY <1>2, <2>3
  <2>4. CASE 4 \notin I /\ 3 \notin I /\ 2 \notin I
    BY <1>2, <2>4
  <2>5. QED
    BY <2>1, <2>2, <2>3, <2>4
<1>4. Max(I) \in I
  BY <1>3 DEF Max
<1>5. Severity[Max(I)] \in statuses
  BY <1>4
<1>6. WorstStatus(statuses) = Severity[Max(I)]
  BY DEF WorstStatus
<1>7. QED
  BY <1>5, <1>6

\* What nothing can be said of outweighs what disagrees.
LEMMA WorstOfTwo ==
  ASSUME NEW statuses, statuses \subseteq {"FAIL", "UNSUPPORTED"}
  PROVE  WorstStatus(statuses) = IF "UNSUPPORTED" \in statuses THEN "UNSUPPORTED"
                                 ELSE IF statuses = {} THEN "PASS" ELSE "FAIL"
<1> DEFINE I == {i \in DOMAIN Severity : Severity[i] \in statuses}
<1>1. /\ DOMAIN Severity = 1 .. 4 /\ Severity[1] = "NOT_ASSESSED" /\ Severity[2] = "FAIL"
      /\ Severity[3] = "UNSUPPORTED" /\ Severity[4] = "BLOCKED"
  BY DEF Severity
<1>2. CASE "UNSUPPORTED" \in statuses
  <2>1. 3 \in I /\ I \subseteq {2, 3}
    BY <1>1, <1>2
  <2>2. Max(I) = 3
    BY <2>1 DEF Max
  <2>3. WorstStatus(statuses) = Severity[Max(I)]
    BY <1>2 DEF WorstStatus
  <2>4. QED
    BY <1>1, <1>2, <2>2, <2>3
<1>3. CASE "UNSUPPORTED" \notin statuses /\ statuses # {}
  <2>1. WorstStatus(statuses) \in statuses
    BY <1>3, SomethingIsWorst DEF NonPass
  <2>2. QED
    BY <1>3, <2>1
<1>4. QED
  BY <1>2, <1>3, NothingIsWorst

LEMMA UnlessIsNone == \A h, status : (Unless(h, status) = {}) <=> h
BY DEF Unless

\* Bytes are a document of their role, or none.
LEMMA ParsedOf ==
  ASSUME NEW raw, NEW role \in Roles, IsRaw(raw, role)
  PROVE  \/ raw.kind = role /\ Parsed(raw) = {raw}
         \/ raw.kind = "garbage" /\ role # "garbage" /\ Parsed(raw) = {}
BY DEF Parsed, IsRaw, Roles

\* Each set of failures is empty exactly if what it looks at holds.
LEMMA AdmissionHolds ==
  ASSUME NEW raw
  PROVE  (AdmissionFailures({raw}) = {}) <=> (raw.schema = "own" /\ raw.conforms)
BY DEF AdmissionFailures, Unless

LEMMA BundleHolds ==
  ASSUME NEW b
  PROVE  (BundleFailures({b}) = {}) <=>
           (b.ready /\ Malformed \notin {b.source, b.declared} /\ b.compiled)
BY DEF BundleFailures, Unless

LEMMA ResultHolds ==
  ASSUME NEW b, NEW r
  PROVE  (ResultFailures({r}, {b}, b) = {}) <=>
           /\ r.complete /\ r.typed /\ r.bundle \in {Absent, b} /\ r.target = b.target
           /\ r.shots.integer /\ r.shots.value = b.shots /\ b.shots > 0
BY DEF ResultFailures, Complete, Unless

LEMMA CountHolds ==
  ASSUME NEW r, NEW order
  PROVE  (CountFailures({r}, order) = {}) <=>
           (order \in Orders /\ r.order \in {Absent, order} /\ r.legal /\ AddsUp(r))
BY DEF CountFailures, Unless

LEMMA RecomputeHolds ==
  ASSUME NEW b, NEW r
  PROVE  (RecomputeFailures({b}, {r}) = {}) <=>
           /\ b.schema = "own" /\ r.schema = "own" /\ b.ready /\ r.complete
           /\ ReceiptRefusal(b, r) = {}
<1> DEFINE able == {p \in {b} \X {r} : p[1].schema = "own" /\ p[2].schema = "own" /\ p[1].ready /\ p[2].complete}
<1> DEFINE ok == b.schema = "own" /\ r.schema = "own" /\ b.ready /\ r.complete
<1>1. CASE ok
  <2>1. able = {<<b, r>>}
    BY <1>1
  <2>2. RecomputeFailures({b}, {r}) = UNION {ReceiptRefusal(p[1], p[2]) : p \in {<<b, r>>}}
    BY <2>1 DEF RecomputeFailures
  <2>3. {ReceiptRefusal(p[1], p[2]) : p \in {<<b, r>>}} = {ReceiptRefusal(b, r)}
    <3>1. <<b, r>>[1] = b /\ <<b, r>>[2] = r
      OBVIOUS
    <3>2. \A p \in {<<b, r>>} : ReceiptRefusal(p[1], p[2]) = ReceiptRefusal(b, r)
      BY <3>1
    <3>3. QED
      BY <3>2
  <2>4. RecomputeFailures({b}, {r}) = ReceiptRefusal(b, r)
    BY <2>2, <2>3
  <2>5. QED
    BY <1>1, <2>4
<1>2. CASE ~ok
  <2>1. able = {}
    BY <1>2
  <2>2. RecomputeFailures({b}, {r}) = {"UNSUPPORTED"}
    BY <2>1 DEF RecomputeFailures
  <2>3. QED
    BY <1>2, <2>2
<1>3. QED
  BY <1>1, <1>2

LEMMA RefusalHolds ==
  ASSUME NEW b, NEW r, r.shots.value \in Int, r.shots.value > 0
  PROVE  (ReceiptRefusal(b, r) = {}) <=>
           /\ r.target = b.target /\ r.shots.value = b.shots /\ r.legal
           /\ CountTotal(r) = r.shots.value /\ r.bundle \in {Absent, b}
<1>1. ~(r.shots.value < 1)
  OBVIOUS
<1>2. QED
  BY <1>1 DEF ReceiptRefusal, Unless

\* The supplied receipt repeats the one computed.
Repeated(p, b, r) == ReceiptFailures({p}, {b}, {r}) = {}

LEMMA ReceiptHolds ==
  ASSUME NEW p, NEW b, NEW r
  PROVE  Repeated(p, b, r) <=>
           /\ p.schema = "own" /\ p.status = "PASS" /\ p.bundle = b /\ p.result = r
           /\ p.target = r.target /\ p.shots = r.shots.value /\ p.counts = r.counts
           /\ p.rest = "repeated"
<1> DEFINE e == ExecutionReceipt(b, r)
<1>1. /\ DOMAIN e = {"schema", "status", "bundle", "result", "target", "shots", "counts", "rest"}
      /\ e["schema"] = "own" /\ e["status"] = "PASS" /\ e["bundle"] = b /\ e["result"] = r
      /\ e["target"] = r.target /\ e["shots"] = r.shots.value /\ e["counts"] = r.counts
      /\ e["rest"] = "repeated"
  BY DEF ExecutionReceipt
<1>2. Repeated(p, b, r) <=> \A f \in DOMAIN e : p[f] = e[f]
  BY DEF Repeated, ReceiptFailures, Unless
<1>3. QED
  <2> HIDE DEF e
  <2>1. QED
    BY <1>1, <1>2

\* All that a judgement looks at, as one set of failures.
Failures(raw, order) ==
  LET bundles  == Parsed(raw.bundle)     results == Parsed(raw.result)
      receipts == Parsed(raw.receipt)    computed == RecomputeFailures(bundles, results)
  IN  AdmissionFailures(bundles) \cup AdmissionFailures(results)
        \cup AdmissionFailures(receipts) \cup BundleFailures(bundles)
        \cup ResultFailures(results, bundles, raw.bundle)
        \cup CountFailures(results, order) \cup computed
        \cup (IF computed = {} THEN ReceiptFailures(receipts, bundles, results) ELSE {})

LEMMA UnlessIsNonPass == \A h, status \in NonPass : Unless(h, status) \subseteq NonPass
BY DEF Unless

LEMMA FailuresAreTwo == \A raw, order : Failures(raw, order) \subseteq {"FAIL", "UNSUPPORTED"}
<1> SUFFICES ASSUME NEW raw, NEW order PROVE Failures(raw, order) \subseteq {"FAIL", "UNSUPPORTED"}
  OBVIOUS
<1> DEFINE Two == {"FAIL", "UNSUPPORTED"}
<1> DEFINE bundles == Parsed(raw.bundle)  results == Parsed(raw.result)  receipts == Parsed(raw.receipt)
<1>0. {"FAIL", "UNSUPPORTED"} \subseteq Two
  OBVIOUS
<1> HIDE DEF Two
<1>1. \A docs : AdmissionFailures(docs) \subseteq Two
  BY <1>0 DEF AdmissionFailures, Unless
<1>2. BundleFailures(bundles) \subseteq Two
  BY <1>0 DEF BundleFailures, Unless
<1>3. ResultFailures(results, bundles, raw.bundle) \subseteq Two
  BY <1>0 DEF ResultFailures, Unless
<1>4. CountFailures(results, order) \subseteq Two
  BY <1>0 DEF CountFailures, Unless
<1>5. \A b, r : ReceiptRefusal(b, r) \subseteq Two
  BY <1>0 DEF ReceiptRefusal, Unless
<1>6. RecomputeFailures(bundles, results) \subseteq Two
  <2> DEFINE able == {p \in bundles \X results : p[1].schema = "own" /\ p[2].schema = "own"
                                               /\ p[1].ready /\ p[2].complete}
  <2>1. UNION {ReceiptRefusal(p[1], p[2]) : p \in able} \subseteq Two
    BY <1>5
  <2>2. QED
    BY <1>0, <2>1 DEF RecomputeFailures
<1>7. ReceiptFailures(receipts, bundles, results) \subseteq Two
  BY <1>0 DEF ReceiptFailures, Unless
<1>8. Failures(raw, order) \subseteq Two
  BY <1>1, <1>2, <1>3, <1>4, <1>6, <1>7 DEF Failures
<1>9. QED
  BY <1>8 DEF Two

LEMMA FailuresAreNonPass == \A raw, order : Failures(raw, order) \subseteq NonPass
BY FailuresAreTwo DEF NonPass

\* A pass is declared, and there are no failures.
LEMMA PassIsDeclared ==
  ASSUME NEW raw, NEW order, IsRaw(raw["receipt"], "receipt")
  PROVE  /\ (Outcome(raw, order) = "PASS") <=>
              Declared(Parsed(raw.receipt)) = {"PASS"} /\ Failures(raw, order) = {}
         /\ Outcome(raw, order) \in NonPass \cup {"PASS"}
<1> DEFINE D == Declared(Parsed(raw.receipt))
<1>1. Outcome(raw, order) = IF D = {"PASS"} THEN WorstStatus(Failures(raw, order))
                            ELSE IF D \cap NonPass # {} THEN WorstStatus(D) ELSE "NOT_ASSESSED"
  BY DEF Outcome, Failures
<1>2. D = {} \/ D = {raw.receipt.status}
  BY ParsedOf, RoleSet DEF Declared
<1>3. Failures(raw, order) # {} => WorstStatus(Failures(raw, order)) \in NonPass
  BY SomethingIsWorst, FailuresAreNonPass
<1>4. D \cap NonPass # {} => WorstStatus(D) \in NonPass
  <2>1. D \cap NonPass # {} => D \subseteq NonPass /\ D # {}
    BY <1>2
  <2>2. QED
    BY <2>1, SomethingIsWorst
<1>5. "PASS" \notin NonPass /\ "NOT_ASSESSED" \in NonPass
  BY DEF NonPass
<1> HIDE DEF D
<1>6. QED
  <2>1. Outcome(raw, order) \in NonPass \cup {"PASS"}
    BY <1>1, <1>3, <1>4, <1>5, NothingIsWorst
  <2>2. ASSUME D = {"PASS"}, Failures(raw, order) = {} PROVE Outcome(raw, order) = "PASS"
    BY <1>1, <2>2, NothingIsWorst
  <2>3. ASSUME Outcome(raw, order) = "PASS" PROVE D = {"PASS"} /\ Failures(raw, order) = {}
    BY <1>1, <1>3, <1>4, <1>5, <2>3
  <2>4. QED
    BY <2>1, <2>2, <2>3 DEF D

\* Without failures, three documents have been read, and each set is of them.
LEMMA FailuresOfDocuments ==
  ASSUME NEW raw, NEW order, \A role \in Roles : raw[role].kind = role
  PROVE  /\ Parsed(raw.bundle) = {raw.bundle} /\ Parsed(raw.result) = {raw.result}
         /\ Parsed(raw.receipt) = {raw.receipt}
         /\ (Failures(raw, order) = {}) <=>
              /\ AdmissionFailures({raw.bundle}) = {} /\ AdmissionFailures({raw.result}) = {}
              /\ AdmissionFailures({raw.receipt}) = {} /\ BundleFailures({raw.bundle}) = {}
              /\ ResultFailures({raw.result}, {raw.bundle}, raw.bundle) = {}
              /\ CountFailures({raw.result}, order) = {}
              /\ RecomputeFailures({raw.bundle}, {raw.result}) = {}
              /\ Repeated(raw.receipt, raw.bundle, raw.result)
<1>1. raw.bundle.kind = "bundle" /\ raw.result.kind = "result" /\ raw.receipt.kind = "receipt"
  BY RoleSet
<1>2. /\ Parsed(raw.bundle) = {raw.bundle} /\ Parsed(raw.result) = {raw.result}
      /\ Parsed(raw.receipt) = {raw.receipt}
  BY <1>1 DEF Parsed
<1>3. QED
  BY <1>2 DEF Failures, Repeated

LEMMA NothingReadFails ==
  ASSUME NEW raw, NEW order, Failures(raw, order) = {}
  PROVE  Parsed(raw.bundle) # {} /\ Parsed(raw.result) # {} /\ Parsed(raw.receipt) # {}
<1>1. AdmissionFailures({}) # {}
  BY DEF AdmissionFailures, Unless
<1>2. QED
  BY <1>1 DEF Failures

\* Together the conditions say that the documents tell one story.
LEMMA ConsistentDocuments ==
  ASSUME NEW raw, NEW order, AllRaw(raw), \A role \in Roles : raw[role].kind = role
  PROVE  (raw.receipt.status = "PASS" /\ Failures(raw, order) = {}) <=> Consistent(raw, order)
<1> DEFINE b == raw.bundle  r == raw.result  p == raw.receipt
<1>0. r.shots.integer => r.shots.value \in Int
  BY RoleSet DEF AllRaw, IsRaw
<1>1. (Failures(raw, order) = {}) <=>
        /\ AdmissionFailures({b}) = {} /\ AdmissionFailures({r}) = {} /\ AdmissionFailures({p}) = {}
        /\ BundleFailures({b}) = {} /\ ResultFailures({r}, {b}, b) = {}
        /\ CountFailures({r}, order) = {} /\ RecomputeFailures({b}, {r}) = {}
        /\ Repeated(p, b, r)
  BY FailuresOfDocuments
<1>2. Consistent(raw, order) <=>
        /\ b.schema = "own" /\ b.conforms /\ r.schema = "own" /\ r.conforms
        /\ p.schema = "own" /\ p.conforms
        /\ b.ready /\ b.compiled /\ Malformed \notin {b.source, b.declared}
        /\ r.complete /\ r.typed /\ r.legal /\ r.shots.integer
        /\ order \in Orders /\ r.order \in {order, Absent}
        /\ {b.shots, r.shots.value, p.shots} = {CountTotal(r)} /\ b.shots > 0
        /\ {b.target, r.target} = {p.target} /\ r.bundle \in {b, Absent}
        /\ p.bundle = b /\ p.result = r /\ p.counts = r.counts
        /\ p.status = "PASS" /\ p.rest = "repeated"
  <2>1. raw["bundle"] = b /\ raw["result"] = r /\ raw["receipt"] = p
    OBVIOUS
  <2> HIDE DEF b, r, p
  <2>2. (\A role \in Roles : raw[role].kind = role /\ raw[role].schema = "own" /\ raw[role].conforms) <=>
          /\ b.schema = "own" /\ b.conforms /\ r.schema = "own" /\ r.conforms
          /\ p.schema = "own" /\ p.conforms
    BY <2>1, RoleSet
  <2>3. QED
    BY <2>1, <2>2, Zenon DEF Consistent, Judgeable
<1>3. (r.shots.value \in Int /\ r.shots.value > 0) =>
        ((ReceiptRefusal(b, r) = {}) <=>
           /\ r.target = b.target /\ r.shots.value = b.shots /\ r.legal
           /\ CountTotal(r) = r.shots.value /\ r.bundle \in {Absent, b})
  BY RefusalHolds
<1> HIDE DEF b, r, p
<1>4. ASSUME p.status = "PASS", Failures(raw, order) = {} PROVE Consistent(raw, order)
  <2>1. r.shots.integer /\ r.shots.value = b.shots /\ b.shots > 0 /\ r.complete /\ r.typed /\ r.target = b.target
    BY <1>1, <1>4, ResultHolds
  <2>2. r.shots.value \in Int /\ r.shots.value > 0
    BY <1>0, <2>1
  <2>3. ReceiptRefusal(b, r) = {}
    BY <1>1, <1>4, RecomputeHolds
  <2>4. CountTotal(r) = r.shots.value /\ r.bundle \in {Absent, b}
    BY <1>3, <2>2, <2>3
  <2>5. order \in Orders /\ r.order \in {Absent, order} /\ r.legal
    BY <1>1, <1>4, CountHolds
  <2>6. /\ b.schema = "own" /\ b.conforms /\ r.schema = "own" /\ r.conforms
        /\ p.schema = "own" /\ p.conforms
    BY <1>1, <1>4, AdmissionHolds
  <2>7. b.ready /\ Malformed \notin {b.source, b.declared} /\ b.compiled
    BY <1>1, <1>4, BundleHolds
  <2>8. /\ p.bundle = b /\ p.result = r /\ p.target = r.target /\ p.shots = r.shots.value
        /\ p.counts = r.counts /\ p.rest = "repeated"
    BY <1>1, <1>4, ReceiptHolds
  <2>9. {b.shots, r.shots.value, p.shots} = {CountTotal(r)} /\ {b.target, r.target} = {p.target}
    BY <2>1, <2>4, <2>8
  <2>10. QED
    BY <1>2, <1>4, <2>1, <2>4, <2>5, <2>6, <2>7, <2>8, <2>9
<1>5. ASSUME Consistent(raw, order) PROVE p.status = "PASS" /\ Failures(raw, order) = {}
  <2>1. /\ r.shots.value = b.shots /\ p.shots = r.shots.value /\ CountTotal(r) = r.shots.value
        /\ b.target = p.target /\ r.target = p.target
    BY <1>2, <1>5
  <2>2. r.shots.value \in Int /\ r.shots.value > 0
    BY <1>0, <1>2, <1>5, <2>1
  <2>3. AddsUp(r)
    BY <1>2, <1>5, <2>1 DEF AddsUp
  <2>4. ReceiptRefusal(b, r) = {}
    BY <1>2, <1>3, <1>5, <2>1, <2>2
  <2>5. ResultFailures({r}, {b}, b) = {}
    BY <1>2, <1>5, <2>1, ResultHolds
  <2>6. CountFailures({r}, order) = {}
    BY <1>2, <1>5, <2>3, CountHolds
  <2>7. RecomputeFailures({b}, {r}) = {}
    BY <1>2, <1>5, <2>4, RecomputeHolds
  <2>8. Repeated(p, b, r)
    BY <1>2, <1>5, <2>1, ReceiptHolds
  <2>9. AdmissionFailures({b}) = {} /\ AdmissionFailures({r}) = {} /\ AdmissionFailures({p}) = {}
    BY <1>2, <1>5, AdmissionHolds
  <2>10. BundleFailures({b}) = {}
    BY <1>2, <1>5, BundleHolds
  <2>11. QED
    BY <1>1, <1>2, <1>5, <2>5, <2>6, <2>7, <2>8, <2>9, <2>10
<1>6. QED
  BY <1>4, <1>5 DEF p

\* The judgement passes exactly three documents that tell one story.
LEMMA PassIsConsistent ==
  ASSUME NEW raw, NEW order, AllRaw(raw)
  PROVE  (Outcome(raw, order) = "PASS") <=> Consistent(raw, order)
<1>1. /\ IsRaw(raw["bundle"], "bundle") /\ IsRaw(raw["result"], "result")
      /\ IsRaw(raw["receipt"], "receipt")
  BY RoleSet DEF AllRaw
<1>2. (Outcome(raw, order) = "PASS") <=>
         Declared(Parsed(raw.receipt)) = {"PASS"} /\ Failures(raw, order) = {}
  BY <1>1, PassIsDeclared
<1>3. CASE \A role \in Roles : raw[role].kind = role
  <2>1. Declared(Parsed(raw.receipt)) = {raw.receipt.status}
    <3>1. Parsed(raw.receipt) = {raw.receipt}
      BY <1>3, FailuresOfDocuments
    <3>2. QED
      BY <3>1 DEF Declared
  <2>2. QED
    BY <1>2, <1>3, <2>1, ConsistentDocuments
<1>4. CASE ~ \A role \in Roles : raw[role].kind = role
  <2>1. ~Consistent(raw, order)
    BY <1>4 DEF Consistent, Judgeable
  <2>2. PICK role \in Roles : raw[role].kind # role
    BY <1>4
  <2>3. Parsed(raw[role]) = {}
    BY <2>2, ParsedOf DEF AllRaw
  <2>4. Failures(raw, order) # {}
    <3>1. role = "bundle" \/ role = "result" \/ role = "receipt"
      BY RoleSet
    <3>2. QED
      BY <2>3, <3>1, NothingReadFails
  <2>5. QED
    BY <1>2, <2>1, <2>4
<1>5. QED
  BY <1>3, <1>4

\* Of three documents one is unsupported exactly if nothing can be said of them.
LEMMA UnsupportedIsUnjudgeable ==
  ASSUME NEW raw, NEW order, AllRaw(raw)
  PROVE  ("UNSUPPORTED" \in Failures(raw, order)) <=> ~Judgeable(raw, order)
<1>1. CASE \A role \in Roles : raw[role].kind = role
  <2> DEFINE b == raw.bundle  r == raw.result  p == raw.receipt
  <2>1. /\ Parsed(raw.bundle) = {b} /\ Parsed(raw.result) = {r} /\ Parsed(raw.receipt) = {p}
    BY <1>1, FailuresOfDocuments
  <2>2. Failures(raw, order) =
          AdmissionFailures({b}) \cup AdmissionFailures({r}) \cup AdmissionFailures({p})
            \cup BundleFailures({b}) \cup ResultFailures({r}, {b}, b) \cup CountFailures({r}, order)
            \cup RecomputeFailures({b}, {r})
            \cup (IF RecomputeFailures({b}, {r}) = {} THEN ReceiptFailures({p}, {b}, {r}) ELSE {})
    BY <2>1, Zenon DEF Failures
  <2>3. Judgeable(raw, order) <=>
          /\ b.schema = "own" /\ b.conforms /\ r.schema = "own" /\ r.conforms
          /\ p.schema = "own" /\ p.conforms
          /\ b.ready /\ b.compiled /\ Malformed \notin {b.source, b.declared}
          /\ r.complete /\ r.typed /\ r.legal
          /\ order \in Orders /\ r.order \in {order, Absent}
    <3>1. raw["bundle"] = b /\ raw["result"] = r /\ raw["receipt"] = p
      OBVIOUS
    <3> HIDE DEF b, r, p
    <3>2. (\A role \in Roles : raw[role].kind = role /\ raw[role].schema = "own" /\ raw[role].conforms) <=>
            /\ b.schema = "own" /\ b.conforms /\ r.schema = "own" /\ r.conforms
            /\ p.schema = "own" /\ p.conforms
      BY <1>1, <3>1, RoleSet
    <3>3. QED
      BY <3>1, <3>2, Zenon DEF Judgeable
  <2> HIDE DEF b, r, p
  <2>4. \A d \in {b, r, p} : ("UNSUPPORTED" \in AdmissionFailures({d})) <=> ~(d.schema = "own" /\ d.conforms)
    BY DEF AdmissionFailures, Unless
  <2>5. ("UNSUPPORTED" \in BundleFailures({b})) <=>
          ~(b.ready /\ Malformed \notin {b.source, b.declared} /\ b.compiled)
    BY DEF BundleFailures, Unless
  <2>6. ("UNSUPPORTED" \in ResultFailures({r}, {b}, b)) <=> ~(r.complete /\ r.typed)
    BY DEF ResultFailures, Complete, Unless
  <2>7. ("UNSUPPORTED" \in CountFailures({r}, order)) <=>
          ~(order \in Orders /\ r.order \in {Absent, order} /\ r.legal)
    BY DEF CountFailures, Unless
  <2>8. "UNSUPPORTED" \in RecomputeFailures({b}, {r}) =>
          ~(b.schema = "own" /\ r.schema = "own" /\ b.ready /\ r.complete /\ r.legal)
    <3>1. SUFFICES ASSUME b.schema = "own", r.schema = "own", b.ready, r.complete, r.legal
                   PROVE  "UNSUPPORTED" \notin RecomputeFailures({b}, {r})
      OBVIOUS
    <3>2. RecomputeFailures({b}, {r}) = ReceiptRefusal(b, r)
      <4> DEFINE able == {q \in {b} \X {r} : q[1].schema = "own" /\ q[2].schema = "own" /\ q[1].ready /\ q[2].complete}
      <4>1. able = {<<b, r>>}
        BY <3>1
      <4>2. RecomputeFailures({b}, {r}) = UNION {ReceiptRefusal(q[1], q[2]) : q \in {<<b, r>>}}
        BY <4>1 DEF RecomputeFailures
      <4>3. \A q \in {<<b, r>>} : ReceiptRefusal(q[1], q[2]) = ReceiptRefusal(b, r)
        OBVIOUS
      <4>4. {ReceiptRefusal(q[1], q[2]) : q \in {<<b, r>>}} = {ReceiptRefusal(b, r)}
        BY <4>3
      <4>5. QED
        BY <4>2, <4>4
    <3>3. "UNSUPPORTED" \notin ReceiptRefusal(b, r)
      BY <3>1 DEF ReceiptRefusal, Unless
    <3>4. QED
      BY <3>2, <3>3
  <2>9. "UNSUPPORTED" \notin ReceiptFailures({p}, {b}, {r})
    BY DEF ReceiptFailures, Unless
  <2>10. QED
    BY <2>2, <2>3, <2>4, <2>5, <2>6, <2>7, <2>8, <2>9
<1>2. CASE ~ \A role \in Roles : raw[role].kind = role
  <2>1. ~Judgeable(raw, order)
    BY <1>2 DEF Judgeable
  <2>2. PICK role \in Roles : raw[role].kind # role
    BY <1>2
  <2>3. Parsed(raw[role]) = {}
    BY <2>2, ParsedOf DEF AllRaw
  <2>4. "UNSUPPORTED" \in AdmissionFailures({})
    BY DEF AdmissionFailures, Unless
  <2>5. role = "bundle" \/ role = "result" \/ role = "receipt"
    BY RoleSet
  <2>6. "UNSUPPORTED" \in Failures(raw, order)
    BY <2>3, <2>4, <2>5 DEF Failures
  <2>7. QED
    BY <2>1, <2>6
<1>3. QED
  BY <1>1, <1>2

\* The outcome of the checks, one by one, is what the documents call for.
LEMMA OutcomeIsJudgement ==
  ASSUME NEW raw, NEW order, AllRaw(raw)
  PROVE  Outcome(raw, order) = Judgement(raw, order)
<1> DEFINE D == Declared(Parsed(raw.receipt))
<1>0. IsRaw(raw["receipt"], "receipt")
  BY RoleSet DEF AllRaw
<1>1. Outcome(raw, order) = IF D = {"PASS"} THEN WorstStatus(Failures(raw, order))
                            ELSE IF D \cap NonPass # {} THEN WorstStatus(D) ELSE "NOT_ASSESSED"
  BY DEF Outcome, Failures
<1>2. \/ raw.receipt.kind # "receipt" /\ D = {}
      \/ raw.receipt.kind = "receipt" /\ D = {raw.receipt.status}
  BY <1>0, ParsedOf, RoleSet DEF Declared
<1> HIDE DEF D
<1>3. CASE raw.receipt.kind # "receipt"
  BY <1>1, <1>2, <1>3 DEF Judgement
<1>4. CASE raw.receipt.kind = "receipt" /\ raw.receipt.status # "PASS"
  <2>1. raw.receipt.status \in NonPass => WorstStatus({raw.receipt.status}) = raw.receipt.status
    <3>1. raw.receipt.status \in NonPass => WorstStatus({raw.receipt.status}) \in {raw.receipt.status}
      BY SomethingIsWorst
    <3>2. QED
      BY <3>1
  <2>2. Judgement(raw, order) = IF raw.receipt.status \in NonPass THEN raw.receipt.status ELSE "NOT_ASSESSED"
    BY <1>4 DEF Judgement
  <2>3. D = {raw.receipt.status} /\ D # {"PASS"}
    BY <1>2, <1>4
  <2>4. QED
    BY <1>1, <2>1, <2>2, <2>3
<1>5. CASE raw.receipt.kind = "receipt" /\ raw.receipt.status = "PASS"
  <2>1. Outcome(raw, order) = IF "UNSUPPORTED" \in Failures(raw, order) THEN "UNSUPPORTED"
                              ELSE IF Failures(raw, order) = {} THEN "PASS" ELSE "FAIL"
    <3>1. Outcome(raw, order) = WorstStatus(Failures(raw, order))
      BY <1>1, <1>2, <1>5
    <3>2. QED
      BY <3>1, FailuresAreTwo, WorstOfTwo
  <2>2. (Outcome(raw, order) = "PASS") <=> Consistent(raw, order)
    BY PassIsConsistent
  <2>3. ("UNSUPPORTED" \in Failures(raw, order)) <=> ~Judgeable(raw, order)
    BY UnsupportedIsUnjudgeable
  <2>4. Judgement(raw, order) = IF ~Judgeable(raw, order) THEN "UNSUPPORTED"
                                ELSE IF Consistent(raw, order) THEN "PASS" ELSE "FAIL"
    BY <1>5 DEF Judgement
  <2>5. QED
    BY <2>1, <2>2, <2>3, <2>4
<1>6. QED
  BY <1>3, <1>4, <1>5

\* What computing the records raises is of documents that do not tell one story.
LEMMA RaisingIsInconsistent ==
  ASSUME NEW raw, NEW order, DividesByZero(raw) \/ Unhashable(raw)
  PROVE  ~Consistent(raw, order)
<1> SUFFICES ASSUME Consistent(raw, order) PROVE FALSE
  OBVIOUS
<1>1. /\ raw.bundle.shots > 0 /\ raw.result.shots.value = raw.bundle.shots
      /\ raw.receipt.status = "PASS"
  BY DEF Consistent
<1>2. CASE DividesByZero(raw)
  <2>1. raw.result.shots.value = 0
    BY <1>2 DEF DividesByZero, Parsed
  <2>2. QED
    BY <1>1, <2>1
<1>3. CASE Unhashable(raw)
  <2>1. raw.receipt.status = Malformed
    BY <1>3 DEF Unhashable, Declared, Parsed
  <2>2. QED
    BY <1>1, <2>1, FieldAssumption
<1>4. QED
  BY <1>2, <1>3

-----------------------------------------------------------------------------
(* The graph of a receipt.                                                 *)

Parts == {"sources", "order", "represents", "typed", "mappings", "claim", "dialect", "f1"}

\* A graph, edited or not, holds bytes of each role.
IsGraph(g) ==
  /\ DOMAIN g = Parts /\ g = [x \in Parts |-> g[x]] /\ g.f1 \in BOOLEAN
  /\ DOMAIN g.sources = Roles
  /\ \A role \in Roles : /\ DOMAIN g.sources[role] = {"bytes", "digest"}
                         /\ IsRaw(g.sources[role].bytes, role)

IsCapture(raw) == raw = [role \in Roles |-> raw[role]] /\ AllRaw(raw)

\* The graph of a capture preserves it, claims what it supports, and validates as that.
LEMMA GraphAsBuilt ==
  ASSUME NEW raw, NEW order, IsCapture(raw)
  PROVE  LET g == EvidenceOf(raw, order)
         IN  /\ IsGraph(g) /\ Bytes(g) = raw /\ g.order = order /\ g.f1 /\ g.dialect = "legacy"
             /\ \A role \in Roles : Recoverable(g, role)
             /\ g.typed.assessment.status = Outcome(raw, order)
             /\ ~DividesByZero(raw) /\ ~Unhashable(raw) => Validated(g) = Outcome(raw, order)
             /\ g.claim = Consistent(raw, order)
<1> DEFINE g == EvidenceOf(raw, order)
<1>1. /\ g.sources = [role \in Roles |-> Source(raw[role])] /\ g.order = order
      /\ g.represents = [role \in Roles |-> Representation(raw[role])]
      /\ g.typed = Typed(raw, order) /\ g.claim = (Typed(raw, order).assessment.status = "PASS")
      /\ g.f1 = TRUE /\ g.dialect = "legacy"
      /\ DOMAIN g = Parts /\ g = [x \in Parts |-> g[x]]
  BY DEF EvidenceOf, Parts
<1>2. Typed(raw, order).assessment.status = Outcome(raw, order)
  BY DEF Typed
<1> HIDE DEF g
<1>3. \A role \in Roles : /\ DOMAIN g.sources[role] = {"bytes", "digest"}
                         /\ g.sources[role].bytes = raw[role] /\ g.sources[role].digest = raw[role]
  BY <1>1 DEF Source
<1>4. IsGraph(g)
  <2>1. \A role \in Roles : IsRaw(raw[role], role)
    BY DEF IsCapture, AllRaw
  <2>2. DOMAIN g.sources = Roles
    BY <1>1
  <2>3. QED
    BY <1>1, <1>3, <2>1, <2>2 DEF IsGraph
<1>5. Bytes(g) = raw
  <2>1. Bytes(g) = [role \in Roles |-> raw[role]]
    BY <1>3 DEF Bytes
  <2>2. QED
    BY <2>1 DEF IsCapture
<1>6. \A role \in Roles : Recoverable(g, role)
  BY <1>1, <1>3 DEF Recoverable
<1>7. \A role \in Roles : g.represents[role] = Representation(raw[role])
  BY <1>1
<1>8. ~DividesByZero(raw) /\ ~Unhashable(raw) => Validated(g) = Outcome(raw, order)
  <2>1. Carried(g)
    BY <1>1, <1>5, <1>6, <1>7 DEF Carried
  <2>2. QED
    BY <1>1, <1>2, <1>5, <2>1 DEF Validated
<1>9. (Outcome(raw, order) = "PASS") <=> Consistent(raw, order)
  BY PassIsConsistent DEF IsCapture
<1>10. Consistent(raw, order) \in BOOLEAN
  BY DEF Consistent
<1>11. g.claim = Consistent(raw, order)
  <2>1. g.claim = (Outcome(raw, order) = "PASS")
    BY <1>1, <1>2
  <2>2. CASE Consistent(raw, order)
    BY <1>9, <2>1, <2>2
  <2>3. CASE ~Consistent(raw, order)
    <3>1. g.claim = FALSE
      BY <1>9, <2>1, <2>3
    <3>2. Consistent(raw, order) = FALSE
      BY <1>10, <2>3
    <3>3. QED
      BY <3>1, <3>2
  <2>4. QED
    BY <2>2, <2>3
<1>12. QED
  BY <1>1, <1>2, <1>4, <1>5, <1>6, <1>8, <1>11 DEF g

\* A graph that validates, edited or not, tells one story and claims it.
LEMMA ValidGraph ==
  ASSUME NEW g, IsGraph(g), Validated(g) = "PASS"
  PROVE  /\ Consistent(Bytes(g), g.order) /\ g.claim /\ g.f1
         /\ \A role \in Roles : g.represents[role].status = "PASS"
<1> DEFINE raw == Bytes(g)
<1>1. /\ g.f1 /\ \A role \in Roles : g.represents[role] = Representation(raw[role])
      /\ g.typed = Typed(raw, g.order) /\ g.claim = (Typed(raw, g.order).assessment.status = "PASS")
      /\ Typed(raw, g.order).assessment.status = "PASS"
  <2>1. Carried(g)
    BY DEF Validated
  <2>2. QED
    BY <2>1 DEF Validated, Carried
<1>2. Outcome(raw, g.order) = "PASS"
  BY <1>1 DEF Typed
<1>3. AllRaw(raw)
  BY DEF IsGraph, AllRaw, Bytes
<1>4. Consistent(raw, g.order)
  BY <1>2, <1>3, PassIsConsistent
<1>5. ASSUME NEW role \in Roles PROVE Representation(raw[role]).status = "PASS"
  <2> DEFINE r == raw[role]
  <2>1. r.kind = role /\ r.schema = "own" /\ r.conforms
    BY <1>4 DEF Consistent, Judgeable
  <2>2. Parsed(r) = {r}
    BY <2>1, RoleSet DEF Parsed
  <2> HIDE DEF r
  <2>3. AdmissionFailures(Parsed(r)) = {}
    BY <2>1, <2>2, AdmissionHolds
  <2>4. QED
    BY <2>3, NothingIsWorst DEF Representation, r
<1>6. QED
  BY <1>1, <1>4, <1>5

\* Any one of the edits leaves a graph.
LEMMA EditedGraph ==
  ASSUME NEW s, NEW g, NEW h,
         \A raw \in s.later : \A role \in Roles : raw.kind \in {role, "garbage"} => IsRaw(raw, role),
         IsGraph(g), supplied = s, h \in Alterations(g)
  PROVE  IsGraph(h)
<1>1. DOMAIN g = Parts /\ DOMAIN g.sources = Roles
  BY DEF IsGraph
<1>2. CASE \/ h = [g EXCEPT !.claim = ~@] \/ h = [g EXCEPT !.typed.assessment.status = "PASS"]
           \/ h = [g EXCEPT !.typed.observation.status = "PASS"]
           \/ h = [g EXCEPT !.mappings.counts = "validated"]
           \/ h = [g EXCEPT !.dialect = "other"] \/ h = [g EXCEPT !.f1 = FALSE]
           \/ \E o \in Orders : h = [g EXCEPT !.order = o]
           \/ \E role \in Roles : h = [g EXCEPT !.represents[role].status = "PASS"]
  <2>1. DOMAIN h = Parts /\ h = [x \in Parts |-> h[x]] /\ h.sources = g.sources
    BY <1>1, <1>2 DEF Parts
  <2>2. h.f1 \in {g.f1, FALSE}
    BY <1>1, <1>2 DEF Parts
  <2>3. QED
    BY <2>1, <2>2 DEF IsGraph
<1>3. ASSUME NEW raw \in s.later, raw.kind \in Roles,
             \/ h = [g EXCEPT !.sources[raw.kind].bytes = raw]
             \/ h = [g EXCEPT !.sources[raw.kind] = [bytes |-> raw, digest |-> raw]]
             \/ h = [g EXCEPT !.sources[raw.kind] = [bytes |-> raw, digest |-> raw],
                               !.represents[raw.kind] = Representation(raw)]
      PROVE  IsGraph(h)
  <2>1. IsRaw(raw, raw.kind)
    BY <1>3
  <2>2. DOMAIN h = Parts /\ h = [x \in Parts |-> h[x]] /\ h.f1 = g.f1
    BY <1>1, <1>3 DEF Parts
  <2>3. /\ DOMAIN h.sources = Roles
        /\ \A role \in Roles : role # raw.kind => h.sources[role] = g.sources[role]
    BY <1>1, <1>3 DEF Parts
  <2>4. DOMAIN h.sources[raw.kind] = {"bytes", "digest"} /\ h.sources[raw.kind].bytes = raw
    <3>1. DOMAIN g.sources[raw.kind] = {"bytes", "digest"}
      BY <1>3 DEF IsGraph
    <3>2. CASE h = [g EXCEPT !.sources[raw.kind].bytes = raw]
      <4>1. h.sources = [g.sources EXCEPT ![raw.kind].bytes = raw]
        BY <1>1, <3>2 DEF Parts
      <4>2. h.sources[raw.kind] = [g.sources[raw.kind] EXCEPT !.bytes = raw]
        BY <1>1, <1>3, <4>1
      <4>3. QED
        BY <3>1, <4>2
    <3>3. CASE h # [g EXCEPT !.sources[raw.kind].bytes = raw]
      <4>1. h.sources = [g.sources EXCEPT ![raw.kind] = [bytes |-> raw, digest |-> raw]]
        BY <1>1, <1>3, <3>3 DEF Parts
      <4>2. h.sources[raw.kind] = [bytes |-> raw, digest |-> raw]
        BY <1>1, <1>3, <4>1
      <4>3. QED
        BY <4>2
    <3>4. QED
      BY <3>2, <3>3
  <2>5. \A role \in Roles : DOMAIN h.sources[role] = {"bytes", "digest"} /\ IsRaw(h.sources[role].bytes, role)
    BY <2>1, <2>3, <2>4 DEF IsGraph
  <2>6. QED
    BY <2>2, <2>3, <2>5 DEF IsGraph
<1>4. QED
  BY <1>2, <1>3 DEF Alterations

-----------------------------------------------------------------------------
(* The workflow of a receipt.                                              *)

IsSupply(s) ==
  /\ DOMAIN s = {"files", "order", "distinct", "later"} /\ DOMAIN s.files = Roles
  /\ \A role \in Roles : \/ s.files[role] = Absent \/ s.files[role].kind = "oversized"
                         \/ IsRaw(s.files[role], role)
  /\ \A raw \in s.later : \A role \in Roles : raw.kind \in {role, "garbage"} => IsRaw(raw, role)

\* What is read when, and that every graph has come of what was read.
Captures ==
  /\ phase # "idle" => IsSupply(supplied)
  /\ captured = [role \in Roles |-> captured[role]]
  /\ phase \in {"result", "receipt", "build", "built", "raised"} => IsRaw(captured["bundle"], "bundle")
  /\ phase \in {"receipt", "build", "built", "raised"} => IsRaw(captured["result"], "result")
  /\ phase \in {"build", "built", "raised"} => IsRaw(captured["receipt"], "receipt")

\* The graph and its validation.
Preserved ==
  /\ evidence # Absent => phase = "built"
  /\ phase = "built" => IsGraph(evidence)
  /\ phase # "built" => verdict = "none" /\ tampered = 0
  /\ tampered \in Nat
  /\ phase = "raised" => DividesByZero(captured) \/ Unhashable(captured)
  /\ phase = "built" /\ tampered = 0 =>
       /\ evidence = EvidenceOf(captured, supplied.order)
       /\ ~DividesByZero(captured) /\ ~Unhashable(captured)
  /\ phase = "built" => verdict \in {"none", Validated(evidence)}

ReceiptInv == Captures /\ Preserved

LEMMA ReceiptInvInit == ReceiptInit \/ ReceiptIdle => ReceiptInv
<1> SUFFICES ASSUME ReceiptInit \/ ReceiptIdle PROVE ReceiptInv
  OBVIOUS
<1>1. phase # "idle" => IsSupply(supplied)
  BY SuppliedAssumption DEF ReceiptInit, ReceiptIdle, IsSupply
<1>2. captured = [role \in Roles |-> captured[role]]
  BY DEF ReceiptInit, ReceiptIdle, NothingRead
<1>3. phase \in {"start", "idle"} /\ evidence = Absent /\ verdict = "none" /\ tampered = 0
  BY DEF ReceiptInit, ReceiptIdle
<1>4. QED
  BY <1>1, <1>2, <1>3 DEF ReceiptInv, Captures, Preserved

LEMMA ReadInputInv ==
  ASSUME ReceiptInv, NEW role \in Roles, NEW next, ReadInput(role, next),
         <<role, next>> \in {<<"bundle", "result">>, <<"result", "receipt">>, <<"receipt", "build">>}
  PROVE  ReceiptInv'
<1>0. /\ phase = role /\ UNCHANGED <<supplied, evidence, tampered, verdict>> /\ role # "idle"
      /\ phase \notin {"built", "raised"} /\ next \notin {"built", "idle", "raised"}
  BY RoleSet DEF ReadInput
<1>1. CASE phase' = "refused" /\ UNCHANGED captured
  BY <1>0, <1>1 DEF ReceiptInv, Captures, Preserved
<1>2. CASE /\ Readable(supplied.files[role])
           /\ captured' = [captured EXCEPT ![role] = supplied.files[role]] /\ phase' = next
  <2> DEFINE raw == supplied.files[role]
  <2>1. IsRaw(raw, role)
    BY <1>0, <1>2 DEF ReceiptInv, Captures, IsSupply, Readable
  <2> HIDE DEF raw
  <2>2. /\ captured' = [r \in Roles |-> captured'[r]] /\ captured'[role] = raw
        /\ \A r \in Roles : r # role => captured'[r] = captured[r]
    BY <1>2 DEF ReceiptInv, Captures, raw
  <2>3. Captures'
    BY <1>0, <1>2, <2>1, <2>2, RoleSet DEF ReceiptInv, Captures
  <2>4. Preserved'
    BY <1>0, <1>2 DEF ReceiptInv, Preserved
  <2>5. QED
    BY <2>3, <2>4 DEF ReceiptInv
<1>3. QED
  BY <1>1, <1>2 DEF ReadInput

LEMMA WorkflowInv ==
  ASSUME ReceiptInv, Workflow
  PROVE  ReceiptInv'
<1>1. CASE CheckReferences
  BY <1>1 DEF CheckReferences, ReceiptInv, Captures, Preserved
<1>2. CASE ReadInput("bundle", "result")
  BY <1>2, RoleSet, ReadInputInv
<1>3. CASE ReadInput("result", "receipt")
  BY <1>3, RoleSet, ReadInputInv
<1>4. CASE ReadInput("receipt", "build")
  BY <1>4, RoleSet, ReadInputInv
<1>5. CASE BuildEvidence
  <2> DEFINE g == EvidenceOf(captured, supplied.order)
  <2>0. phase = "build" /\ UNCHANGED <<supplied, captured, tampered, verdict>>
    BY <1>5 DEF BuildEvidence
  <2>1. IsCapture(captured)
    BY <2>0, RoleSet DEF ReceiptInv, Captures, IsCapture, AllRaw
  <2>2. IsGraph(g)
    BY <2>1, GraphAsBuilt
  <2> HIDE DEF g
  <2>3. CASE phase' = "refused" /\ UNCHANGED evidence
    BY <2>0, <2>3 DEF ReceiptInv, Captures, Preserved
  <2>4. CASE /\ DividesByZero(captured) \/ Unhashable(captured)
             /\ phase' = "raised" /\ UNCHANGED evidence
    <3>1. Captures'
      BY <2>0, <2>4 DEF ReceiptInv, Captures
    <3>2. (DividesByZero(captured) \/ Unhashable(captured))'
      BY <2>0, <2>4 DEF DividesByZero, Unhashable
    <3>3. Preserved'
      BY <2>0, <2>4, <3>2 DEF ReceiptInv, Preserved
    <3>4. QED
      BY <3>1, <3>3 DEF ReceiptInv
  <2>5. CASE /\ ~DividesByZero(captured) /\ ~Unhashable(captured)
             /\ phase' = "built" /\ evidence' = g
    <3>1. Captures'
      BY <2>0, <2>5 DEF ReceiptInv, Captures
    <3>2. (~DividesByZero(captured) /\ ~Unhashable(captured))'
      BY <2>0, <2>5 DEF DividesByZero, Unhashable
    <3>3. Preserved'
      BY <2>0, <2>2, <2>5, <3>2 DEF ReceiptInv, Preserved, g
    <3>4. QED
      BY <3>1, <3>3 DEF ReceiptInv
  <2>6. QED
    BY <1>5, <2>3, <2>4, <2>5 DEF BuildEvidence, g
<1>6. CASE ValidateEvidence
  BY <1>6 DEF ValidateEvidence, ReceiptInv, Captures, Preserved
<1>7. QED
  BY <1>1, <1>2, <1>3, <1>4, <1>5, <1>6 DEF Workflow

LEMMA ReplaceFileInv ==
  ASSUME ReceiptInv, ReplaceFile
  PROVE  ReceiptInv'
<1>0. /\ phase \in Roles \cup {"build"}
      /\ UNCHANGED <<captured, evidence, tampered, verdict, phase>>
  BY DEF ReplaceFile
<1>1. PICK role \in Roles, raw \in supplied.later :
        /\ raw.kind \in {role, "garbage"}
        /\ supplied' = [supplied EXCEPT !.files[role] = raw, !.later = @ \ {raw}]
  BY DEF ReplaceFile
<1>2. IsSupply(supplied)
  BY <1>0, RoleSet DEF ReceiptInv, Captures
<1>3. IsRaw(raw, role)
  BY <1>1, <1>2 DEF IsSupply
<1>4. /\ DOMAIN supplied' = {"files", "order", "distinct", "later"} /\ DOMAIN supplied'.files = Roles
      /\ supplied'.files[role] = raw
      /\ \A r \in Roles : r # role => supplied'.files[r] = supplied.files[r]
      /\ supplied'.later \subseteq supplied.later
  BY <1>1, <1>2 DEF IsSupply
<1>5. IsSupply(supplied')
  BY <1>2, <1>3, <1>4 DEF IsSupply
<1>6. phase # "built"
  BY <1>0, RoleSet
<1>7. QED
  BY <1>0, <1>5, <1>6 DEF ReceiptInv, Captures, Preserved

LEMMA TamperInv ==
  ASSUME ReceiptInv, Tamper
  PROVE  ReceiptInv'
<1>0. /\ phase = "built" /\ tampered' = tampered + 1 /\ verdict' = "none"
      /\ UNCHANGED <<supplied, captured, phase>> /\ evidence' \in Alterations(evidence)
  BY DEF Tamper
<1>1. IsGraph(evidence')
  <2>1. IsGraph(evidence) /\ IsSupply(supplied)
    BY <1>0 DEF ReceiptInv, Captures, Preserved
  <2>2. QED
    BY <1>0, <2>1, EditedGraph DEF IsSupply
<1>2. tampered' \in Nat /\ tampered' # 0
  BY <1>0 DEF ReceiptInv, Preserved
<1>3. QED
  BY <1>0, <1>1, <1>2 DEF ReceiptInv, Captures, Preserved

LEMMA ReceiptInvClaims ==
  ASSUME ReceiptInv
  PROVE  LegacyClaimIsEarned
<1>0. phase = "raised" => ~Consistent(captured, supplied.order)
  BY RaisingIsInconsistent DEF ReceiptInv, Preserved
<1>1. evidence # Absent =>
        phase = "built" /\ IsGraph(evidence) /\ verdict \in {"none", Validated(evidence)}
  BY DEF ReceiptInv, Preserved
<1>2. ASSUME evidence # Absent, tampered = 0
      PROVE  /\ evidence.claim = Consistent(captured, evidence.order)
             /\ evidence.typed.assessment.status = Judgement(captured, evidence.order)
             /\ Bytes(evidence) = captured
             /\ verdict \in {"none", evidence.typed.assessment.status}
  <2>1. /\ evidence = EvidenceOf(captured, supplied.order)
        /\ ~DividesByZero(captured) /\ ~Unhashable(captured)
    BY <1>1, <1>2 DEF ReceiptInv, Preserved
  <2>2. IsCapture(captured)
    BY <1>1, <1>2, RoleSet DEF ReceiptInv, Captures, IsCapture, AllRaw
  <2>3. Outcome(captured, supplied.order) = Judgement(captured, supplied.order)
    BY <2>2, OutcomeIsJudgement DEF IsCapture
  <2> DEFINE g == EvidenceOf(captured, supplied.order)
  <2>4. /\ Bytes(g) = captured /\ g.order = supplied.order
        /\ g.typed.assessment.status = Outcome(captured, supplied.order)
        /\ Validated(g) = Outcome(captured, supplied.order)
        /\ g.claim = Consistent(captured, supplied.order)
    BY <2>1, <2>2, GraphAsBuilt
  <2> HIDE DEF g
  <2>5. evidence = g
    BY <2>1 DEF g
  <2>6. QED
    BY <1>1, <1>2, <2>3, <2>4, <2>5
<1>3. ASSUME evidence # Absent, verdict = "PASS"
      PROVE  /\ Consistent(Bytes(evidence), evidence.order)
             /\ evidence.claim /\ \A role \in Roles : evidence.represents[role].status = "PASS"
  <2>1. Validated(evidence) = "PASS"
    BY <1>1, <1>3
  <2>2. QED
    BY <1>1, <1>3, <2>1, ValidGraph
<1>4. QED
  BY <1>0, <1>2, <1>3 DEF LegacyClaimIsEarned

-----------------------------------------------------------------------------
(* The assessment of a request: what each part may rely on is what the     *)
(* parts before it have established.                                       *)

After(p) ==
  CASE p = "request" -> {"selection", "references", "unbound", "commitments", "graph"} \cup Roles \cup {"evidence", "links"}
    [] p = "selection" -> {"references", "unbound", "commitments", "graph"} \cup Roles \cup {"evidence", "links"}
    [] p = "references" -> {"commitments", "graph"} \cup Roles \cup {"evidence", "links"}
    [] p = "commitments" -> {"graph"} \cup Roles \cup {"evidence", "links"}
    [] p = "graph" -> Roles \cup {"evidence", "links"}
    [] p = "bundle" -> {"result", "receipt", "evidence", "links"}
    [] p = "result" -> {"receipt", "evidence", "links"}
    [] p = "receipt" -> {"evidence", "links"}
    [] p = "evidence" -> {"links"}

Established ==
  /\ part \in After("request") => request.shape = "fine" /\ request.supported
  /\ part \in After("selection") => request.plan.replays /\ request.plan.linked
  /\ part = "unbound" => request.plan.outcome # "unique"
  /\ part \in After("references") \cup {"references"} => request.plan.outcome = "unique"
  /\ part \in After("references") =>
       /\ Absent \notin {request.source, request.graph, request.bytes} /\ request.withGraph
       /\ "source" \in request.fits
       /\ request.source = request.bytes /\ request.graph = Identity(evidence)
       /\ binding.source = request.bytes /\ binding.graph = request.graph
  /\ part \in After("commitments") =>
       /\ "graph" \in request.fits /\ request.plan.retained
       /\ request.plan.member # Absent /\ WellFormed(request.plan.member)
       /\ {request.plan.member.source, request.plan.source} = {request.bytes}
  /\ part \in After("graph") => evidence.f1 /\ evidence.dialect = "legacy"
  /\ part \in After("bundle") => "bundle" \in request.fits
  /\ part \in After("result") => "result" \in request.fits
  /\ part \in After("receipt") => "receipt" \in request.fits
  /\ part \in After("evidence") => Validated(evidence) = "PASS"

\* Identities are named once they are established, and a witness with the result.
Named ==
  /\ part \in {"none", "request", "done", "raised"} \cup After("request")
  /\ part \in {"none", "request", "selection", "unbound", "references"} =>
       binding.source = Absent /\ binding.graph = Absent
  /\ part # "done" => binding.outcome = "none" /\ binding.witness = Absent
  /\ DOMAIN binding = {"outcome", "selection", "source", "graph", "witness"}

\* There is a graph to be bound, and nobody edits it once the assessment has begun.
Bound ==
  /\ part # "none" => phase = "built" /\ (tampered = 0 => evidence # Absent)
  /\ BindingIsEarned

BindingInv == Established /\ Named /\ Bound

LEMMA BindingInvInit == BindingInit => BindingInv
<1> SUFFICES ASSUME BindingInit PROVE BindingInv
  OBVIOUS
<1>1. /\ part = "none" /\ binding.source = Absent /\ binding.graph = Absent
      /\ binding.outcome = "none" /\ binding.witness = Absent
      /\ DOMAIN binding = {"outcome", "selection", "source", "graph", "witness"}
  BY DEF BindingInit, Unestablished
<1>2. Established
  BY <1>1, RoleSet DEF Established, After
<1>3. QED
  BY <1>1, <1>2 DEF BindingInv, Named, Bound, BindingIsEarned

\* A graph as it was built can be bound whenever its documents tell one story.
LEMMA GraphUntouched ==
  ASSUME ReceiptInv, phase = "built", tampered = 0
  PROVE  /\ \A role \in Roles : Recoverable(evidence, role)
         /\ (Validated(evidence) = "PASS") <=> Consistent(Bytes(evidence), evidence.order)
         /\ Validated(evidence) # "raised"
<1>1. /\ evidence = EvidenceOf(captured, supplied.order)
      /\ ~DividesByZero(captured) /\ ~Unhashable(captured)
  BY DEF ReceiptInv, Preserved
<1>2. IsCapture(captured)
  BY RoleSet DEF ReceiptInv, Captures, IsCapture, AllRaw
<1> DEFINE g == EvidenceOf(captured, supplied.order)
<1>3. /\ Bytes(g) = captured /\ g.order = supplied.order /\ \A role \in Roles : Recoverable(g, role)
      /\ Validated(g) = Outcome(captured, supplied.order)
  BY <1>1, <1>2, GraphAsBuilt
<1>4. (Outcome(captured, supplied.order) = "PASS") <=> Consistent(captured, supplied.order)
  BY <1>2, PassIsConsistent DEF IsCapture
<1>5. Outcome(captured, supplied.order) # "raised"
  <2>1. IsRaw(captured["receipt"], "receipt")
    BY <1>2, RoleSet DEF IsCapture, AllRaw
  <2>2. Outcome(captured, supplied.order) \in NonPass \cup {"PASS"}
    BY <2>1, PassIsDeclared
  <2>3. QED
    BY <2>2 DEF NonPass
<1> HIDE DEF g
<1>6. evidence = g
  BY <1>1 DEF g
<1>7. QED
  BY <1>3, <1>4, <1>5, <1>6

LEMMA OwnIdentity ==
  ASSUME NEW g, IsGraph(g), g.f1
  PROVE  Identity(g) = g
<1>1. g.f1 = TRUE /\ DOMAIN g = Parts /\ g = [x \in Parts |-> g[x]]
  BY DEF IsGraph
<1>2. QED
  BY <1>1 DEF Identity

LEMMA SameBindable == UNCHANGED <<request, evidence>> => (Bindable' <=> Bindable)
BY DEF Bindable

\* What a refusal has to respect.
LEMMA RefusedInv ==
  ASSUME BindingInv, NEW outcome, Refused(outcome), UNCHANGED <<request, receiptVars>>,
         part \notin {"none", "done", "raised"}, outcome \notin {"bound", "none"},
         outcome = "unbound" => request.plan.outcome # "unique" /\ part = "unbound",
         tampered = 0 => ~Bindable
  PROVE  BindingInv'
<1>1. /\ part' = "done" /\ binding'.outcome = outcome
      /\ DOMAIN binding' = {"outcome", "selection", "source", "graph", "witness"}
      /\ binding'.source = binding.source /\ binding'.graph = binding.graph /\ binding'.witness = Absent
      /\ UNCHANGED <<evidence, tampered, phase, request>>
  BY DEF Refused, BindingInv, Named, receiptVars
<1>2. \/ binding.source = Absent /\ binding.graph = Absent
      \/ binding.source = request.source /\ binding.graph = request.graph
  <2>1. CASE part \in After("references")
    BY <2>1 DEF BindingInv, Established
  <2>2. CASE part \notin After("references")
    BY <2>2, RoleSet DEF BindingInv, Named, After
  <2>3. QED
    BY <2>1, <2>2
<1>3. part = "unbound" => binding.source = Absent /\ binding.graph = Absent
  BY DEF BindingInv, Named
<1>4. BindingIsEarned'
  BY <1>1, <1>2, <1>3, SameBindable DEF BindingIsEarned
<1>5. Established' /\ Named'
  BY <1>1, RoleSet DEF Established, After, Named
<1>6. Bound'
  BY <1>1, <1>4 DEF Bound, BindingInv
<1>7. QED
  BY <1>5, <1>6 DEF BindingInv

\* What going on has to respect: the established, for the part that comes.
LEMMA ProceedInv ==
  ASSUME BindingInv, UNCHANGED <<request, receiptVars>>, part \notin {"none", "done"},
         part' \notin {"none", "done", "raised"}, Established', Named'
  PROVE  BindingInv'
<1>1. Bound'
  BY DEF BindingInv, Bound, receiptVars, BindingIsEarned
<1>2. QED
  BY <1>1 DEF BindingInv

LEMMA AdmitRequestInv ==
  ASSUME BindingInv, AdmitRequest, UNCHANGED receiptVars
  PROVE  BindingInv'
<1>0. part = "request" /\ UNCHANGED request
  BY DEF AdmitRequest
<1>1. CASE request.shape \in {"invalid_input", "resource_limit"} /\ Refused(request.shape)
  <2>1. ~Bindable
    BY <1>1 DEF Bindable
  <2>2. QED
    BY <1>0, <1>1, <2>1, RefusedInv
<1>2. CASE request.shape = "fine" /\ ~request.supported /\ Refused("unsupported")
  <2>1. ~Bindable
    BY <1>2 DEF Bindable
  <2>2. QED
    BY <1>0, <1>2, <2>1, RefusedInv
<1>3. CASE request.shape = "fine" /\ request.supported /\ Proceed("selection")
  <2>1. part' = "selection" /\ UNCHANGED binding
    BY <1>3 DEF Proceed
  <2>2. Established' /\ Named'
    BY <1>0, <1>3, <2>1, RoleSet DEF BindingInv, Established, Named, After, receiptVars
  <2>3. QED
    BY <1>0, <2>1, <2>2, ProceedInv
<1>4. QED
  BY <1>1, <1>2, <1>3 DEF AdmitRequest

LEMMA ReplaySelectionInv ==
  ASSUME BindingInv, ReplaySelection, UNCHANGED receiptVars
  PROVE  BindingInv'
<1>0. part = "selection" /\ UNCHANGED request
  BY DEF ReplaySelection
<1>1. CASE ~(request.plan.replays /\ request.plan.linked) /\ Refused("invalid_input")
  <2>1. ~Bindable
    BY <1>1 DEF Bindable
  <2>2. QED
    BY <1>0, <1>1, <2>1, RefusedInv
<1>2. CASE /\ request.plan.replays /\ request.plan.linked
           /\ binding' = [binding EXCEPT !.selection = request.plan.outcome]
           /\ part' = IF request.plan.outcome = "unique" THEN "references" ELSE "unbound"
  <2>1. /\ request.shape = "fine" /\ request.supported
        /\ binding.source = Absent /\ binding.graph = Absent
        /\ binding.outcome = "none" /\ binding.witness = Absent
        /\ DOMAIN binding = {"outcome", "selection", "source", "graph", "witness"}
    BY <1>0 DEF BindingInv, Established, Named, After
  <2>2. /\ binding'.source = Absent /\ binding'.graph = Absent
        /\ binding'.outcome = "none" /\ binding'.witness = Absent
        /\ DOMAIN binding' = {"outcome", "selection", "source", "graph", "witness"}
    BY <1>2, <2>1
  <2>3. part' \in {"references", "unbound"} /\ (part' = "references" <=> request.plan.outcome = "unique")
    BY <1>2
  <2>4. Established'
    BY <1>0, <1>2, <2>1, <2>3, RoleSet DEF Established, After
  <2>5. Named'
    BY <2>2, <2>3 DEF Named, After
  <2>6. QED
    BY <1>0, <2>3, <2>4, <2>5, ProceedInv
<1>3. QED
  BY <1>1, <1>2 DEF ReplaySelection

LEMMA LeaveUnboundInv ==
  ASSUME BindingInv, LeaveUnbound, UNCHANGED receiptVars
  PROVE  BindingInv'
<1>1. part = "unbound" /\ UNCHANGED request /\ request.plan.outcome # "unique"
  BY DEF LeaveUnbound, BindingInv, Established
<1>2. ~Bindable
  BY <1>1 DEF Bindable
<1>3. Refused("unbound") \/ Refused("invalid_input")
  BY DEF LeaveUnbound
<1>4. QED
  BY <1>1, <1>2, <1>3, RefusedInv

LEMMA EstablishReferencesInv ==
  ASSUME BindingInv, ReceiptInv, EstablishReferences, UNCHANGED receiptVars
  PROVE  BindingInv'
<1> DEFINE named == Absent \notin {request.source, request.graph, request.bytes} /\ request.withGraph
           these == request.source = request.bytes /\ request.graph = Identity(evidence)
<1>0. part = "references" /\ UNCHANGED request /\ request.plan.outcome = "unique"
  BY DEF EstablishReferences, BindingInv, Established
<1>1. ASSUME tampered = 0, Bindable PROVE named /\ "source" \in request.fits /\ these
  <2>1. phase = "built" /\ evidence # Absent
    BY <1>0, <1>1 DEF BindingInv, Bound
  <2>2. IsGraph(evidence)
    BY <2>1 DEF ReceiptInv, Preserved
  <2>3. Identity(evidence) = evidence
    BY <1>1, <2>2, OwnIdentity DEF Bindable
  <2>4. request.source = request.bytes /\ request.bytes # Absent /\ request.graph = evidence /\ request.withGraph
    BY <1>1 DEF Bindable
  <2>5. "source" \in request.fits
    BY <1>1 DEF Bindable
  <2>6. QED
    BY <2>1, <2>3, <2>4, <2>5
<1>2. CASE ~named /\ Refused("invalid_input")
  <2> HIDE DEF named, these
  <2>1. QED
    BY <1>0, <1>1, <1>2, RefusedInv
<1>3. CASE named /\ "source" \notin request.fits /\ Refused("resource_limit")
  <2> HIDE DEF named, these
  <2>1. QED
    BY <1>0, <1>1, <1>3, RefusedInv
<1>4. CASE named /\ "source" \in request.fits /\ ~these /\ Refused("invalid_input")
  <2> HIDE DEF named, these
  <2>1. QED
    BY <1>0, <1>1, <1>4, RefusedInv
<1>5. CASE /\ named /\ "source" \in request.fits /\ these
           /\ binding' = [binding EXCEPT !.source = request.bytes, !.graph = request.graph]
           /\ part' = "commitments"
  <2>1. /\ request.shape = "fine" /\ request.supported /\ request.plan.replays /\ request.plan.linked
        /\ binding.outcome = "none" /\ binding.witness = Absent
        /\ DOMAIN binding = {"outcome", "selection", "source", "graph", "witness"}
    BY <1>0 DEF BindingInv, Established, Named, After
  <2>2. /\ binding'.source = request.bytes /\ binding'.graph = request.graph
        /\ binding'.outcome = "none" /\ binding'.witness = Absent
        /\ DOMAIN binding' = {"outcome", "selection", "source", "graph", "witness"}
    BY <1>5, <2>1
  <2>3. Identity(evidence)' = Identity(evidence)
    BY DEF Identity, receiptVars
  <2>4. Established'
    BY <1>0, <1>5, <2>1, <2>2, <2>3, RoleSet DEF Established, After
  <2>5. Named'
    BY <1>5, <2>2 DEF Named, After
  <2>6. QED
    BY <1>0, <1>5, <2>4, <2>5, ProceedInv
<1>6. QED
  BY <1>2, <1>3, <1>4, <1>5 DEF EstablishReferences

\* Of a carrier, or the graph, and on.
Onwards(p, next) ==
  \/ p = "commitments" /\ next = "graph"
  \/ p = "graph" /\ next = "bundle"
  \/ p = "bundle" /\ next = "result"
  \/ p = "result" /\ next = "receipt"
  \/ p = "receipt" /\ next = "evidence"
  \/ p = "evidence" /\ next = "links"

LEMMA OnwardsInv ==
  ASSUME BindingInv, UNCHANGED <<request, receiptVars>>, NEW next, Proceed(next),
         Onwards(part, next),
         part = "commitments" =>
           /\ "graph" \in request.fits /\ request.plan.retained
           /\ request.plan.member # Absent /\ WellFormed(request.plan.member)
           /\ {request.plan.member.source, request.plan.source} = {request.bytes},
         part = "graph" => evidence.f1 /\ evidence.dialect = "legacy",
         part \in Roles => part \in request.fits,
         part = "evidence" => Validated(evidence) = "PASS"
  PROVE  BindingInv'
<1>0. part' = next /\ UNCHANGED <<request, binding, evidence>>
  BY DEF Proceed, receiptVars
<1>1. \/ part = "commitments" /\ next = "graph"
      \/ part = "graph" /\ next = "bundle"
      \/ part = "bundle" /\ next = "result"
      \/ part = "result" /\ next = "receipt"
      \/ part = "receipt" /\ next = "evidence"
      \/ part = "evidence" /\ next = "links"
  BY DEF Onwards
<1>2. Named'
  BY <1>0, <1>1, RoleSet DEF BindingInv, Named, After
<1>3. WellFormed(request.plan.member)' = WellFormed(request.plan.member) /\ Validated(evidence)' = Validated(evidence)
      /\ Identity(evidence)' = Identity(evidence)
  BY <1>0, Zenon DEF WellFormed, Validated, Identity, Bytes, Recoverable
<1>4. /\ \A p \in {"request", "selection", "references"} : part \in After(p) /\ next \in After(p)
      /\ part # "references" /\ next # "references" /\ part # "unbound" /\ next # "unbound"
  BY <1>1, RoleSet DEF After
<1>5. /\ next \in After("commitments") => part \in After("commitments") \cup {"commitments"}
      /\ next \in After("graph") => part \in After("graph") \cup {"graph"}
      /\ next \in After("bundle") => part \in After("bundle") \cup {"bundle"}
      /\ next \in After("result") => part \in After("result") \cup {"result"}
      /\ next \in After("receipt") => part \in After("receipt") \cup {"receipt"}
      /\ next \in After("evidence") => part \in After("evidence") \cup {"evidence"}
  BY <1>1, RoleSet DEF After
<1>6. Established'
  <2> HIDE DEF After
  <2>1. QED
    BY <1>0, <1>3, <1>4, <1>5, RoleSet DEF BindingInv, Established
<1>7. QED
  BY <1>0, <1>1, <1>2, <1>6, ProceedInv

LEMMA ReadCommitmentsInv ==
  ASSUME BindingInv, ReadCommitments, UNCHANGED receiptVars
  PROVE  BindingInv'
<1> DEFINE member == request.plan.member
<1>0. part = "commitments" /\ UNCHANGED request /\ request.source = request.bytes
  BY RoleSet DEF ReadCommitments, BindingInv, Established, After
<1>1. Bindable => /\ "graph" \in request.fits /\ request.plan.retained
                  /\ member # Absent /\ WellFormed(member)
                  /\ {member.source, request.plan.source} = {request.bytes}
  BY DEF Bindable
<1> HIDE DEF member
<1>2. CASE "graph" \notin request.fits /\ Refused("resource_limit")
  BY <1>0, <1>1, <1>2, RefusedInv
<1>3. CASE "graph" \in request.fits /\ ~request.plan.retained /\ Refused("invalid_input")
  BY <1>0, <1>1, <1>3, RefusedInv
<1>4. CASE member = Absent /\ Refused("unsupported")
  BY <1>0, <1>1, <1>4, RefusedInv
<1>5. CASE /\ "graph" \in request.fits /\ request.plan.retained /\ member # Absent
           /\ IF WellFormed(member) /\ {member.source, request.plan.source} = {request.bytes}
              THEN Proceed("graph") ELSE Refused("invalid_input")
  <2>1. CASE WellFormed(member) /\ {member.source, request.plan.source} = {request.bytes}
    <3>1. Onwards(part, "graph") /\ Proceed("graph")
      BY <1>0, <1>5, <2>1 DEF Onwards
    <3>2. part # "graph" /\ part \notin Roles /\ part # "evidence"
      BY <1>0, RoleSet
    <3>3. QED
      BY <1>0, <1>5, <2>1, <3>1, <3>2, OnwardsInv DEF member
  <2>2. CASE ~(WellFormed(member) /\ {member.source, request.plan.source} = {request.bytes})
    <3>1. Refused("invalid_input") /\ ~Bindable
      BY <1>1, <1>5, <2>2
    <3>2. QED
      BY <1>0, <3>1, RefusedInv
  <2>3. QED
    BY <2>1, <2>2
<1>6. QED
  BY <1>2, <1>3, <1>4, <1>5 DEF ReadCommitments, member

LEMMA AdmitGraphInv ==
  ASSUME BindingInv, AdmitGraph, UNCHANGED receiptVars
  PROVE  BindingInv'
<1>0. part = "graph" /\ UNCHANGED request
  BY DEF AdmitGraph
<1>1. Bindable => evidence.f1 /\ evidence.dialect = "legacy"
  BY DEF Bindable
<1>2. CASE ~evidence.f1 /\ Refused("invalid_input")
  BY <1>0, <1>1, <1>2, RefusedInv
<1>3. CASE evidence.f1 /\ evidence.dialect # "legacy" /\ Refused("unsupported")
  BY <1>0, <1>1, <1>3, RefusedInv
<1>4. CASE evidence.f1 /\ evidence.dialect = "legacy" /\ Proceed("bundle")
  <2>1. Onwards(part, "bundle") /\ part # "commitments" /\ part \notin Roles /\ part # "evidence"
    BY <1>0, RoleSet DEF Onwards
  <2>2. QED
    BY <1>0, <1>4, <2>1, OnwardsInv
<1>5. QED
  BY <1>2, <1>3, <1>4 DEF AdmitGraph

LEMMA RecoverCarrierInv ==
  ASSUME BindingInv, ReceiptInv, NEW role \in Roles, NEW next, RecoverCarrier(role, next),
         Onwards(role, next), UNCHANGED receiptVars
  PROVE  BindingInv'
<1>0. part = role /\ UNCHANGED request /\ role \notin {"none", "done", "raised", "commitments", "graph", "evidence"}
  BY RoleSet DEF RecoverCarrier
<1>1. ASSUME tampered = 0, Bindable PROVE Recoverable(evidence, role) /\ role \in request.fits
  <2>1. phase = "built"
    BY <1>0 DEF BindingInv, Bound
  <2>2. Recoverable(evidence, role)
    BY <1>1, <2>1, GraphUntouched
  <2>3. role \in request.fits
    BY <1>1 DEF Bindable
  <2>4. QED
    BY <2>2, <2>3
<1>2. CASE ~Recoverable(evidence, role) /\ Refused("invalid_input")
  BY <1>0, <1>1, <1>2, RefusedInv
<1>3. CASE role \notin request.fits /\ Refused("resource_limit")
  BY <1>0, <1>1, <1>3, RefusedInv
<1>4. CASE role \in request.fits /\ Proceed(next)
  BY <1>0, <1>4, OnwardsInv
<1>5. QED
  BY <1>2, <1>3, <1>4 DEF RecoverCarrier

LEMMA JudgeEvidenceInv ==
  ASSUME BindingInv, ReceiptInv, JudgeEvidence, UNCHANGED receiptVars
  PROVE  BindingInv'
<1>0. part = "evidence" /\ UNCHANGED request
  BY DEF JudgeEvidence
<1>1. ASSUME tampered = 0, Bindable PROVE Validated(evidence) = "PASS"
  <2>1. phase = "built"
    BY <1>0 DEF BindingInv, Bound
  <2>2. QED
    BY <1>1, <2>1, GraphUntouched DEF Bindable
<1>2. CASE Validated(evidence) = "PASS" /\ Proceed("links")
  <2>1. Onwards(part, "links") /\ part # "commitments" /\ part # "graph" /\ part \notin Roles
    BY <1>0, RoleSet DEF Onwards
  <2>2. QED
    BY <1>0, <1>2, <2>1, OnwardsInv
<1>3. CASE Validated(evidence) # "PASS" /\ Refused("invalid_input")
  BY <1>0, <1>1, <1>3, RefusedInv
<1>4. CASE Validated(evidence) = "raised" /\ Proceed("raised")
  <2>1. /\ part' = "raised" /\ UNCHANGED <<request, binding, evidence, phase, tampered>>
    BY <1>0, <1>4 DEF Proceed, receiptVars
  <2>2. phase = "built" /\ tampered \in Nat
    BY <1>0 DEF BindingInv, Bound, ReceiptInv, Preserved
  <2>3. tampered > 0
    <3>1. tampered # 0
      BY <1>4, <2>2, GraphUntouched
    <3>2. QED
      BY <2>2, <3>1
  <2>4. Established'
    BY <2>1, RoleSet DEF Established, After
  <2>5. Named'
    BY <1>0, <2>1, RoleSet DEF BindingInv, Named, After
  <2>6. Bound'
    BY <2>1, <2>2, <2>3, <2>5 DEF Bound, BindingIsEarned, Named
  <2>7. QED
    BY <2>4, <2>5, <2>6 DEF BindingInv
<1>5. QED
  BY <1>2, <1>3, <1>4 DEF JudgeEvidence

LEMMA LinkCommitmentsInv ==
  ASSUME BindingInv, ReceiptInv, LinkCommitments, UNCHANGED receiptVars
  PROVE  BindingInv'
<1> DEFINE member == request.plan.member   raw == Bytes(evidence)
<1>0. part = "links" /\ UNCHANGED request
  BY DEF LinkCommitments
<1>1. /\ request.shape = "fine" /\ request.supported /\ request.plan.replays /\ request.plan.linked
      /\ request.plan.outcome = "unique"
      /\ Absent \notin {request.source, request.graph, request.bytes} /\ request.withGraph
      /\ request.source = request.bytes /\ request.graph = Identity(evidence)
      /\ binding.source = request.bytes /\ binding.graph = request.graph
      /\ request.plan.retained /\ member # Absent /\ WellFormed(member)
      /\ {member.source, request.plan.source} = {request.bytes}
      /\ evidence.f1 /\ evidence.dialect = "legacy" /\ Validated(evidence) = "PASS"
      /\ \A x \in {"source", "graph", "bundle", "result", "receipt"} : x \in request.fits
  BY <1>0, RoleSet DEF BindingInv, Established, After
<1>2. phase = "built" /\ IsGraph(evidence)
  BY <1>0 DEF BindingInv, Bound, ReceiptInv, Preserved
<1>3. Identity(evidence) = evidence
  BY <1>1, <1>2, OwnIdentity
<1>4. Consistent(raw, evidence.order) /\ evidence.claim
  BY <1>1, <1>2, ValidGraph
<1>5. /\ raw.receipt.bundle = raw.bundle /\ {raw.bundle.target, raw.result.target} = {raw.receipt.target}
  BY <1>4 DEF Consistent
<1>6. Roles \cup {"source", "graph"} \subseteq request.fits
  BY <1>1, RoleSet
<1> HIDE DEF member, raw
<1>7. CASE CommitmentsHold(member, raw) /\ Bind
  <2>1. /\ member.bundle = raw.bundle /\ raw.bundle.program = member.program
        /\ raw.bundle.declared = member.program /\ member.source = raw.bundle.source
        /\ raw.receipt.target = member.target
    BY <1>7 DEF CommitmentsHold
  <2>2. {request.source, request.bytes, request.plan.source, raw.bundle.source} = {member.source}
    BY <1>1, <2>1
  <2>3. Bindable
    BY <1>1, <1>3, <1>4, <1>5, <1>6, <2>1, <2>2 DEF Bindable, member, raw
  <2>4. /\ DOMAIN binding = {"outcome", "selection", "source", "graph", "witness"}
    BY DEF BindingInv, Named
  <2>5. /\ part' = "done" /\ binding'.outcome = "bound" /\ binding'.witness.graph = evidence
        /\ binding'.source = request.source /\ binding'.graph = request.graph
        /\ DOMAIN binding' = {"outcome", "selection", "source", "graph", "witness"}
    BY <1>1, <1>3, <1>7, <2>4 DEF Bind
  <2>6. UNCHANGED <<request, evidence, phase, tampered>>
    BY <1>0 DEF receiptVars
  <2>7. BindingIsEarned'
    BY <2>3, <2>5, <2>6, SameBindable DEF BindingIsEarned
  <2>8. Established' /\ Named'
    BY <2>5, RoleSet DEF Established, Named, After
  <2>9. Bound'
    BY <1>0, <2>6, <2>7 DEF Bound, BindingInv
  <2>10. QED
    BY <2>8, <2>9 DEF BindingInv
<1>8. CASE ~CommitmentsHold(member, raw) /\ Refused("invalid_input")
  <2>1. ASSUME Bindable PROVE CommitmentsHold(member, raw)
    <3>1. /\ member.bundle = raw.bundle /\ raw.bundle.program = member.program
          /\ raw.bundle.declared = member.program /\ member.source = raw.bundle.source
          /\ raw.receipt.target = member.target
      BY <2>1 DEF Bindable, member, raw
    <3>2. raw.bundle.target = member.target /\ raw.result.target = member.target
      BY <1>5, <3>1
    <3>3. {raw.bundle.target, raw.result.target, raw.receipt.target} = {member.target}
      BY <3>1, <3>2
    <3>4. QED
      BY <3>1, <3>3 DEF CommitmentsHold
  <2>2. QED
    BY <1>0, <1>8, <2>1, RefusedInv
<1>9. QED
  BY <1>7, <1>8 DEF LinkCommitments, member, raw

LEMMA AssessInv ==
  ASSUME BindingInv, ReceiptInv, Assess, UNCHANGED receiptVars
  PROVE  BindingInv'
<1>1. CASE \/ AdmitRequest \/ ReplaySelection \/ LeaveUnbound \/ EstablishReferences
           \/ ReadCommitments \/ AdmitGraph \/ JudgeEvidence \/ LinkCommitments
  BY <1>1, AdmitRequestInv, ReplaySelectionInv, LeaveUnboundInv, EstablishReferencesInv,
     ReadCommitmentsInv, AdmitGraphInv, JudgeEvidenceInv, LinkCommitmentsInv
<1>2. CASE RecoverCarrier("bundle", "result")
  BY <1>2, RoleSet, RecoverCarrierInv DEF Onwards
<1>3. CASE RecoverCarrier("result", "receipt")
  BY <1>3, RoleSet, RecoverCarrierInv DEF Onwards
<1>4. CASE RecoverCarrier("receipt", "evidence")
  BY <1>4, RoleSet, RecoverCarrierInv DEF Onwards
<1>5. QED
  BY <1>1, <1>2, <1>3, <1>4 DEF Assess

LEMMA MakeRequestInv ==
  ASSUME BindingInv, ReceiptInv, MakeRequest, UNCHANGED receiptVars
  PROVE  BindingInv'
<1>1. /\ part = "none" /\ part' = "request" /\ UNCHANGED binding /\ evidence # Absent
      /\ UNCHANGED <<evidence, phase, tampered>>
  BY DEF MakeRequest, receiptVars
<1>2. phase = "built"
  BY <1>1 DEF ReceiptInv, Preserved
<1>3. Established' /\ Named'
  BY <1>1, RoleSet DEF BindingInv, Established, Named, After
<1>4. Bound'
  BY <1>1, <1>2 DEF Bound, BindingIsEarned
<1>5. QED
  BY <1>3, <1>4 DEF BindingInv

\* The rest of the workflow changes nothing an assessment has looked at.
LEMMA BesideAssessment ==
  ASSUME BindingInv, ReceiptInv, UNCHANGED bindingVars,
         Workflow \/ ReplaceFile \/ (Tamper /\ part \in {"none", "request"}) \/ UNCHANGED receiptVars
  PROVE  BindingInv'
<1>1. UNCHANGED <<request, part, binding>>
  BY DEF bindingVars
<1>2. CASE part = "none"
  <2>1. Established' /\ Named'
    BY <1>1, <1>2, RoleSet DEF BindingInv, Established, Named, After
  <2>2. Bound'
    BY <1>1, <1>2 DEF Bound, BindingIsEarned
  <2>3. QED
    BY <2>1, <2>2 DEF BindingInv
<1>3. CASE part = "request" /\ Tamper
  <2>1. phase' = "built" /\ tampered' # 0
    BY <1>3 DEF Tamper, ReceiptInv, Preserved
  <2>2. Established' /\ Named'
    BY <1>1, <1>3, RoleSet DEF BindingInv, Established, Named, After
  <2>3. Bound'
    BY <1>1, <1>3, <2>1 DEF Bound, BindingIsEarned
  <2>4. QED
    BY <2>2, <2>3 DEF BindingInv
<1>4. CASE part # "none" /\ (Workflow \/ ReplaceFile \/ UNCHANGED receiptVars)
  <2>1. phase = "built"
    BY <1>4 DEF BindingInv, Bound
  <2>2. UNCHANGED <<evidence, phase, tampered>>
    BY <1>4, <2>1, RoleSet DEF Workflow, ReplaceFile, CheckReferences, ReadInput, BuildEvidence,
                               ValidateEvidence, receiptVars
  <2>3. /\ WellFormed(request.plan.member)' = WellFormed(request.plan.member)
        /\ Validated(evidence)' = Validated(evidence) /\ Identity(evidence)' = Identity(evidence)
    BY <1>1, <2>2, Zenon DEF WellFormed, Validated, Identity, Bytes, Recoverable
  <2>4. Established'
    BY <1>1, <2>2, <2>3 DEF BindingInv, Established
  <2>5. Named' /\ Bound'
    BY <1>1, <2>2, SameBindable DEF BindingInv, Named, Bound, BindingIsEarned
  <2>6. QED
    BY <2>4, <2>5 DEF BindingInv
<1>5. QED
  BY <1>2, <1>3, <1>4

-----------------------------------------------------------------------------
(* The checks of a package.                                                *)

NoErrors(prefix) == \A c \in Checks(prefix) : c.severity = "error" => c.passed

LEMMA ErrorHolds ==
  ASSUME NEW prefix, NoErrors(prefix), NEW name, NEW ok, Error(name, ok) \in Checks(prefix)
  PROVE  ok
BY DEF NoErrors, Error

LEMMA SingletonCardinality == \A x : Cardinality({x}) = 1
BY FS_Singleton

\* A record without failed errors has all its documents.
LEMMA DocumentsRead ==
  ASSUME NEW prefix, NoErrors(prefix)
  PROVE  \A f \in RequiredFiles : Reads(prefix, f) /\ Read(prefix, f) = {Doc(prefix, f)}
<1>1. ParseChecks(prefix) \subseteq Checks(prefix)
  BY DEF Checks
<1>2. \A f \in RequiredFiles : Has(prefix, f)
  <2>1. Error("required-file", \A f \in RequiredFiles : Has(prefix, f)) \in Checks(prefix)
    BY <1>1 DEF ParseChecks
  <2>2. QED
    BY <2>1, ErrorHolds
<1>3. \A f \in RequiredFiles \cup {"ir"} : Has(prefix, f) => Reads(prefix, f)
  <2>1. Error("parse", \A f \in RequiredFiles \cup {"ir"} : Has(prefix, f) => Reads(prefix, f)) \in Checks(prefix)
    BY <1>1 DEF ParseChecks
  <2>2. QED
    BY <2>1, ErrorHolds
<1>4. QED
  BY <1>2, <1>3 DEF Read

\* What the checks of every document of a record come to.
LEMMA ChecksOfDocuments ==
  ASSUME NEW prefix, \A f \in RequiredFiles : Read(prefix, f) = {Doc(prefix, f)}
  PROVE  LET meta == Doc(prefix, "metadata")   counts  == Doc(prefix, "counts")
             map  == Doc(prefix, "mapping")    circuit == Doc(prefix, "circuit")
             widths == OutcomeWidth(counts)
         IN  /\ Error("manifest", Integrity(prefix) # "FAIL") \in Checks(prefix)
             /\ MetadataChecks(meta) \subseteq Checks(prefix)
             /\ CountsChecks(counts, {meta.shots}) \subseteq Checks(prefix)
             /\ CircuitChecks(circuit, meta, widths, counts.register) \subseteq Checks(prefix)
             /\ MappingChecks(map, widths, {circuit}) \subseteq Checks(prefix)
             /\ CalibrationChecks(Doc(prefix, "calibration"), circuit, map) \subseteq Checks(prefix)
<1> DEFINE meta == Doc(prefix, "metadata")   counts  == Doc(prefix, "counts")
           map  == Doc(prefix, "mapping")    circuit == Doc(prefix, "circuit")
           calibration == Doc(prefix, "calibration")
           widths == OutcomeWidth(counts)
<1>1. /\ Read(prefix, "metadata") = {meta} /\ Read(prefix, "counts") = {counts}
      /\ Read(prefix, "mapping") = {map} /\ Read(prefix, "circuit") = {circuit}
      /\ Read(prefix, "calibration") = {calibration}
  BY DEF RequiredFiles
<1> HIDE DEF meta, counts, map, circuit, calibration
<1>2. Shots(prefix) = {meta.shots} /\ Widths(prefix) = widths /\ Registers(prefix) = counts.register
  BY <1>1 DEF Shots, Widths, Registers
<1> HIDE DEF widths
<1>3. /\ meta \in Read(prefix, "metadata") /\ counts \in Read(prefix, "counts")
      /\ circuit \in Read(prefix, "circuit") /\ map \in Read(prefix, "mapping")
      /\ calibration \in Read(prefix, "calibration")
  BY <1>1
<1>4. ManifestChecks(prefix) \subseteq Checks(prefix)
  BY DEF Checks
<1>5. MetadataChecks(meta) \subseteq Checks(prefix)
  BY <1>3 DEF Checks
<1>6. CountsChecks(counts, Shots(prefix)) \subseteq Checks(prefix)
  BY <1>3 DEF Checks
<1>7. CircuitChecks(circuit, meta, Widths(prefix), Registers(prefix)) \subseteq Checks(prefix)
  BY <1>3 DEF Checks
<1>8. MappingChecks(map, Widths(prefix), Read(prefix, "circuit")) \subseteq Checks(prefix)
  BY <1>3 DEF Checks
<1>9. CalibrationChecks(calibration, circuit, map) \subseteq Checks(prefix)
  BY <1>3 DEF Checks
<1>12. /\ MetadataChecks(meta) \subseteq Checks(prefix)
       /\ CountsChecks(counts, Shots(prefix)) \subseteq Checks(prefix)
       /\ CircuitChecks(circuit, meta, Widths(prefix), Registers(prefix)) \subseteq Checks(prefix)
       /\ MappingChecks(map, Widths(prefix), Read(prefix, "circuit")) \subseteq Checks(prefix)
       /\ CalibrationChecks(calibration, circuit, map) \subseteq Checks(prefix)
       /\ Error("manifest", Integrity(prefix) # "FAIL") \in Checks(prefix)
  BY <1>4, <1>5, <1>6, <1>7, <1>8, <1>9 DEF ManifestChecks
<1>13. QED
  BY <1>1, <1>2, <1>12, Zenon DEF meta, counts, map, circuit, calibration, widths

\* An integrity that has not failed is of rows that all match, one that passes of all
\* the rows there should be.
LEMMA SettledIntegrity ==
  ASSUME NEW prefix, Integrity(prefix) # "FAIL"
  PROVE  LET rows == Doc(prefix, "manifest").rows
         IN  /\ Has(prefix, "manifest") => Reads(prefix, "manifest") /\ \A row \in rows : RowMatches(prefix, row)
             /\ Integrity(prefix) # "PARTIAL" =>
                  /\ Has(prefix, "manifest")
                  /\ RequiredFiles \subseteq {row.file : row \in rows} /\ \A row \in rows : row.full
<1> DEFINE rows == Doc(prefix, "manifest").rows
           unmatched == \E row \in rows : ~RowMatches(prefix, row)
           whole == RequiredFiles \subseteq {row.file : row \in rows} /\ \A row \in rows : row.full
<1>1. CASE ~Has(prefix, "manifest")
  BY <1>1 DEF Integrity
<1>2. CASE Has(prefix, "manifest")
  <2>1. Reads(prefix, "manifest") /\ rows # {}
    BY <1>2 DEF Integrity
  <2>2. Integrity(prefix) = IF unmatched THEN "FAIL" ELSE IF whole THEN "PASS" ELSE "PARTIAL"
    BY <1>2, <2>1 DEF Integrity
  <2>3. ~unmatched
    <3> HIDE DEF unmatched, whole
    <3>1. QED
      BY <2>2
  <2>4. Integrity(prefix) # "PARTIAL" => whole
    <3> HIDE DEF unmatched, whole
    <3>1. QED
      BY <2>2, <2>3
  <2>5. QED
    BY <1>2, <2>1, <2>3, <2>4
<1>3. QED
  BY <1>1, <1>2

\* A record without failed errors tells one story: no comparison was skipped.
LEMMA NoErrorsIsCoherent ==
  ASSUME NEW prefix, NoErrors(prefix)
  PROVE  Coherent(prefix)
<1> DEFINE meta == Doc(prefix, "metadata")   counts  == Doc(prefix, "counts")
           map  == Doc(prefix, "mapping")    circuit == Doc(prefix, "circuit")
           calibration == Doc(prefix, "calibration")   widths == OutcomeWidth(counts)
<1>1. \A f \in RequiredFiles : Reads(prefix, f) /\ Read(prefix, f) = {Doc(prefix, f)}
  BY DocumentsRead
<1>2. /\ Error("manifest", Integrity(prefix) # "FAIL") \in Checks(prefix)
      /\ MetadataChecks(meta) \subseteq Checks(prefix)
      /\ CountsChecks(counts, {meta.shots}) \subseteq Checks(prefix)
      /\ CircuitChecks(circuit, meta, widths, counts.register) \subseteq Checks(prefix)
      /\ MappingChecks(map, widths, {circuit}) \subseteq Checks(prefix)
      /\ CalibrationChecks(calibration, circuit, map) \subseteq Checks(prefix)
  BY <1>1, ChecksOfDocuments
<1> HIDE DEF meta, counts, map, circuit, calibration, widths
<1>3. meta.sound /\ meta.shots > 0
  <2>1. Error("metadata", meta.sound) \in Checks(prefix) /\ Error("shots", meta.shots > 0) \in Checks(prefix)
    BY <1>2 DEF MetadataChecks
  <2>2. meta.sound
    BY <2>1, ErrorHolds
  <2>3. (meta.shots > 0) = TRUE
    BY <2>1 DEF NoErrors, Error
  <2>4. QED
    BY <2>2, <2>3
<1>4. counts.legal
  <2>1. Error("counts", counts.legal) \in Checks(prefix)
    BY <1>2 DEF CountsChecks
  <2>2. QED
    BY <2>1, ErrorHolds
<1>5. meta.shots = counts.sum /\ counts.total = counts.sum /\ counts.unique = counts.outcomes
  <2>1. /\ Error("sum-to-shots", {meta.shots} = {counts.sum}) \in Checks(prefix)
        /\ Error("declared-total", counts.total = counts.sum) \in Checks(prefix)
        /\ Error("declared-unique", counts.unique = counts.outcomes) \in Checks(prefix)
    BY <1>2, <1>4 DEF CountsChecks
  <2>2. {meta.shots} = {counts.sum} /\ counts.total = counts.sum /\ counts.unique = counts.outcomes
    BY <2>1, ErrorHolds
  <2>3. QED
    BY <2>2
<1>6. widths = {counts.width}
  BY <1>4 DEF OutcomeWidth, widths
<1>7. circuit.qubits = meta.device /\ widths = {circuit.bits} /\ circuit.operations = meta.operations
  <2>1. /\ Error("device-width", circuit.qubits = meta.device) \in Checks(prefix)
        /\ Error("qasm-outcome-width", widths = {circuit.bits}) \in Checks(prefix)
        /\ Error("operation-counts", circuit.operations = meta.operations) \in Checks(prefix)
    BY <1>2 DEF CircuitChecks
  <2>2. QED
    BY <2>1, ErrorHolds
<1>8. map.legal /\ map.activeLegal /\ map.active \subseteq 0 .. map.device - 1
  <2>1. /\ Error("measurement-map", map.legal) \in Checks(prefix)
        /\ Error("active-qubits", map.activeLegal) \in Checks(prefix)
        /\ Error("active-in-range", map.activeLegal /\ map.active \subseteq 0 .. map.device - 1) \in Checks(prefix)
    BY <1>2 DEF MappingChecks
  <2>2. map.legal
    BY <2>1, ErrorHolds
  <2>3. map.activeLegal /\ map.active \subseteq 0 .. map.device - 1
    BY <2>1, ErrorHolds
  <2>4. QED
    BY <2>2, <2>3
<1>9. map.bits = Len(map.measured) /\ widths = {map.bits} /\ circuit.measured = map.measured
  <2>1. /\ Error("mapping-outcome-width", map.bits = Len(map.measured) /\ widths = {map.bits}) \in Checks(prefix)
        /\ Error("qasm-measurements", circuit.measured = map.measured) \in Checks(prefix)
    BY <1>2, <1>8 DEF MappingChecks
  <2>2. map.bits = Len(map.measured) /\ widths = {map.bits}
    BY <2>1, ErrorHolds
  <2>3. circuit.measured = map.measured
    BY <2>1, ErrorHolds
  <2>4. QED
    BY <2>2, <2>3
<1>10. circuit.active = map.active /\ circuit.qubits = map.device
  <2>0. UNION {{Error("qasm-active", c.active = map.active), Error("qasm-width", c.qubits = map.device)} :
                 c \in {circuit}} \subseteq Checks(prefix)
    BY <1>2, <1>8 DEF MappingChecks
  <2>1. /\ Error("qasm-active", circuit.active = map.active) \in Checks(prefix)
        /\ Error("qasm-width", circuit.qubits = map.device) \in Checks(prefix)
    BY <2>0
  <2>2. QED
    BY <2>1, ErrorHolds
<1>11. map.active \subseteq calibration.qubits
  <2>1. Error("active-qubit-coverage", map.active \subseteq calibration.qubits) \in Checks(prefix)
    BY <1>2 DEF CalibrationChecks
  <2>2. QED
    BY <2>1, ErrorHolds
<1>12. Has(prefix, "manifest") =>
         /\ Reads(prefix, "manifest")
         /\ \A row \in Doc(prefix, "manifest").rows :
              Has(prefix, row.file) /\ Raw(prefix, row.file) = row.digest
  <2>1. Integrity(prefix) # "FAIL"
    BY <1>2, ErrorHolds
  <2>2. QED
    BY <2>1, SettledIntegrity DEF RowMatches
<1>13. Cardinality({counts.width, circuit.bits, map.bits, Len(map.measured)}) = 1
  <2>1. {counts.width, circuit.bits, map.bits, Len(map.measured)} = {counts.width}
    BY <1>6, <1>7, <1>9
  <2>2. QED
    BY <2>1, SingletonCardinality
<1>14. Cardinality({meta.device, map.device, circuit.qubits}) = 1
  <2>1. {meta.device, map.device, circuit.qubits} = {circuit.qubits}
    BY <1>7, <1>10
  <2>2. QED
    BY <2>1, SingletonCardinality
<1>15. {meta.shots, counts.sum, counts.total} = {meta.shots}
  BY <1>5
<1>16. QED
  BY <1>1, <1>3, <1>4, <1>5, <1>7, <1>8, <1>9, <1>10, <1>11, <1>12, <1>13, <1>14, <1>15
     DEF Coherent, meta, counts, map, circuit, calibration

\* A receipt of the members as they are says no more than they do.
LEMMA ReceiptSays ==
  /\ Receipt.status = "PASS" => \A p \in RecordPaths : Coherent(p)
  /\ Receipt.integrity = "PASS" =>
       \A p \in RecordPaths : Reads(p, "manifest") /\ \A f \in RequiredFiles :
         \E row \in Doc(p, "manifest").rows :
           row.file = f /\ row.full /\ Has(p, f) /\ Raw(p, f) = row.digest
<1> DEFINE records == {Record(p) : p \in RecordPaths}
<1>1. /\ Receipt.status = "PASS" => \A r \in records : r.status = "PASS"
      /\ Receipt.integrity = Worst({r.integrity : r \in records})
  BY DEF Receipt
<1>2. ASSUME NEW p \in RecordPaths, Receipt.status = "PASS" PROVE Coherent(p)
  <2>1. Record(p).status = "PASS"
    BY <1>1, <1>2
  <2>2. NoErrors(p)
    BY <2>1 DEF Record, NoErrors
  <2>3. QED
    BY <2>2, NoErrorsIsCoherent
<1>3. ASSUME NEW p \in RecordPaths, Receipt.integrity = "PASS"
      PROVE  /\ Reads(p, "manifest")
             /\ \A f \in RequiredFiles : \E row \in Doc(p, "manifest").rows :
                  row.file = f /\ row.full /\ Has(p, f) /\ Raw(p, f) = row.digest
  <2>1. Record(p).integrity \notin {"FAIL", "PARTIAL"}
    BY <1>1, <1>3 DEF Worst
  <2>2. Integrity(p) \notin {"FAIL", "PARTIAL"}
    BY <2>1 DEF Record
  <2> DEFINE rows == Doc(p, "manifest").rows
  <2>3. /\ Reads(p, "manifest")
        /\ \A row \in rows : RowMatches(p, row)
        /\ RequiredFiles \subseteq {row.file : row \in rows}
        /\ \A row \in rows : row.full
    BY <2>2, SettledIntegrity
  <2>4. QED
    BY <2>3 DEF RowMatches
<1>4. QED
  BY <1>2, <1>3

\* A receipt is of the members there are.
PackageInv ==
  receipt # NoReceipt =>
    step = "loaded" /\ receipt = IF RecordPaths = {} THEN [status |-> "raised"] ELSE Receipt

LEMMA PackageInvInit == BundleInit \/ BundleIdle => PackageInv
BY DEF BundleInit, BundleIdle, PackageInv

\* What is said of the same members is the same.
LEMMA SameReceipt ==
  ASSUME UNCHANGED members
  PROVE  RecordPaths' = RecordPaths /\ Receipt' = Receipt
<1>1. RecordPaths' = RecordPaths
  BY DEF RecordPaths
<1>2. ASSUME NEW p PROVE Record(p)' = Record(p)
  <2>1. \A n : Reads(p, n)' = Reads(p, n) /\ Has(p, n)' = Has(p, n)
    BY DEF Reads, Has, Raw
  <2>2. \A n : Doc(p, n)' = Doc(p, n)
    BY DEF Doc, Raw
  <2>3. \A n : Read(p, n)' = Read(p, n)
    BY <2>1, <2>2, Zenon DEF Read
  <2>4. \A row : RowMatches(p, row)' = RowMatches(p, row)
    BY DEF RowMatches, Has, Raw
  <2>5. Integrity(p)' = Integrity(p)
    BY <2>1, <2>2, <2>4, SMTT(30) DEF Integrity
  <2>6. ParseChecks(p)' = ParseChecks(p)
    BY <2>1, Zenon DEF ParseChecks
  <2>7. ManifestChecks(p)' = ManifestChecks(p)
    BY <2>5, Zenon DEF ManifestChecks
  <2>8. Shots(p)' = Shots(p) /\ Widths(p)' = Widths(p) /\ Registers(p)' = Registers(p)
    BY <2>3, Zenon DEF Shots, Widths, Registers
  <2>9. Checks(p)' = Checks(p)
    BY <2>3, <2>6, <2>7, <2>8, SMT DEF Checks
  <2>10. QED
    BY <2>5, <2>9, Zenon DEF Record
<1>3. Receipt' = Receipt
  BY <1>1, <1>2, Zenon DEF Receipt
<1>4. QED
  BY <1>1, <1>3

\* Once everything is loaded, the members stay.
LEMMA LoadedStays ==
  ASSUME step = "loaded", BundleNext, ~Verify
  PROVE  UNCHANGED <<step, members, receipt>>
<1>1. CASE WalkStep
  BY <1>1 DEF WalkStep, RecogniseDirectory, InspectRoot, OpenRoot, OpenChild, Scan, Inspect, OpenFile,
              ReadBlock, Accept, Leave
<1>2. CASE RecogniseArchive \/ NothingThere \/ CaptureArchive \/ InspectArchive
  BY <1>2 DEF RecogniseArchive, NothingThere, CaptureArchive, InspectArchive
<1>3. CASE EditStep /\ UNCHANGED <<archive, receipt>>
  BY <1>3 DEF EditStep, Write, Unlink, Place, PlaceRoot, Recycle, Edited
<1>4. QED
  BY <1>1, <1>2, <1>3 DEF BundleNext

LEMMA PackageInvStep ==
  ASSUME PackageInv, BundleNext \/ UNCHANGED bundleVars
  PROVE  PackageInv'
<1>1. CASE Verify
  <2>1. /\ step' = "loaded" /\ UNCHANGED members
        /\ receipt' = IF RecordPaths = {} THEN [status |-> "raised"] ELSE Receipt
    BY <1>1 DEF Verify, walkVars
  <2>2. QED
    BY <2>1, SameReceipt DEF PackageInv
<1>2. CASE UNCHANGED <<step, members, receipt>>
  BY <1>2, SameReceipt DEF PackageInv
<1>3. CASE BundleNext /\ ~Verify /\ step # "loaded"
  <2>1. UNCHANGED receipt
    BY <1>3 DEF BundleNext, RecogniseArchive, NothingThere, CaptureArchive, InspectArchive
  <2>2. QED
    BY <1>3, <2>1 DEF PackageInv
<1>4. QED
  BY <1>1, <1>2, <1>3, LoadedStays DEF bundleVars

LEMMA PackageInvReceipt ==
  ASSUME PackageInv
  PROVE  ReceiptIsEarned
<1> SUFFICES ASSUME receipt # NoReceipt, receipt.status # "raised" PROVE ReceiptIsEarned
  BY DEF ReceiptIsEarned
<1>1. RecordPaths # {} /\ receipt = Receipt
  BY DEF PackageInv
<1>2. QED
  BY <1>1, ReceiptSays DEF ReceiptIsEarned

-----------------------------------------------------------------------------
LEMMA LeastNumber ==
  ASSUME NEW P \in SUBSET Nat, P # {}
  PROVE  \E n \in P : \A m \in P : n <= m
<1> DEFINE Below == {0 .. n : n \in P}
<1>1. IsWellFoundedOn(StrictSubsetOrdering(Nat), FiniteSubsetsOf(Nat))
  BY FS_StrictSubsetOrderingWellFounded
<1>2. Below \subseteq FiniteSubsetsOf(Nat)
  <2>1. ASSUME NEW n \in P PROVE 0 .. n \in FiniteSubsetsOf(Nat)
    <3>1. IsFiniteSet(0 .. n)
      BY FS_Interval
    <3>2. 0 .. n \subseteq Nat
      OBVIOUS
    <3>3. QED
      BY <3>1, <3>2 DEF FiniteSubsetsOf
  <2>2. QED
    BY <2>1
<1>3. Below # {}
  OBVIOUS
<1> HIDE DEF Below
<1>4. PICK x \in Below : \A y \in Below : <<y, x>> \notin StrictSubsetOrdering(Nat)
  BY <1>1, <1>2, <1>3, WFMin
<1> USE DEF Below
<1>5. PICK n \in P : x = 0 .. n
  BY <1>4
<1>6. ASSUME NEW m \in P PROVE n <= m
  <2>1. SUFFICES ASSUME m < n PROVE FALSE
    OBVIOUS
  <2>2. 0 .. m \in SUBSET Nat /\ 0 .. n \in SUBSET Nat /\ 0 .. m \subseteq 0 .. n /\ 0 .. m # 0 .. n
    <3>1. n \in 0 .. n /\ n \notin 0 .. m
      BY <2>1
    <3>2. QED
      BY <2>1, <3>1
  <2>3. <<0 .. m, 0 .. n>> \in StrictSubsetOrdering(Nat)
    BY <2>2 DEF StrictSubsetOrdering
  <2>4. QED
    BY <1>4, <1>5, <2>3
<1>7. QED
  BY <1>6

\* Induction over the natural numbers, for a set in place of a predicate.
LEMMA Induction ==
  ASSUME NEW P, 0 \in P, \A n \in Nat : n \in P => n + 1 \in P
  PROVE  Nat \subseteq P
<1> DEFINE Q == Nat \ P
<1>1. SUFFICES ASSUME Q # {} PROVE FALSE
  OBVIOUS
<1> HIDE DEF Q
<1>2. Q \in SUBSET Nat
  BY DEF Q
<1>3. PICK n \in Q : \A m \in Q : n <= m
  BY <1>1, <1>2, LeastNumber
<1>4. n \in Nat /\ n # 0 /\ n \notin P
  BY <1>3 DEF Q
<1>5. n - 1 \in Nat /\ n - 1 \notin Q
  BY <1>3, <1>4, <1>2
<1>6. QED
  BY <1>4, <1>5 DEF Q

-----------------------------------------------------------------------------
(* The sum over a set, whatever the order its elements are chosen in.       *)

Picked(s) == CHOOSE x \in s : TRUE

\* The blocks of the members under the given paths.
SumOf(m, S) == MapThenSumSet(LAMBDA p : Len(m[p]), S)

Summing(m, S, g) == g = [s \in SUBSET S |-> IF s = {} THEN 0 ELSE Len(m[Picked(s)]) + g[s \ {Picked(s)}]]

LEMMA SumIsChosen ==
  ASSUME NEW m, NEW S
  PROVE  SumOf(m, S) = (CHOOSE g : Summing(m, S, g))[S]
BY Zenon DEF SumOf, MapThenSumSet, MapThenFoldSet, Summing, Picked

LEMMA SumExists ==
  ASSUME NEW m, NEW S, IsFiniteSet(S)
  PROVE  \E g : Summing(m, S, g)
<1> DEFINE Upto(n) == {s \in SUBSET S : Cardinality(s) <= n}
           Value(g, s) == IF s = {} THEN 0 ELSE Len(m[Picked(s)]) + g[s \ {Picked(s)}]
           P == {n \in Nat : \E g : g = [s \in Upto(n) |-> Value(g, s)]}
<1>1. ASSUME NEW s \in SUBSET S
      PROVE  /\ IsFiniteSet(s) /\ Cardinality(s) \in Nat /\ (Cardinality(s) = 0 <=> s = {})
             /\ Cardinality(s) <= Cardinality(S)
             /\ s # {} => /\ Picked(s) \in s /\ s \ {Picked(s)} \in SUBSET S
                          /\ Cardinality(s \ {Picked(s)}) = Cardinality(s) - 1
  <2>1. IsFiniteSet(s) /\ Cardinality(s) <= Cardinality(S)
    BY FS_Subset
  <2>2. Cardinality(s) \in Nat /\ (Cardinality(s) = 0 <=> s = {})
    BY <2>1, FS_CardinalityType, FS_EmptySet
  <2>3. s # {} => Picked(s) \in s
    BY DEF Picked
  <2>4. s # {} => Cardinality(s \ {Picked(s)}) = Cardinality(s) - 1
    BY <2>1, <2>3, FS_RemoveElement
  <2>5. QED
    BY <2>1, <2>2, <2>3, <2>4
<1>2. 0 \in P
  <2> DEFINE g == [s \in Upto(0) |-> 0]
  <2>1. ASSUME NEW s \in Upto(0) PROVE s = {}
    <3>1. Cardinality(s) <= 0 /\ Cardinality(s) \in Nat /\ (Cardinality(s) = 0 <=> s = {})
      BY <1>1
    <3>2. QED
      BY <3>1
  <2>2. g = [s \in Upto(0) |-> Value(g, s)]
    BY <2>1
  <2> HIDE DEF g
  <2>3. QED
    BY <2>2
<1>3. ASSUME NEW n \in Nat, n \in P PROVE n + 1 \in P
  <2>1. PICK f : f = [s \in Upto(n) |-> Value(f, s)]
    BY <1>3
  <2> DEFINE g == [s \in Upto(n + 1) |-> IF s \in Upto(n) THEN f[s] ELSE Value(f, s)]
  <2>2. ASSUME NEW s \in Upto(n + 1) PROVE g[s] = Value(g, s)
    <3>1. CASE s = {}
      <4>1. s \in Upto(n) /\ s \in Upto(n + 1)
        <5>1. Cardinality(s) = 0 /\ s \in SUBSET S
          BY <1>1, <3>1
        <5>2. 0 <= n /\ 0 <= n + 1
          OBVIOUS
        <5>3. QED
          BY <5>1, <5>2
      <4>2. g[s] = f[s] /\ f[s] = Value(f, s)
        <5> HIDE DEF Value, Upto
        <5>1. QED
          BY <2>1, <4>1
      <4>3. QED
        BY <3>1, <4>2
    <3>2. CASE s # {}
      <4> DEFINE r == s \ {Picked(s)}
      <4>1. r \in Upto(n) /\ r \in Upto(n + 1)
        <5>1. Cardinality(s) \in Nat /\ Cardinality(s) <= n + 1 /\ r \in SUBSET S
              /\ Cardinality(r) = Cardinality(s) - 1
          BY <1>1, <3>2
        <5>2. Cardinality(r) <= n /\ Cardinality(r) <= n + 1
          BY <5>1
        <5>3. QED
          BY <5>1, <5>2
      <4>2. g[r] = f[r]
        BY <4>1
      <4>3. g[s] = Value(f, s)
        <5> HIDE DEF Value, Upto
        <5>1. QED
          BY <2>1
      <4>4. Value(f, s) = Value(g, s)
        BY <3>2, <4>2
      <4>5. QED
        BY <4>3, <4>4
    <3>3. QED
      BY <3>1, <3>2
  <2>3. g = [s \in Upto(n + 1) |-> g[s]]
    OBVIOUS
  <2> HIDE DEF g, Value, Upto
  <2>4. g = [s \in Upto(n + 1) |-> Value(g, s)]
    BY <2>2, <2>3
  <2>5. QED
    BY <2>4
<1>4. Cardinality(S) \in P /\ Upto(Cardinality(S)) = SUBSET S
  <2>1. Cardinality(S) \in Nat
    BY <1>1
  <2>2. Upto(Cardinality(S)) = SUBSET S
    BY <1>1
  <2> HIDE DEF P
  <2>3. QED
    BY <1>2, <1>3, <2>1, <2>2, Induction
<1>5. PICK g : g = [s \in SUBSET S |-> Value(g, s)]
  <2> HIDE DEF Upto, Value
  <2>1. QED
    BY <1>4
<1>6. QED
  BY <1>5, Zenon DEF Summing

\* A sum over the subsets of S: whichever element is taken out, it adds what it has.
SumFun(m, S, g) ==
  /\ g[{}] = 0
  /\ \A s \in SUBSET S : g[s] \in Nat /\ \A y \in s : g[s] = Len(m[y]) + g[s \ {y}]

LEMMA SumFacts ==
  ASSUME NEW m, NEW S, IsFiniteSet(S), \A p \in S : Len(m[p]) \in Nat
  PROVE  \E g : SumFun(m, S, g) /\ SumOf(m, S) = g[S]
<1> DEFINE g == CHOOSE h : Summing(m, S, h)
<1>1. Summing(m, S, g) /\ SumOf(m, S) = g[S]
  BY SumExists, SumIsChosen, Zenon
<1> HIDE DEF g
<1>2. ASSUME NEW s \in SUBSET S
      PROVE  /\ IsFiniteSet(s) /\ Cardinality(s) \in Nat /\ (Cardinality(s) = 0 <=> s = {})
             /\ \A y \in s : Cardinality(s \ {y}) = Cardinality(s) - 1 /\ s \ {y} \in SUBSET S
             /\ s # {} => Picked(s) \in s
             /\ g[s] = IF s = {} THEN 0 ELSE Len(m[Picked(s)]) + g[s \ {Picked(s)}]
  <2>1. IsFiniteSet(s)
    BY FS_Subset
  <2>2. Cardinality(s) \in Nat /\ (Cardinality(s) = 0 <=> s = {})
    BY <2>1, FS_CardinalityType, FS_EmptySet
  <2>3. \A y \in s : Cardinality(s \ {y}) = Cardinality(s) - 1
    BY <2>1, FS_RemoveElement
  <2>4. s # {} => Picked(s) \in s
    BY DEF Picked
  <2>5. g[s] = IF s = {} THEN 0 ELSE Len(m[Picked(s)]) + g[s \ {Picked(s)}]
    BY <1>1 DEF Summing
  <2>6. QED
    BY <2>1, <2>2, <2>3, <2>4, <2>5
<1> DEFINE P == {n \in Nat : \A s \in SUBSET S :
                    Cardinality(s) <= n =>
                      g[s] \in Nat /\ \A y \in s : g[s] = Len(m[y]) + g[s \ {y}]}
<1>3. 0 \in P
  <2>1. ASSUME NEW s \in SUBSET S, Cardinality(s) <= 0 PROVE s = {} /\ g[s] = 0
    <3>1. Cardinality(s) \in Nat /\ (Cardinality(s) = 0 <=> s = {})
      BY <1>2
    <3>2. s = {}
      BY <2>1, <3>1
    <3>3. QED
      BY <1>2, <3>2
  <2>2. QED
    BY <2>1
<1>4. ASSUME NEW n \in Nat, n \in P PROVE n + 1 \in P
  <2>0. ASSUME NEW s \in SUBSET S, s = {}
        PROVE  g[s] \in Nat /\ \A y \in s : g[s] = Len(m[y]) + g[s \ {y}]
    BY <1>2, <2>0
  <2>1. SUFFICES ASSUME NEW s \in SUBSET S, Cardinality(s) <= n + 1, s # {}
                 PROVE  g[s] \in Nat /\ \A y \in s : g[s] = Len(m[y]) + g[s \ {y}]
    BY <2>0
  <2> DEFINE x == Picked(s)
  <2>2. x \in s /\ x \in S /\ g[s] = Len(m[x]) + g[s \ {x}]
    BY <1>2, <2>1
  <2>3. ASSUME NEW y \in s PROVE Cardinality(s \ {y}) <= n /\ s \ {y} \in SUBSET S
    <3>1. Cardinality(s) \in Nat /\ Cardinality(s \ {y}) = Cardinality(s) - 1 /\ s \ {y} \in SUBSET S
      BY <1>2
    <3>2. QED
      BY <2>1, <3>1
  <2> HIDE DEF x
  <2>4. \A t \in SUBSET S : Cardinality(t) <= n =>
          g[t] \in Nat /\ \A y \in t : g[t] = Len(m[y]) + g[t \ {y}]
    BY <1>4
  <2>5. g[s] \in Nat
    BY <2>2, <2>3, <2>4
  <2>6. ASSUME NEW y \in s PROVE g[s] = Len(m[y]) + g[s \ {y}]
    <3>1. CASE y = x
      BY <2>2, <3>1
    <3>2. CASE y # x
      <4>1. y \in s \ {x} /\ x \in s \ {y}
        BY <2>2, <3>2
      <4>2. s \ {x} \in SUBSET S /\ s \ {y} \in SUBSET S
            /\ Cardinality(s \ {x}) <= n /\ Cardinality(s \ {y}) <= n
        BY <2>2, <2>3
      <4>3. g[s \ {x}] = Len(m[y]) + g[(s \ {x}) \ {y}]
        BY <2>4, <4>1, <4>2
      <4>4. g[s \ {y}] = Len(m[x]) + g[(s \ {y}) \ {x}]
        BY <2>4, <4>1, <4>2
      <4>5. (s \ {x}) \ {y} = (s \ {y}) \ {x}
        OBVIOUS
      <4>6. /\ Len(m[x]) \in Nat /\ Len(m[y]) \in Nat
            /\ g[s \ {x}] \in Nat /\ g[s \ {y}] \in Nat
        BY <2>2, <2>4, <4>2
      <4>7. g[(s \ {y}) \ {x}] \in Nat
        <5>1. (s \ {y}) \ {x} \in SUBSET S /\ Cardinality((s \ {y}) \ {x}) <= n
          <6>1. Cardinality((s \ {y}) \ {x}) = Cardinality(s \ {y}) - 1
            BY <1>2, <4>1, <4>2
          <6>2. Cardinality(s \ {y}) \in Nat
            BY <1>2, <4>2
          <6>3. QED
            BY <4>2, <6>1, <6>2
        <5>2. QED
          BY <2>4, <5>1
      <4> DEFINE a == Len(m[x])   b == Len(m[y])   c == g[(s \ {y}) \ {x}]
      <4>8. /\ g[s] = a + g[s \ {x}] /\ g[s \ {x}] = b + c /\ g[s \ {y}] = a + c
            /\ a \in Nat /\ b \in Nat /\ c \in Nat
        BY <2>2, <4>3, <4>4, <4>5, <4>6, <4>7
      <4>9. g[s] = b + g[s \ {y}]
        <5> HIDE DEF a, b, c
        <5>1. QED
          BY <4>8
      <4>10. QED
        BY <4>9
    <3>3. QED
      BY <3>1, <3>2
  <2>7. QED
    BY <2>5, <2>6
<1>5. Nat \subseteq P
  <2> HIDE DEF P
  <2>1. QED
    BY <1>3, <1>4, Induction
<1>6. ASSUME NEW s \in SUBSET S
      PROVE  g[s] \in Nat /\ \A y \in s : g[s] = Len(m[y]) + g[s \ {y}]
  <2>1. Cardinality(s) \in Nat
    BY <1>2
  <2>2. Cardinality(s) <= Cardinality(s)
    BY <2>1
  <2>3. QED
    BY <1>5, <2>1, <2>2
<1>7. g[{}] = 0
  BY <1>2
<1>8. QED
  BY <1>1, <1>6, <1>7 DEF SumFun

LEMMA SumUnique ==
  ASSUME NEW m, NEW S, NEW g, NEW m2, NEW S2, NEW g2, SumFun(m, S, g), SumFun(m2, S2, g2),
         NEW T \in SUBSET (S \cap S2), IsFiniteSet(T),
         \A p \in T : Len(m[p]) = Len(m2[p])
  PROVE  g[T] = g2[T]
<1> DEFINE P == {n \in Nat : \A s \in SUBSET T : Cardinality(s) = n => g[s] = g2[s]}
<1>1. ASSUME NEW s \in SUBSET T
      PROVE  /\ IsFiniteSet(s) /\ Cardinality(s) \in Nat /\ (Cardinality(s) = 0 <=> s = {})
             /\ \A y \in s : Cardinality(s \ {y}) = Cardinality(s) - 1
  <2>1. IsFiniteSet(s)
    BY FS_Subset
  <2>2. QED
    BY <2>1, FS_CardinalityType, FS_EmptySet, FS_RemoveElement
<1>2. 0 \in P
  <2>1. g[{}] = g2[{}]
    BY DEF SumFun
  <2>2. QED
    BY <1>1, <2>1
<1>3. ASSUME NEW n \in Nat, n \in P PROVE n + 1 \in P
  <2>1. SUFFICES ASSUME NEW s \in SUBSET T, Cardinality(s) = n + 1 PROVE g[s] = g2[s]
    OBVIOUS
  <2>2. PICK y \in s : TRUE
    BY <1>1, <2>1
  <2>3. s \ {y} \in SUBSET T /\ Cardinality(s \ {y}) = n
    BY <1>1, <2>1
  <2>4. g[s \ {y}] = g2[s \ {y}]
    BY <1>3, <2>3
  <2>5. g[s] = Len(m[y]) + g[s \ {y}] /\ g2[s] = Len(m2[y]) + g2[s \ {y}]
    <3>1. s \in SUBSET S /\ s \in SUBSET S2
      BY <2>1
    <3>2. QED
      BY <2>2, <3>1 DEF SumFun
  <2>6. QED
    BY <2>2, <2>4, <2>5
<1>4. Nat \subseteq P
  <2> HIDE DEF P
  <2>1. QED
    BY <1>2, <1>3, Induction
<1>5. QED
  BY <1>1, <1>4

LEMMA SumSame ==
  ASSUME NEW m, NEW m2, NEW S, IsFiniteSet(S), \A p \in S : Len(m[p]) \in Nat /\ Len(m[p]) = Len(m2[p])
  PROVE  SumOf(m, S) = SumOf(m2, S)
<1>1. PICK g : SumFun(m, S, g) /\ SumOf(m, S) = g[S]
  BY SumFacts
<1>2. PICK g2 : SumFun(m2, S, g2) /\ SumOf(m2, S) = g2[S]
  <2>1. \A p \in S : Len(m2[p]) \in Nat
    OBVIOUS
  <2>2. QED
    BY <2>1, SumFacts
<1>3. S \in SUBSET (S \cap S)
  OBVIOUS
<1>4. g[S] = g2[S]
  BY <1>1, <1>2, <1>3, SumUnique
<1>5. QED
  BY <1>1, <1>2, <1>4

LEMMA SumSplit ==
  ASSUME NEW m, NEW S, IsFiniteSet(S), \A p \in S : Len(m[p]) \in Nat
  PROVE  /\ SumOf(m, S) \in Nat
         /\ S = {} => SumOf(m, S) = 0
         /\ \A p \in S : SumOf(m, S) = Len(m[p]) + SumOf(m, S \ {p})
<1>1. PICK g : SumFun(m, S, g) /\ SumOf(m, S) = g[S]
  BY SumFacts
<1>2. ASSUME NEW p \in S PROVE g[S \ {p}] = SumOf(m, S \ {p})
  <2>1. IsFiniteSet(S \ {p}) /\ \A q \in S \ {p} : Len(m[q]) \in Nat
    BY FS_Subset
  <2>2. PICK h : SumFun(m, S \ {p}, h) /\ SumOf(m, S \ {p}) = h[S \ {p}]
    BY <2>1, SumFacts
  <2>3. S \ {p} \in SUBSET (S \cap (S \ {p}))
    OBVIOUS
  <2>4. g[S \ {p}] = h[S \ {p}]
    BY <1>1, <2>1, <2>2, <2>3, SumUnique
  <2>5. QED
    BY <2>2, <2>4
<1>3. g[{}] = 0 /\ S \in SUBSET S /\ g[S] \in Nat /\ \A p \in S : g[S] = Len(m[p]) + g[S \ {p}]
  BY <1>1 DEF SumFun
<1>4. QED
  BY <1>1, <1>2, <1>3

\* With one more, or one replaced, the sum grows at most by what is new.
LEMMA SumMore ==
  ASSUME NEW m, NEW m2, NEW S, IsFiniteSet(S), NEW p,
         \A q \in S : Len(m[q]) \in Nat, Len(m2[p]) \in Nat,
         \A q \in S \ {p} : m2[q] = m[q]
  PROVE  /\ SumOf(m2, S \cup {p}) \in Nat
         /\ SumOf(m2, S \cup {p}) <= SumOf(m, S) + Len(m2[p])
         /\ p \notin S => SumOf(m2, S \cup {p}) = SumOf(m, S) + Len(m2[p])
<1>1. /\ IsFiniteSet(S \cup {p}) /\ IsFiniteSet(S \ {p})
      /\ \A q \in S \cup {p} : Len(m2[q]) \in Nat
      /\ \A q \in S \ {p} : Len(m[q]) \in Nat /\ Len(m[q]) = Len(m2[q])
  BY FS_AddElement, FS_RemoveElement
<1>2. SumOf(m2, S \cup {p}) \in Nat /\ SumOf(m2, S \cup {p}) = Len(m2[p]) + SumOf(m2, S \ {p})
  <2>1. p \in S \cup {p} /\ (S \cup {p}) \ {p} = S \ {p}
    OBVIOUS
  <2>2. QED
    BY <1>1, <2>1, SumSplit
<1>3. SumOf(m2, S \ {p}) = SumOf(m, S \ {p}) /\ SumOf(m, S \ {p}) \in Nat
  BY <1>1, SumSame, SumSplit
<1>4. /\ SumOf(m, S) \in Nat /\ SumOf(m, S \ {p}) <= SumOf(m, S)
      /\ p \notin S => SumOf(m, S \ {p}) = SumOf(m, S)
  <2>1. SumOf(m, S) \in Nat /\ \A q \in S : SumOf(m, S) = Len(m[q]) + SumOf(m, S \ {q})
    BY SumSplit
  <2>2. CASE p \in S
    BY <1>3, <2>1, <2>2
  <2>3. CASE p \notin S
    <3>1. S \ {p} = S
      BY <2>3
    <3>2. SumOf(m, S \ {p}) = SumOf(m, S)
      BY <3>1, Zenon
    <3>3. QED
      BY <2>1, <2>3, <3>2
  <2>4. QED
    BY <2>2, <2>3
<1>5. QED
  BY <1>2, <1>3, <1>4

-----------------------------------------------------------------------------
(* Sequences over their own range, and the chains of directories of a path. *)

LEMMA OneMoreInSeq ==
  ASSUME NEW s, s \in Seq(Range(s)), NEW x
  PROVE  /\ Append(s, x) \in Seq(Range(Append(s, x)))
         /\ Len(Append(s, x)) = Len(s) + 1 /\ Len(s) \in Nat
         /\ DOMAIN s = 1 .. Len(s) /\ DOMAIN Append(s, x) = 1 .. Len(s) + 1
         /\ Append(s, x)[Len(s) + 1] = x
         /\ \A i \in 1 .. Len(s) : Append(s, x)[i] = s[i]
<1> DEFINE T == Range(s) \cup {x}
<1>1. s \in Seq(T) /\ x \in T
  <2>1. Range(s) \subseteq T
    OBVIOUS
  <2>2. s \in [1 .. Len(s) -> Range(s)] /\ Len(s) \in Nat
    BY LenProperties
  <2>3. s \in [1 .. Len(s) -> T]
    BY <2>1, <2>2
  <2> HIDE DEF T
  <2>4. QED
    BY <2>2, <2>3, SeqDef DEF T
<1> HIDE DEF T
<1>2. /\ Append(s, x) \in Seq(T) /\ Len(Append(s, x)) = Len(s) + 1 /\ Len(s) \in Nat
      /\ \A i \in 1 .. Len(s) : Append(s, x)[i] = s[i] /\ Append(s, x)[Len(s) + 1] = x
  BY <1>1, AppendProperties
<1>3. DOMAIN s = 1 .. Len(s) /\ DOMAIN Append(s, x) = 1 .. Len(s) + 1
  BY <1>1, <1>2
<1>4. Append(s, x) \in Seq(Range(Append(s, x)))
  <2> DEFINE t == Append(s, x)
  <2>1. t \in [1 .. Len(t) -> T] /\ Len(t) \in Nat
    BY <1>2, LenProperties
  <2>2. t \in [1 .. Len(t) -> Range(t)]
    BY <2>1 DEF Range
  <2> HIDE DEF t
  <2>3. t \in Seq(Range(t))
    BY <2>1, <2>2, SeqDef
  <2>4. QED
    BY <2>3 DEF t
<1>5. Append(s, x)[Len(s) + 1] = x
  <2>1. Append(s, x)[Len(Append(s, x))] = x
    BY <1>1, AppendProperties
  <2>2. QED
    BY <1>2, <2>1
<1>6. QED
  BY <1>2, <1>3, <1>4, <1>5

Roots(ts) == {[node |-> ts[i].root, at |-> i] : i \in {j \in DOMAIN ts : ts[j].root # Nothing}}

\* What a name led to in a directory, not before it was there itself.
Links(ts, r, name) ==
  {[node |-> ts[i].entry[r.node][name], at |-> i] :
     i \in {j \in r.at .. Len(ts) : ts[j].type[r.node] = "dir" /\ name \in DOMAIN ts[j].entry[r.node]}}

\* A way from the bundle to where a path led.
Chain(ts, path, c) ==
  /\ c[0] \in Roots(ts) /\ \A k \in 1 .. Len(path) : c[k] \in Links(ts, c[k - 1], path[k])
  /\ \A k \in 0 .. Len(path) : c[k].at \in DOMAIN ts

Reaching(path, R) ==
  R = [k \in 0 .. Len(path) |->
         IF k = 0 THEN Roots(trees) ELSE UNION {Links(trees, r, path[k]) : r \in R[k - 1]}]

LEMMA LedIsChosen ==
  ASSUME NEW path
  PROVE  Led(path) = (CHOOSE R : Reaching(path, R))[Len(path)]
BY Zenon DEF Led, Reaching, Roots, Links

LEMMA ReachingExists ==
  ASSUME NEW path, Len(path) \in Nat
  PROVE  \E R : Reaching(path, R)
<1> DEFINE Value(R, k) == IF k = 0 THEN Roots(trees) ELSE UNION {Links(trees, r, path[k]) : r \in R[k - 1]}
           P == {n \in Nat : \E R : R = [k \in 0 .. n |-> Value(R, k)]}
<1>1. 0 \in P
  <2> DEFINE R == [k \in 0 .. 0 |-> Roots(trees)]
  <2>1. R = [k \in 0 .. 0 |-> Value(R, k)]
    OBVIOUS
  <2> HIDE DEF R
  <2>2. QED
    BY <2>1
<1>2. ASSUME NEW n \in Nat, n \in P PROVE n + 1 \in P
  <2>1. PICK f : f = [k \in 0 .. n |-> Value(f, k)]
    BY <1>2
  <2> DEFINE g == [k \in 0 .. n + 1 |-> IF k <= n THEN f[k] ELSE Value(f, k)]
  <2>2. ASSUME NEW k \in 0 .. n + 1 PROVE g[k] = Value(g, k)
    <3>1. k # 0 => g[k - 1] = f[k - 1]
      OBVIOUS
    <3>2. Value(g, k) = Value(f, k)
      BY <3>1
    <3>3. k <= n => f[k] = Value(f, k)
      <4> HIDE DEF Value
      <4>1. QED
        BY <2>1
    <3>4. g[k] = Value(f, k)
      <4> HIDE DEF Value
      <4>1. QED
        BY <3>3
    <3>5. QED
      BY <3>2, <3>4
  <2>3. g = [k \in 0 .. n + 1 |-> g[k]]
    OBVIOUS
  <2> HIDE DEF g, Value
  <2>4. g = [k \in 0 .. n + 1 |-> Value(g, k)]
    BY <2>2, <2>3
  <2>5. QED
    BY <2>4
<1>3. Len(path) \in P
  <2> HIDE DEF P
  <2>1. QED
    BY <1>1, <1>2, Induction
<1>4. QED
  <2>1. PICK R : R = [k \in 0 .. Len(path) |-> Value(R, k)]
    <3> HIDE DEF Value
    <3>1. QED
      BY <1>3
  <2>2. QED
    BY <2>1, Zenon DEF Reaching

LEMMA ChainIsLed ==
  ASSUME NEW path, Len(path) \in Nat, NEW c, Chain(trees, path, c)
  PROVE  c[Len(path)] \in Led(path)
<1> DEFINE R == CHOOSE R : Reaching(path, R)
<1>1. Reaching(path, R) /\ Led(path) = R[Len(path)]
  BY ReachingExists, LedIsChosen, Zenon
<1> HIDE DEF R
<1> DEFINE P == {n \in Nat : n <= Len(path) => c[n] \in R[n]}
<1>2. 0 \in P
  BY <1>1 DEF Reaching, Chain
<1>3. ASSUME NEW n \in Nat, n \in P PROVE n + 1 \in P
  <2>1. SUFFICES ASSUME n + 1 <= Len(path) PROVE c[n + 1] \in R[n + 1]
    OBVIOUS
  <2>2. c[n] \in R[n]
    BY <1>3, <2>1
  <2>3. c[n + 1] \in Links(trees, c[n], path[n + 1])
    <3>1. n + 1 \in 1 .. Len(path) /\ (n + 1) - 1 = n
      BY <2>1
    <3>2. QED
      BY <3>1 DEF Chain
  <2>4. R[n + 1] = UNION {Links(trees, r, path[n + 1]) : r \in R[n]}
    <3>1. n + 1 \in 0 .. Len(path) /\ (n + 1) - 1 = n /\ n + 1 # 0
      BY <2>1
    <3>2. QED
      BY <1>1, <3>1 DEF Reaching
  <2>5. QED
    BY <2>2, <2>3, <2>4
<1>4. Len(path) \in P
  <2> HIDE DEF P
  <2>1. QED
    BY <1>2, <1>3, Induction
<1>5. QED
  BY <1>1, <1>4

\* Where a path led, it led: a later file system takes nothing away.
LEMMA ChainStays ==
  ASSUME NEW ts, ts \in Seq(Range(ts)), NEW t, NEW path, Len(path) \in Nat, NEW c, Chain(ts, path, c)
  PROVE  Chain(Append(ts, t), path, c)
<1> DEFINE us == Append(ts, t)
<1>1. /\ Len(ts) \in Nat /\ DOMAIN ts = 1 .. Len(ts) /\ DOMAIN us = 1 .. Len(ts) + 1
      /\ Len(us) = Len(ts) + 1 /\ \A i \in 1 .. Len(ts) : us[i] = ts[i]
  BY OneMoreInSeq
<1> HIDE DEF us
<1>2. Roots(ts) \subseteq Roots(us)
  BY <1>1 DEF Roots
<1>3. ASSUME NEW k \in 1 .. Len(path) PROVE c[k] \in Links(us, c[k - 1], path[k])
  <2>1. c[k] \in Links(ts, c[k - 1], path[k]) /\ c[k - 1].at \in 1 .. Len(ts)
    BY <1>1 DEF Chain
  <2>2. PICK i \in c[k - 1].at .. Len(ts) :
          /\ ts[i].type[c[k - 1].node] = "dir" /\ path[k] \in DOMAIN ts[i].entry[c[k - 1].node]
          /\ c[k] = [node |-> ts[i].entry[c[k - 1].node][path[k]], at |-> i]
    BY <2>1 DEF Links
  <2>3. i \in 1 .. Len(ts) /\ i \in c[k - 1].at .. Len(us) /\ us[i] = ts[i]
    BY <1>1, <2>1, <2>2
  <2>4. QED
    BY <2>2, <2>3 DEF Links
<1>4. \A k \in 0 .. Len(path) : c[k].at \in DOMAIN us
  BY <1>1 DEF Chain
<1>5. QED
  BY <1>2, <1>3, <1>4 DEF Chain, us

\* A directory's own way, and one name more.
LEMMA ChainGrows ==
  ASSUME NEW ts, ts \in Seq(Range(ts)), Len(ts) > 0,
         NEW path \in Seq(Names), NEW name \in Names, NEW c, Chain(ts, path, c),
         ts[Len(ts)].type[c[Len(path)].node] = "dir", name \in DOMAIN ts[Len(ts)].entry[c[Len(path)].node]
  PROVE  \E d : /\ Chain(ts, Append(path, name), d)
                /\ d[Len(path) + 1] = [node |-> ts[Len(ts)].entry[c[Len(path)].node][name], at |-> Len(ts)]
<1> DEFINE last == [node |-> ts[Len(ts)].entry[c[Len(path)].node][name], at |-> Len(ts)]
           d == [k \in 0 .. Len(path) + 1 |-> IF k <= Len(path) THEN c[k] ELSE last]
           way == Append(path, name)
<1>1. /\ Len(path) \in Nat /\ Len(way) = Len(path) + 1 /\ way[Len(path) + 1] = name
      /\ \A k \in 1 .. Len(path) : way[k] = path[k]
  BY AppendProperties
<1>2. Len(ts) \in Nat /\ DOMAIN ts = 1 .. Len(ts) /\ Len(ts) \in DOMAIN ts
  BY OneMoreInSeq
<1>3. /\ \A k \in 0 .. Len(path) : d[k] = c[k]
      /\ d[Len(path) + 1] = last
  BY <1>1
<1> HIDE DEF d, way
<1>4. c[Len(path)].at \in 1 .. Len(ts)
  BY <1>1, <1>2 DEF Chain
<1>5. last \in Links(ts, c[Len(path)], name)
  BY <1>2, <1>4 DEF Links
<1>6. ASSUME NEW k \in 1 .. Len(way) PROVE d[k] \in Links(ts, d[k - 1], way[k])
  <2>1. CASE k <= Len(path)
    <3>1. k \in 1 .. Len(path) /\ k \in 0 .. Len(path) /\ k - 1 \in 0 .. Len(path)
      BY <1>1, <2>1
    <3>2. d[k] = c[k] /\ d[k - 1] = c[k - 1] /\ way[k] = path[k]
      BY <1>1, <1>3, <3>1
    <3>3. QED
      BY <3>1, <3>2 DEF Chain
  <2>2. CASE k = Len(path) + 1
    <3>1. d[k - 1] = c[Len(path)]
      BY <1>1, <1>3, <2>2
    <3>2. QED
      BY <1>1, <1>3, <1>5, <2>2, <3>1
  <2>3. QED
    BY <1>1, <2>1, <2>2
<1>7. ASSUME NEW k \in 0 .. Len(way) PROVE d[k].at \in DOMAIN ts
  <2>1. CASE k <= Len(path)
    BY <1>1, <1>3, <2>1 DEF Chain
  <2>2. CASE k = Len(path) + 1
    BY <1>2, <1>3, <2>2
  <2>3. QED
    BY <1>1, <2>1, <2>2
<1>8. d[0] \in Roots(ts)
  BY <1>1, <1>3 DEF Chain
<1>9. QED
  BY <1>3, <1>6, <1>7, <1>8 DEF Chain, way

\* The way to the bundle itself.
LEMMA ChainBegins ==
  ASSUME NEW ts, ts \in Seq(Range(ts)), Len(ts) > 0, ts[Len(ts)].root # Nothing
  PROVE  \E c : Chain(ts, <<>>, c) /\ c[0] = [node |-> ts[Len(ts)].root, at |-> Len(ts)]
<1> DEFINE c == [k \in {0} |-> [node |-> ts[Len(ts)].root, at |-> Len(ts)]]
<1>1. Len(ts) \in Nat /\ DOMAIN ts = 1 .. Len(ts) /\ Len(ts) \in DOMAIN ts
  BY OneMoreInSeq
<1>2. c[0] = [node |-> ts[Len(ts)].root, at |-> Len(ts)] /\ c[0] \in Roots(ts)
  BY <1>1 DEF Roots
<1>3. Len(<<>>) = 0
  OBVIOUS
<1> HIDE DEF c
<1>4. Chain(ts, <<>>, c)
  BY <1>1, <1>2, <1>3 DEF Chain
<1>5. QED
  BY <1>2, <1>4

-----------------------------------------------------------------------------
(* The editor.                                                             *)

\* What a file may hold: what it held to begin with, or what was written.
Contents == Writings \cup UNION {Range(c.tree.data) : c \in Cases}

FilesKnown(t) == \A n \in Nodes : t.data[n] \in Contents

LEMMA ContentsAreBlocks == \A b \in Contents : IsBlocks(b)
<1>1. ASSUME NEW c \in Cases, NEW b \in Range(c.tree.data) PROVE IsBlocks(b)
  BY <1>1, WalkAssumption DEF Range, IsTree
<1>2. QED
  BY <1>1, WalkAssumption DEF Contents

\* What an edit leaves of an inode that was there before: a file whose time did not
\* move is the file it was.
Untouched(t, u) ==
  \A n \in Nodes : t.mtime[n] <= u.mtime[n] /\ (t.mtime[n] = u.mtime[n] => t.data[n] = u.data[n])

LEMMA WriteFacts ==
  ASSUME IsTree(tree), FilesKnown(tree), NEW n \in Nodes, NEW w \in Writings,
         NEW u, u = [tree EXCEPT !.data[n] = w, !.mtime[n] = @ + 1]
  PROVE  IsTree(u) /\ FilesKnown(u) /\ Untouched(tree, u) /\ u.type = tree.type
<1>1. /\ DOMAIN u = {"type", "data", "mtime", "entry", "root"}
      /\ u.type = tree.type /\ u.entry = tree.entry /\ u.root = tree.root
      /\ u.data = [tree.data EXCEPT ![n] = w]
      /\ u.mtime = [tree.mtime EXCEPT ![n] = @ + 1]
  BY DEF IsTree
<1>2. w \in Contents /\ IsBlocks(w)
  BY ContentsAreBlocks DEF Contents
<1>3. /\ DOMAIN u.data = Nodes /\ u.data[n] = w
      /\ \A m \in Nodes \ {n} : u.data[m] = tree.data[m]
  BY <1>1 DEF IsTree
<1>4. /\ u.mtime \in [Nodes -> Nat] /\ u.mtime[n] = tree.mtime[n] + 1 /\ tree.mtime \in [Nodes -> Nat]
      /\ \A m \in Nodes \ {n} : u.mtime[m] = tree.mtime[m]
  BY <1>1 DEF IsTree
<1>5. IsTree(u)
  BY <1>1, <1>2, <1>3, <1>4 DEF IsTree
<1>6. FilesKnown(u)
  BY <1>2, <1>3 DEF FilesKnown
<1>7. ASSUME NEW m \in Nodes
      PROVE  tree.mtime[m] <= u.mtime[m] /\ (tree.mtime[m] = u.mtime[m] => tree.data[m] = u.data[m])
  <2>1. tree.mtime[m] \in Nat
    BY <1>4
  <2>2. QED
    BY <1>3, <1>4, <2>1
<1>8. QED
  BY <1>1, <1>5, <1>6, <1>7 DEF Untouched

\* An edit of the entries of one directory.
LEMMA EntryFacts ==
  ASSUME IsTree(tree), FilesKnown(tree), NEW d \in Nodes,
         NEW e, IsFiniteSet(DOMAIN e), DOMAIN e \subseteq Names, \A m \in DOMAIN e : e[m] \in Nodes,
         NEW u, u = [tree EXCEPT !.entry[d] = e]
  PROVE  IsTree(u) /\ FilesKnown(u) /\ Untouched(tree, u) /\ u.type = tree.type
<1>1. /\ DOMAIN u = {"type", "data", "mtime", "entry", "root"}
      /\ u.type = tree.type /\ u.data = tree.data /\ u.mtime = tree.mtime /\ u.root = tree.root
      /\ u.entry = [tree.entry EXCEPT ![d] = e]
  BY DEF IsTree
<1>2. DOMAIN u.entry = Nodes /\ u.entry[d] = e /\ \A m \in Nodes \ {d} : u.entry[m] = tree.entry[m]
  BY <1>1 DEF IsTree
<1>3. IsTree(u)
  BY <1>1, <1>2 DEF IsTree
<1>4. \A m \in Nodes : tree.mtime[m] \in Nat
  BY DEF IsTree
<1>5. QED
  BY <1>1, <1>3, <1>4 DEF FilesKnown, Untouched

LEMMA RecycleFacts ==
  ASSUME IsTree(tree), FilesKnown(tree), NEW n \in Nodes, NEW kind \in Types,
         NEW u, u = [tree EXCEPT !.type[n] = kind, !.mtime[n] = @ + 1]
  PROVE  IsTree(u) /\ FilesKnown(u) /\ Untouched(tree, u) /\ \A m \in Nodes : m # n => u.type[m] = tree.type[m]
<1>1. /\ DOMAIN u = {"type", "data", "mtime", "entry", "root"}
      /\ u.entry = tree.entry /\ u.root = tree.root /\ u.data = tree.data
      /\ u.type = [tree.type EXCEPT ![n] = kind]
      /\ u.mtime = [tree.mtime EXCEPT ![n] = @ + 1]
  BY DEF IsTree
<1>2. u.type \in [Nodes -> Types] /\ \A m \in Nodes \ {n} : u.type[m] = tree.type[m]
  BY <1>1 DEF IsTree
<1>3. /\ u.mtime \in [Nodes -> Nat] /\ u.mtime[n] = tree.mtime[n] + 1 /\ tree.mtime \in [Nodes -> Nat]
      /\ \A m \in Nodes \ {n} : u.mtime[m] = tree.mtime[m]
  BY <1>1 DEF IsTree
<1>4. IsTree(u)
  BY <1>1, <1>2, <1>3 DEF IsTree
<1>5. ASSUME NEW m \in Nodes PROVE tree.mtime[m] <= u.mtime[m]
  <2>1. tree.mtime[m] \in Nat
    BY <1>3
  <2>2. QED
    BY <1>3, <2>1
<1>6. QED
  BY <1>1, <1>2, <1>4, <1>5 DEF Untouched, FilesKnown

LEMMA RootFacts ==
  ASSUME IsTree(tree), FilesKnown(tree), NEW n \in Nodes \cup {Nothing},
         NEW u, u = [tree EXCEPT !.root = n]
  PROVE  IsTree(u) /\ FilesKnown(u) /\ Untouched(tree, u) /\ u.type = tree.type
<1>1. /\ DOMAIN u = {"type", "data", "mtime", "entry", "root"}
      /\ u.type = tree.type /\ u.data = tree.data /\ u.mtime = tree.mtime
      /\ u.entry = tree.entry /\ u.root = n
  BY DEF IsTree
<1>2. IsTree(u)
  BY <1>1 DEF IsTree
<1>3. \A m \in Nodes : tree.mtime[m] \in Nat
  BY DEF IsTree
<1>4. QED
  BY <1>1, <1>2, <1>3 DEF FilesKnown, Untouched

\* An edit makes a file system of the one there was, and takes no inode from anyone
\* who has it open.
LEMMA EditFacts ==
  ASSUME IsTree(tree), FilesKnown(tree), EditStep
  PROVE  /\ IsTree(tree') /\ FilesKnown(tree') /\ Untouched(tree, tree')
         /\ \A n \in Opened \cap Nodes : tree'.type[n] = tree.type[n]
         /\ trees' = Append(trees, tree')
         /\ step \notin {"start", "loaded", "refused"}
         /\ UNCHANGED <<limits, disturbed, step, anchors, entry, reading, entries, members>>
<1> DEFINE Made(u) == /\ IsTree(u) /\ FilesKnown(u) /\ Untouched(tree, u)
                      /\ \A n \in Opened \cap Nodes : u.type[n] = tree.type[n]
<1>1. SUFFICES \E u : tree' = u /\ Made(u)
  <2>1. /\ trees' = Append(trees, tree') /\ step \notin {"start", "loaded", "refused"}
        /\ UNCHANGED <<limits, disturbed, step, anchors, entry, reading, entries, members>>
    BY DEF EditStep, Write, Unlink, Place, PlaceRoot, Recycle, Edited, walkVars
  <2>2. QED
    BY <2>1
<1>2. CASE Write
  <2>1. PICK n \in Nodes, w \in Writings : Edited([tree EXCEPT !.data[n] = w, !.mtime[n] = @ + 1])
    BY <1>2 DEF Write
  <2>2. PICK u : u = [tree EXCEPT !.data[n] = w, !.mtime[n] = @ + 1]
    OBVIOUS
  <2>3. tree' = u
    BY <2>1, <2>2 DEF Edited
  <2>4. IsTree(u) /\ FilesKnown(u) /\ Untouched(tree, u) /\ u.type = tree.type
    BY <2>2, WriteFacts
  <2>5. QED
    BY <2>3, <2>4
<1>3. CASE Unlink
  <2>1. PICK d \in Nodes : \E m \in DOMAIN tree.entry[d] :
          Edited([tree EXCEPT !.entry[d] = [k \in DOMAIN @ \ {m} |-> @[k]]])
    BY <1>3 DEF Unlink
  <2>2. PICK m \in DOMAIN tree.entry[d] :
          Edited([tree EXCEPT !.entry[d] = [k \in DOMAIN @ \ {m} |-> @[k]]])
    BY <2>1
  <2>3. PICK e : e = [k \in DOMAIN tree.entry[d] \ {m} |-> tree.entry[d][k]]
    OBVIOUS
  <2>4. IsFiniteSet(DOMAIN e) /\ DOMAIN e \subseteq Names /\ \A k \in DOMAIN e : e[k] \in Nodes
    <3>1. IsFiniteSet(DOMAIN tree.entry[d] \ {m})
      BY FS_RemoveElement DEF IsTree
    <3>2. QED
      BY <2>3, <3>1 DEF IsTree
  <2>5. PICK u : u = [tree EXCEPT !.entry[d] = e]
    OBVIOUS
  <2>6. tree' = u
    BY <2>2, <2>3, <2>5 DEF Edited
  <2>7. IsTree(u) /\ FilesKnown(u) /\ Untouched(tree, u) /\ u.type = tree.type
    BY <2>4, <2>5, EntryFacts
  <2>8. QED
    BY <2>6, <2>7
<1>4. CASE Place
  <2>1. PICK d \in Nodes, m \in Placings, n \in Nodes :
          Edited([tree EXCEPT !.entry[d] = [k \in DOMAIN @ \cup {m} |-> IF k = m THEN n ELSE @[k]]])
    BY <1>4 DEF Place
  <2>3. PICK e : e = [k \in DOMAIN tree.entry[d] \cup {m} |-> IF k = m THEN n ELSE tree.entry[d][k]]
    OBVIOUS
  <2>4. IsFiniteSet(DOMAIN e) /\ DOMAIN e \subseteq Names /\ \A k \in DOMAIN e : e[k] \in Nodes
    <3>1. IsFiniteSet(DOMAIN tree.entry[d] \cup {m})
      BY FS_AddElement DEF IsTree
    <3>2. QED
      BY <2>3, <3>1, WalkAssumption DEF IsTree
  <2>5. PICK u : u = [tree EXCEPT !.entry[d] = e]
    OBVIOUS
  <2>6. tree' = u
    BY <2>1, <2>3, <2>5 DEF Edited
  <2>7. IsTree(u) /\ FilesKnown(u) /\ Untouched(tree, u) /\ u.type = tree.type
    BY <2>4, <2>5, EntryFacts
  <2>8. QED
    BY <2>6, <2>7
<1>5. CASE PlaceRoot
  <2>1. PICK n \in Nodes \cup {Nothing} : Edited([tree EXCEPT !.root = n])
    BY <1>5 DEF PlaceRoot
  <2>2. PICK u : u = [tree EXCEPT !.root = n]
    OBVIOUS
  <2>3. tree' = u
    BY <2>1, <2>2 DEF Edited
  <2>4. IsTree(u) /\ FilesKnown(u) /\ Untouched(tree, u) /\ u.type = tree.type
    BY <2>2, RootFacts
  <2>5. QED
    BY <2>3, <2>4
<1>6. CASE Recycle
  <2>1. PICK n \in Nodes, kind \in Types :
          n \notin Opened /\ Edited([tree EXCEPT !.type[n] = kind, !.mtime[n] = @ + 1])
    BY <1>6 DEF Recycle
  <2>2. PICK u : u = [tree EXCEPT !.type[n] = kind, !.mtime[n] = @ + 1]
    OBVIOUS
  <2>3. tree' = u
    BY <2>1, <2>2 DEF Edited
  <2>5. IsTree(u) /\ FilesKnown(u) /\ Untouched(tree, u)
        /\ \A m \in Nodes : m # n => u.type[m] = tree.type[m]
    BY <2>2, RecycleFacts
  <2>6. \A m \in Opened \cap Nodes : m \in Nodes /\ m # n
    BY <2>1
  <2>7. QED
    BY <2>3, <2>5, <2>6
<1>8. QED
  BY <1>2, <1>3, <1>4, <1>5, <1>6 DEF EditStep

-----------------------------------------------------------------------------
(* The walk.                                                               *)

Outside == {"idle", "start", "archive", "inspect-archive", "root", "open-root"}
Within  == {"scan", "next", "open-directory", "open-file", "read", "check"}
AtFile  == {"open-file", "read", "check"}
Steps   == Outside \cup Within \cup {"loaded", "refused"}

LedTo(ts, path, node) == \E c : Chain(ts, path, c) /\ c[Len(path)].node = node

\* The inode a path led to was a file of these blocks, then or later.
WasFile(ts, path, blocks) ==
  \E c : /\ Chain(ts, path, c)
         /\ \E i \in DOMAIN ts : /\ i >= c[Len(path)].at
                                 /\ ts[i].type[c[Len(path)].node] = "file"
                                 /\ ts[i].data[c[Len(path)].node] = blocks

OpenDirectories == [node : Nodes, path : Seq(Names), left : SUBSET Names]

FilesInv ==
  /\ limits \in Limits /\ disturbed \in BOOLEAN
  /\ trees \in Seq(Range(trees)) /\ Len(trees) > 0 /\ trees[Len(trees)] = tree
  /\ \A i \in DOMAIN trees : IsTree(trees[i])
  /\ IsTree(tree) /\ FilesKnown(tree)

\* A directory that is open stays one, and is where its path led.
AnchorsInv ==
  /\ step \in Steps
  /\ anchors \in Seq(OpenDirectories) /\ Len(anchors) <= limits.depth + 1
  /\ \A k \in 1 .. Len(anchors) : /\ tree.type[anchors[k].node] = "dir"
                                  /\ Len(anchors[k].path) = k - 1
                                  /\ LedTo(trees, anchors[k].path, anchors[k].node)
  /\ step \in Within => Len(anchors) > 0
  /\ step \in Outside => anchors = <<>>

\* The entry under inspection is where its path led, below the open directory.
EntryInv ==
  /\ entry \in [path : Seq(Names), node : Nodes \cup {Nothing}, type : Types]
  /\ step \in {"open-root", "open-directory"} \cup AtFile =>
       /\ entry.node \in Nodes /\ Len(entry.path) = Len(anchors)
       /\ LedTo(trees, entry.path, entry.node)
  /\ step \in {"open-root", "open-directory"} => Len(anchors) <= limits.depth
  /\ step \in AtFile => Cardinality(DOMAIN members) < limits.files

\* A file being read stays one, and what was read of it is a beginning of what it
\* holds, unless its time has moved.
ReadingInv ==
  /\ DOMAIN reading = {"node", "size", "mtime", "budget", "blocks"}
  /\ reading.node \in Nodes \cup {Nothing} /\ {reading.size, reading.mtime, reading.budget} \subseteq Nat
  /\ step \in {"read", "check"} =>
       /\ reading.node = entry.node /\ tree.type[reading.node] = "file"
       /\ reading.budget = Budget /\ IsBlocks(reading.blocks)
       /\ reading.mtime <= tree.mtime[reading.node]
       /\ reading.mtime = tree.mtime[reading.node] =>
            /\ Len(reading.blocks) <= Len(tree.data[reading.node])
            /\ \A i \in 1 .. Len(reading.blocks) : reading.blocks[i] = tree.data[reading.node][i]

MembersInv ==
  /\ entries \in 0 .. limits.entries /\ (step \in Outside => entries = 0 /\ members = <<>>)
  /\ IsFiniteSet(DOMAIN members) /\ Cardinality(DOMAIN members) <= limits.files
  /\ \A p \in DOMAIN members :
       p \in Seq(Names) /\ IsBlocks(members[p]) /\ Len(members[p]) <= limits.fileSize
  /\ Total \in Nat /\ Total <= limits.total
  /\ entries > 0 \/ step \in Within =>
       \A p \in DOMAIN members : Len(p) <= limits.depth + 1 /\ WasFile(trees, p, members[p])

WalkInv == FilesInv /\ AnchorsInv /\ EntryInv /\ ReadingInv /\ MembersInv /\ IsInfos(archive)

LEMMA BudgetType ==
  ASSUME FilesInv, MembersInv
  PROVE  Budget \in Nat /\ Budget <= limits.fileSize /\ Budget + Total <= limits.total
<1>1. limits.fileSize \in Nat /\ limits.total \in Nat
  BY DEF FilesInv, Limits
<1>2. QED
  BY <1>1 DEF Budget, Lesser, MembersInv

LEMMA SameBudget == UNCHANGED <<limits, members>> => Total' = Total /\ Budget' = Budget
<1>1. Total = SumOf(members, DOMAIN members)
  BY Zenon DEF Total, SumOf, MapThenSumSet, MapThenFoldSet
<1>2. Total' = SumOf(members', DOMAIN members')
  BY Zenon DEF Total, SumOf, MapThenSumSet, MapThenFoldSet
<1>3. QED
  BY <1>1, <1>2 DEF Budget, Lesser

LEMMA NothingYet ==
  Total = SumOf(members, DOMAIN members) /\ (members = <<>> => DOMAIN members = {} /\ Total = 0)
<1>1. Total = SumOf(members, DOMAIN members)
  BY Zenon DEF Total, SumOf
<1>2. ASSUME members = <<>> PROVE DOMAIN members = {}
  BY <1>2
<1>3. IsFiniteSet({})
  BY FS_EmptySet
<1>4. SumOf(members, {}) = 0
  BY <1>3, SumSplit
<1>5. QED
  BY <1>1, <1>2, <1>4

LEMMA WalkTypes == WalkInv => WalkTypeOK
<1> SUFFICES ASSUME WalkInv PROVE WalkTypeOK
  OBVIOUS
<1>1. \A i \in DOMAIN anchors : /\ anchors[i].node \in Nodes /\ anchors[i].path \in Seq(Names)
                               /\ anchors[i].left \subseteq Names
  <2>1. anchors \in Seq(OpenDirectories)
    BY DEF WalkInv, AnchorsInv
  <2>2. \A i \in DOMAIN anchors : anchors[i] \in OpenDirectories
    BY <2>1
  <2>3. QED
    BY <2>2 DEF OpenDirectories
<1>2. entry.path \in Seq(Names) /\ entry.node \in Nodes \cup {Nothing} /\ entry.type \in Types
  BY DEF WalkInv, EntryInv
<1>3. QED
  BY <1>1, <1>2 DEF WalkInv, FilesInv, ReadingInv, MembersInv, WalkTypeOK

LEMMA WalkIsThere == WalkInv => MembersWereThere
<1> SUFFICES ASSUME WalkInv PROVE MembersWereThere
  OBVIOUS
<1>1. ASSUME entries > 0, NEW p \in DOMAIN members
      PROVE  /\ Len(p) <= limits.depth + 1
             /\ \E r \in Led(p), i \in DOMAIN trees :
                  i >= r.at /\ trees[i].type[r.node] = "file" /\ trees[i].data[r.node] = members[p]
  <2>1. p \in Seq(Names) /\ Len(p) <= limits.depth + 1 /\ WasFile(trees, p, members[p])
    BY <1>1 DEF WalkInv, MembersInv
  <2>2. Len(p) \in Nat
    BY <2>1
  <2>3. PICK c : /\ Chain(trees, p, c)
                 /\ \E i \in DOMAIN trees : /\ i >= c[Len(p)].at
                                            /\ trees[i].type[c[Len(p)].node] = "file"
                                            /\ trees[i].data[c[Len(p)].node] = members[p]
    BY <2>1 DEF WasFile
  <2>4. c[Len(p)] \in Led(p)
    BY <2>2, <2>3, ChainIsLed
  <2>5. QED
    BY <2>1, <2>3, <2>4
<1>2. QED
  BY <1>1 DEF WalkInv, MembersInv, MembersWereThere

LEMMA WalkInvInit == (BundleInit \/ BundleIdle) => WalkInv
<1> SUFFICES ASSUME BundleInit \/ BundleIdle PROVE WalkInv
  OBVIOUS
<1>1. PICK c \in Cases : tree = c.tree /\ limits = c.limits
  <2>1. CASE BundleInit
    BY <2>1 DEF BundleInit, WalkInit
  <2>2. CASE BundleIdle
    <3>1. (CHOOSE c \in Cases : TRUE) \in Cases
      BY WalkAssumption
    <3>2. QED
      BY <2>2, <3>1 DEF BundleIdle, WalkIdle
  <2>3. QED
    BY <2>1, <2>2
<1>2. /\ IsTree(tree) /\ limits \in Limits /\ disturbed \in BOOLEAN
      /\ trees = <<tree>> /\ step \in {"start", "idle"}
      /\ anchors = <<>> /\ entry = NoEntry /\ reading = NotReading
      /\ entries = 0 /\ members = <<>> /\ archive = <<>>
  BY <1>1, WalkAssumption DEF BundleInit, BundleIdle, WalkInit, WalkIdle
<1>3. FilesInv
  <2>1. FilesKnown(tree)
    BY <1>1, <1>2 DEF FilesKnown, Contents, Range, IsTree
  <2>2. trees \in Seq(Range(trees)) /\ Len(trees) = 1 /\ trees[1] = tree /\ DOMAIN trees = {1}
    <3>1. DOMAIN trees = 1 .. 1 /\ Len(trees) = 1 /\ trees[1] = tree /\ tree \in Range(trees)
      BY <1>2 DEF Range
    <3>2. QED
      BY <1>2, <3>1
  <2>3. QED
    BY <1>2, <2>1, <2>2 DEF FilesInv
<1>4. AnchorsInv
  <2>1. limits.depth \in Nat /\ 0 <= limits.depth + 1
    BY <1>2 DEF Limits
  <2>2. Len(anchors) = 0 /\ anchors \in Seq(OpenDirectories)
    BY <1>2
  <2>3. step \in Steps /\ step \notin Within
    BY <1>2 DEF Steps, Outside, Within
  <2>4. \A k \in 1 .. Len(anchors) : FALSE
    BY <2>2
  <2>5. QED
    BY <1>2, <2>1, <2>2, <2>3, <2>4 DEF AnchorsInv
<1>5. EntryInv
  <2>1. entry \in [path : Seq(Names), node : Nodes \cup {Nothing}, type : Types]
    BY <1>2 DEF NoEntry, Types
  <2>2. step \notin {"open-root", "open-directory"} \cup AtFile
    BY <1>2 DEF AtFile
  <2>3. QED
    BY <2>1, <2>2 DEF EntryInv
<1>6. ReadingInv
  BY <1>2 DEF ReadingInv, NotReading
<1>7. MembersInv
  <2>1. DOMAIN members = {} /\ Total = 0
    BY <1>2, NothingYet
  <2>2. IsFiniteSet(DOMAIN members) /\ Cardinality(DOMAIN members) = 0
    BY <2>1, FS_EmptySet
  <2>3. limits.files \in Nat /\ limits.total \in Nat /\ limits.entries \in Nat
    BY <1>2 DEF Limits
  <2>4. QED
    BY <1>2, <2>1, <2>2, <2>3 DEF MembersInv
<1>8. IsInfos(archive)
  BY <1>2 DEF IsInfos, Range
<1>9. QED
  BY <1>3, <1>4, <1>5, <1>6, <1>7, <1>8 DEF WalkInv

LEMMA OneMore ==
  ASSUME NEW S, NEW s \in Seq(S), NEW x \in S
  PROVE  /\ Append(s, x) \in Seq(S) /\ Len(Append(s, x)) = Len(s) + 1 /\ Len(s) \in Nat
         /\ Append(s, x)[Len(s) + 1] = x /\ \A k \in 1 .. Len(s) : Append(s, x)[k] = s[k]
BY AppendProperties, LenProperties

\* What a step of the walk leaves alone of the file system.
LEMMA FilesStay == FilesInv /\ UNCHANGED fileVars => FilesInv'
BY DEF FilesInv, fileVars, FilesKnown

LEMMA RefuseInv ==
  ASSUME WalkInv, Refuse, UNCHANGED fileVars, UNCHANGED archive
  PROVE  WalkInv'
<1> USE DEF fileVars
<1>1. FilesInv' /\ IsInfos(archive)'
  BY FilesStay DEF WalkInv
<1>2. /\ step' = "refused" /\ anchors' = <<>> /\ reading' = NotReading /\ entry' = NoEntry
      /\ UNCHANGED <<entries, members>>
  BY DEF Refuse
<1>3. /\ step' \in Steps
      /\ step' \notin Within /\ step' \notin Outside
      /\ step' \notin {"open-root", "open-directory"} \cup AtFile /\ step' \notin {"read", "check"}
  BY <1>2 DEF Steps, Within, Outside, AtFile
<1>4. AnchorsInv'
  <2>1. limits'.depth \in Nat
    BY <1>1 DEF FilesInv, Limits
  <2>2. anchors' \in Seq(OpenDirectories) /\ Len(anchors') = 0 /\ 0 <= limits'.depth + 1
    BY <1>2, <2>1
  <2>3. \A k \in 1 .. Len(anchors') : FALSE
    BY <2>2
  <2>4. QED
    BY <1>3, <2>2, <2>3 DEF AnchorsInv
<1>5. EntryInv'
  <2>1. entry' \in [path : Seq(Names), node : Nodes \cup {Nothing}, type : Types]
    BY <1>2 DEF NoEntry, Types
  <2>2. QED
    BY <1>3, <2>1 DEF EntryInv
<1>6. ReadingInv'
  BY <1>2, <1>3 DEF ReadingInv, NotReading
<1>7. MembersInv'
  <2>1. Total' = Total
    BY <1>2, SameBudget
  <2>2. QED
    BY <1>2, <1>3, <2>1 DEF MembersInv, WalkInv
<1>8. QED
  BY <1>1, <1>4, <1>5, <1>6, <1>7 DEF WalkInv

\* A step that changes nothing but what comes next.
LEMMA OnlyStep ==
  ASSUME WalkInv, UNCHANGED <<limits, disturbed, tree, trees, anchors, entry, reading, entries, members>>,
         IsInfos(archive'),
         \/ step = "start" /\ step' \in {"root", "archive", "refused"}
         \/ step = "archive" /\ step' \in {"inspect-archive", "refused"}
         \/ step = "inspect-archive" /\ step' = "refused"
         \/ step' = step
  PROVE  WalkInv'
<1>1. FilesInv'
  BY FilesStay DEF WalkInv, fileVars
<1>2. /\ step' \in Steps
      /\ step' \in Within => step \in Within
      /\ step' \in Outside => step \in Outside
      /\ step' \in {"open-root", "open-directory"} => step \in {"open-root", "open-directory"}
      /\ step' \in AtFile => step \in AtFile
      /\ step' \in {"read", "check"} => step \in {"read", "check"}
  BY DEF WalkInv, AnchorsInv, Steps, Outside, Within, AtFile
<1>3. AnchorsInv'
  BY <1>2 DEF WalkInv, AnchorsInv
<1>4. EntryInv'
  BY <1>2 DEF WalkInv, EntryInv
<1>5. Budget' = Budget /\ Total' = Total
  BY SameBudget
<1>6. ReadingInv'
  BY <1>2, <1>5 DEF WalkInv, ReadingInv
<1>7. MembersInv'
  BY <1>2, <1>5 DEF WalkInv, MembersInv
<1>8. QED
  BY <1>1, <1>3, <1>4, <1>6, <1>7 DEF WalkInv

LEMMA InspectRootInv ==
  ASSUME WalkInv, InspectRoot, UNCHANGED fileVars, UNCHANGED archive
  PROVE  WalkInv'
<1>1. CASE Refuse
  BY <1>1, RefuseInv
<1>2. CASE ~Refuse
  <2>1. /\ step = "root" /\ step' = "open-root" /\ tree.root # Nothing
        /\ entry' = [path |-> <<>>, node |-> tree.root, type |-> TypeOf(tree.root)]
        /\ UNCHANGED <<anchors, reading, entries, members, limits, disturbed, tree, trees, archive>>
    BY <1>2 DEF InspectRoot, TypeOf, fileVars
  <2>2. FilesInv' /\ IsInfos(archive)'
    BY <2>1, FilesStay DEF WalkInv, fileVars
  <2>3. /\ step' \in Steps /\ step' \notin Within /\ step' \in Outside /\ step \in Outside /\ step' \notin AtFile
    BY <2>1 DEF Steps, Within, Outside, AtFile
  <2>4. AnchorsInv'
    BY <2>1, <2>3 DEF WalkInv, AnchorsInv
  <2>5. tree.root \in Nodes /\ TypeOf(tree.root) \in Types
    BY <2>1 DEF WalkInv, FilesInv, IsTree, TypeOf
  <2>6. LedTo(trees, <<>>, tree.root)
    <3>1. PICK c : Chain(trees, <<>>, c) /\ c[0] = [node |-> tree.root, at |-> Len(trees)]
      BY <2>1, ChainBegins DEF WalkInv, FilesInv
    <3>2. Len(<<>>) = 0
      OBVIOUS
    <3>3. QED
      BY <3>1, <3>2 DEF LedTo
  <2>7. EntryInv'
    <3>1. Len(anchors) = 0 /\ limits.depth \in Nat /\ 0 <= limits.depth
      <4>1. anchors = <<>> /\ limits \in Limits
        BY <2>3 DEF WalkInv, AnchorsInv, FilesInv
      <4>2. limits.depth \in Nat
        BY <4>1 DEF Limits
      <4>3. QED
        BY <4>1, <4>2
    <3>2. entry' \in [path : Seq(Names), node : Nodes \cup {Nothing}, type : Types]
      <4>1. <<>> \in Seq(Names)
        OBVIOUS
      <4>2. QED
        BY <2>1, <2>5, <4>1, Zenon
    <3>3. entry'.path = <<>> /\ entry'.node = tree.root /\ Len(entry'.path) = Len(anchors') /\ Len(anchors') <= limits'.depth
      <4>1. entry'.path = <<>> /\ entry'.node = tree.root
        BY <2>1
      <4>2. Len(entry'.path) = 0
        BY <4>1
      <4>3. QED
        BY <2>1, <3>1, <4>1, <4>2
    <3>4. QED
      BY <2>1, <2>3, <2>5, <2>6, <3>2, <3>3 DEF EntryInv
  <2>8. ReadingInv'
    BY <2>1 DEF WalkInv, ReadingInv
  <2>9. MembersInv'
    BY <2>1, <2>3, SameBudget DEF WalkInv, MembersInv
  <2>10. QED
    BY <2>2, <2>4, <2>7, <2>8, <2>9 DEF WalkInv
<1>3. QED
  BY <1>1, <1>2

LEMMA OpenedInv ==
  ASSUME WalkInv, step \in {"open-root", "open-directory"}, NEW n, n = entry.node, TypeOf(n) = "dir",
         step' = "scan", anchors' = Append(anchors, [node |-> n, path |-> entry.path, left |-> {}]),
         UNCHANGED <<entry, reading, entries, members, limits, disturbed, tree, trees, archive>>
  PROVE  WalkInv'
<1>2. FilesInv' /\ IsInfos(archive)'
  BY FilesStay DEF WalkInv, fileVars
<1>3. /\ step' \in Steps /\ step' \in Within /\ step' \notin Outside
      /\ step' \notin {"open-root", "open-directory"} \cup AtFile /\ step' \notin {"read", "check"}
  BY DEF Steps, Within, Outside, AtFile
<1> DEFINE a == [node |-> n, path |-> entry.path, left |-> {}]
<1>4. /\ entry.node \in Nodes /\ Len(entry.path) = Len(anchors) /\ Len(anchors) <= limits.depth
      /\ LedTo(trees, entry.path, entry.node) /\ entry.path \in Seq(Names)
  BY DEF WalkInv, EntryInv
<1>5. a \in OpenDirectories /\ tree.type[a.node] = "dir" /\ a.path = entry.path /\ a.node = n
  <2>1. n # Nothing
    BY <1>4, WalkAssumption
  <2>2. QED
    BY <1>4, <2>1 DEF OpenDirectories, TypeOf
<1> HIDE DEF a
<1>6. anchors \in Seq(OpenDirectories) /\ Len(anchors) \in Nat
  <2>1. anchors \in Seq(OpenDirectories)
    BY DEF WalkInv, AnchorsInv
  <2>2. QED
    BY <2>1, LenProperties
<1>7. /\ anchors' \in Seq(OpenDirectories) /\ Len(anchors') = Len(anchors) + 1
      /\ anchors'[Len(anchors) + 1] = a /\ \A k \in 1 .. Len(anchors) : anchors'[k] = anchors[k]
  <2>1. anchors' = Append(anchors, a)
    BY DEF a
  <2>2. QED
    BY <1>5, <1>6, <2>1, OneMore
<1>8. AnchorsInv'
  <2>1. limits.depth \in Nat
    BY DEF WalkInv, FilesInv, Limits
  <2>2. Len(anchors') <= limits'.depth + 1 /\ Len(anchors') > 0
    <3>1. limits' = limits /\ Len(anchors) <= limits.depth /\ Len(anchors) \in Nat /\ Len(anchors') = Len(anchors) + 1
      BY <1>4, <1>6, <1>7
    <3>2. QED
      BY <2>1, <3>1
  <2>3. ASSUME NEW k \in 1 .. Len(anchors')
        PROVE  /\ tree'.type[anchors'[k].node] = "dir" /\ Len(anchors'[k].path) = k - 1
               /\ LedTo(trees', anchors'[k].path, anchors'[k].node)
    <3>1. CASE k \in 1 .. Len(anchors)
      BY <1>7, <3>1 DEF WalkInv, AnchorsInv
    <3>2. CASE k = Len(anchors) + 1
      BY <1>4, <1>5, <1>6, <1>7, <3>2
    <3>3. QED
      BY <1>6, <1>7, <3>1, <3>2
  <2>4. QED
    BY <1>3, <1>7, <2>2, <2>3 DEF AnchorsInv
<1>9. EntryInv'
  BY <1>3 DEF WalkInv, EntryInv
<1>10. ReadingInv'
  BY <1>3 DEF WalkInv, ReadingInv
<1>11. MembersInv'
  <2>1. entries > 0 \/ step \in Within \/ members = <<>>
    BY DEF WalkInv, MembersInv, Outside, Within
  <2>2. \A p \in DOMAIN members : Len(p) <= limits.depth + 1 /\ WasFile(trees, p, members[p])
    BY <2>1, NothingYet DEF WalkInv, MembersInv
  <2>3. QED
    BY <1>3, <2>2, SameBudget DEF WalkInv, MembersInv
<1>12. QED
  BY <1>2, <1>8, <1>9, <1>10, <1>11 DEF WalkInv

LEMMA OpenDirectoryInv ==
  ASSUME WalkInv, OpenRoot \/ OpenChild, UNCHANGED fileVars, UNCHANGED archive
  PROVE  WalkInv'
<1>1. CASE Refuse
  BY <1>1, RefuseInv
<1>2. CASE ~Refuse
  <2>1. PICK n :
          /\ step \in {"open-root", "open-directory"} /\ n = entry.node /\ TypeOf(n) = "dir"
          /\ step' = "scan" /\ anchors' = Append(anchors, [node |-> n, path |-> entry.path, left |-> {}])
          /\ UNCHANGED <<entry, reading, entries, members, limits, disturbed, tree, trees, archive>>
    BY <1>2 DEF OpenRoot, OpenChild, OpenDirectory, Same, fileVars
  <2>2. QED
    BY <2>1, OpenedInv
<1>3. QED
  BY <1>1, <1>2

\* The open directory's names change.
LEMMA LeftChanges ==
  ASSUME AnchorsInv, Len(anchors) > 0, NEW left \in SUBSET Names,
         anchors' = [anchors EXCEPT ![Len(anchors)].left = left]
  PROVE  /\ anchors' \in Seq(OpenDirectories) /\ Len(anchors') = Len(anchors) /\ Len(anchors) \in Nat
         /\ \A k \in 1 .. Len(anchors) : anchors'[k].node = anchors[k].node /\ anchors'[k].path = anchors[k].path
<1>1. anchors \in Seq(OpenDirectories)
  BY DEF AnchorsInv
<1>2. Len(anchors) \in Nat /\ anchors \in [1 .. Len(anchors) -> OpenDirectories]
  BY <1>1, LenProperties
<1>3. PICK b : b = [anchors[Len(anchors)] EXCEPT !.left = left]
  OBVIOUS
<1>4. anchors[Len(anchors)] \in OpenDirectories
  BY <1>2
<1>5. /\ b \in OpenDirectories
      /\ b.node = anchors[Len(anchors)].node /\ b.path = anchors[Len(anchors)].path
  BY <1>3, <1>4 DEF OpenDirectories
<1>6. anchors' = [anchors EXCEPT ![Len(anchors)] = b]
  BY <1>3
<1>7. anchors' \in [1 .. Len(anchors) -> OpenDirectories]
  BY <1>2, <1>5, <1>6
<1>8. anchors' \in Seq(OpenDirectories) /\ Len(anchors') = Len(anchors)
  BY <1>2, <1>7, SeqDef, LenProperties
<1>9. ASSUME NEW k \in 1 .. Len(anchors)
      PROVE  anchors'[k].node = anchors[k].node /\ anchors'[k].path = anchors[k].path
  BY <1>2, <1>5, <1>6
<1>10. QED
  BY <1>2, <1>8, <1>9

LEMMA TopAnchor ==
  ASSUME WalkInv, Len(anchors) > 0
  PROVE  /\ Anchor = anchors[Len(anchors)] /\ Anchor.node \in Nodes /\ Anchor.path \in Seq(Names)
         /\ Anchor.left \subseteq Names /\ tree.type[Anchor.node] = "dir"
         /\ Len(Anchor.path) = Len(anchors) - 1 /\ LedTo(trees, Anchor.path, Anchor.node)
         /\ Len(anchors) \in Nat
<1>1. anchors \in Seq(OpenDirectories)
  BY DEF WalkInv, AnchorsInv
<1>2. Len(anchors) \in Nat /\ anchors \in [1 .. Len(anchors) -> OpenDirectories]
  BY <1>1, LenProperties
<1>3. Len(anchors) \in 1 .. Len(anchors)
  BY <1>2
<1>4. Anchor = anchors[Len(anchors)]
  BY DEF Anchor, Last
<1>5. anchors[Len(anchors)] \in OpenDirectories
  BY <1>2, <1>3
<1>6. /\ tree.type[anchors[Len(anchors)].node] = "dir" /\ Len(anchors[Len(anchors)].path) = Len(anchors) - 1
      /\ LedTo(trees, anchors[Len(anchors)].path, anchors[Len(anchors)].node)
  BY <1>3 DEF WalkInv, AnchorsInv
<1>7. QED
  BY <1>2, <1>4, <1>5, <1>6 DEF OpenDirectories

LEMMA ScanInv ==
  ASSUME WalkInv, Scan, UNCHANGED fileVars, UNCHANGED archive
  PROVE  WalkInv'
<1>1. /\ step = "scan" /\ step' = "next" /\ entry' = NoEntry
      /\ anchors' = [anchors EXCEPT ![Len(anchors)].left = DOMAIN tree.entry[Anchor.node]]
      /\ UNCHANGED <<reading, entries, members, limits, disturbed, tree, trees, archive>>
  BY DEF Scan, fileVars
<1>2. FilesInv' /\ IsInfos(archive)'
  BY <1>1, FilesStay DEF WalkInv, fileVars
<1>3. /\ step' \in Steps /\ step' \in Within /\ step \in Within /\ step' \notin Outside
      /\ step' \notin {"open-root", "open-directory"} \cup AtFile /\ step' \notin {"read", "check"}
  BY <1>1 DEF Steps, Within, Outside, AtFile
<1>4. Len(anchors) > 0
  BY <1>3 DEF WalkInv, AnchorsInv
<1>5. DOMAIN tree.entry[Anchor.node] \in SUBSET Names
  BY <1>4, TopAnchor DEF WalkInv, FilesInv, IsTree
<1>6. /\ anchors' \in Seq(OpenDirectories) /\ Len(anchors') = Len(anchors)
      /\ \A k \in 1 .. Len(anchors) : anchors'[k].node = anchors[k].node /\ anchors'[k].path = anchors[k].path
  BY <1>1, <1>4, <1>5, LeftChanges DEF WalkInv
<1>7. AnchorsInv'
  <2>1. /\ tree' = tree /\ trees' = trees /\ limits' = limits
    BY <1>1
  <2>2. QED
    BY <1>3, <1>4, <1>6, <2>1 DEF WalkInv, AnchorsInv
<1>8. EntryInv'
  <2>1. entry' \in [path : Seq(Names), node : Nodes \cup {Nothing}, type : Types]
    <3>1. <<>> \in Seq(Names) /\ "dir" \in Types
      BY DEF Types
    <3>2. QED
      BY <1>1, <3>1, Zenon DEF NoEntry
  <2>2. QED
    BY <1>3, <2>1 DEF EntryInv
<1>9. ReadingInv'
  BY <1>1, <1>3 DEF WalkInv, ReadingInv
<1>10. MembersInv'
  BY <1>1, <1>3, SameBudget DEF WalkInv, MembersInv
<1>11. QED
  BY <1>2, <1>7, <1>8, <1>9, <1>10 DEF WalkInv

\* What is found under a name is where the directory's way leads, one name on.
LEMMA FoundIsLed ==
  ASSUME WalkInv, Len(anchors) > 0, NEW name \in Names, Found(name) # Nothing
  PROVE  Found(name) \in Nodes /\ LedTo(trees, Append(Anchor.path, name), Found(name))
<1>1. name \in DOMAIN tree.entry[Anchor.node] /\ Found(name) = tree.entry[Anchor.node][name]
  BY DEF Found
<1>2. /\ Anchor.node \in Nodes /\ Anchor.path \in Seq(Names) /\ tree.type[Anchor.node] = "dir"
      /\ LedTo(trees, Anchor.path, Anchor.node)
  BY TopAnchor
<1>3. PICK c : Chain(trees, Anchor.path, c) /\ c[Len(Anchor.path)].node = Anchor.node
  BY <1>2 DEF LedTo
<1>4. trees \in Seq(Range(trees)) /\ Len(trees) > 0 /\ trees[Len(trees)] = tree
  BY DEF WalkInv, FilesInv
<1>5. PICK d : /\ Chain(trees, Append(Anchor.path, name), d)
               /\ d[Len(Anchor.path) + 1] = [node |-> tree.entry[Anchor.node][name], at |-> Len(trees)]
  <2>1. /\ trees[Len(trees)].type[c[Len(Anchor.path)].node] = "dir"
        /\ name \in DOMAIN trees[Len(trees)].entry[c[Len(Anchor.path)].node]
    BY <1>1, <1>2, <1>3, <1>4
  <2>2. \E d : /\ Chain(trees, Append(Anchor.path, name), d)
               /\ d[Len(Anchor.path) + 1] =
                    [node |-> trees[Len(trees)].entry[c[Len(Anchor.path)].node][name], at |-> Len(trees)]
    <3>1. PICK ts : ts = trees
      OBVIOUS
    <3>2. PICK path : path = Anchor.path
      OBVIOUS
    <3>3. /\ ts \in Seq(Range(ts)) /\ Len(ts) > 0 /\ path \in Seq(Names) /\ Chain(ts, path, c)
          /\ ts[Len(ts)].type[c[Len(path)].node] = "dir" /\ name \in DOMAIN ts[Len(ts)].entry[c[Len(path)].node]
      BY <1>2, <1>3, <1>4, <2>1, <3>1, <3>2
    <3>4. \E d : /\ Chain(ts, Append(path, name), d)
                 /\ d[Len(path) + 1] = [node |-> ts[Len(ts)].entry[c[Len(path)].node][name], at |-> Len(ts)]
      BY <3>3, ChainGrows
    <3>5. QED
      BY <3>1, <3>2, <3>4
  <2>3. QED
    BY <1>3, <1>4, <2>2
<1>6. Len(Append(Anchor.path, name)) = Len(Anchor.path) + 1
  BY <1>2, OneMore
<1>7. Found(name) \in Nodes
  BY <1>1, <1>2 DEF WalkInv, FilesInv, IsTree
<1>8. QED
  BY <1>1, <1>5, <1>6, <1>7 DEF LedTo

LEMMA InspectInv ==
  ASSUME WalkInv, Inspect, UNCHANGED fileVars, UNCHANGED archive
  PROVE  WalkInv'
<1>1. CASE Refuse
  BY <1>1, RefuseInv
<1>2. CASE ~Refuse
  <2>1. PICK name \in Anchor.left :
          /\ ~Inadmissible(name, Found(name))
          /\ anchors' = [anchors EXCEPT ![Len(anchors)].left = @ \ {name}]
          /\ entry' = [path |-> Append(Anchor.path, name), node |-> Found(name), type |-> TypeOf(Found(name))]
          /\ step' = IF TypeOf(Found(name)) = "dir" THEN "open-directory" ELSE "open-file"
    BY <1>2 DEF Inspect
  <2>2. /\ step = "next" /\ entries' = entries + 1
        /\ UNCHANGED <<reading, members, limits, disturbed, tree, trees, archive>>
    BY <1>2 DEF Inspect, fileVars
  <2>3. FilesInv' /\ IsInfos(archive)'
    BY <2>2, FilesStay DEF WalkInv, fileVars
  <2>4. /\ step' \in Steps /\ step' \in Within /\ step \in Within /\ step' \notin Outside
        /\ step' \notin {"read", "check"} /\ step' # "open-root"
    BY <2>1, <2>2 DEF Steps, Within, Outside
  <2>5. Len(anchors) > 0
    BY <2>4 DEF WalkInv, AnchorsInv
  <2>6. /\ Anchor = anchors[Len(anchors)] /\ Anchor.path \in Seq(Names) /\ Anchor.left \subseteq Names
        /\ Len(Anchor.path) = Len(anchors) - 1 /\ Len(anchors) \in Nat
    BY <2>5, TopAnchor
  <2>7. /\ anchors' \in Seq(OpenDirectories) /\ Len(anchors') = Len(anchors)
        /\ \A k \in 1 .. Len(anchors) : anchors'[k].node = anchors[k].node /\ anchors'[k].path = anchors[k].path
    <3>1. Anchor.left \ {name} \in SUBSET Names
      BY <2>6
    <3>2. anchors' = [anchors EXCEPT ![Len(anchors)].left = Anchor.left \ {name}]
      BY <2>1, <2>6
    <3>3. QED
      BY <2>5, <3>1, <3>2, LeftChanges DEF WalkInv
  <2>8. AnchorsInv'
    <3>1. /\ tree' = tree /\ trees' = trees /\ limits' = limits
      BY <2>2
    <3>2. QED
      BY <2>4, <2>5, <2>7, <3>1 DEF WalkInv, AnchorsInv
  <2>9. /\ entries < limits.entries /\ TypeOf(Found(name)) \notin {"none", "link", "special"}
        /\ (TypeOf(Found(name)) = "dir" => ~(Len(anchors) > limits.depth))
        /\ (TypeOf(Found(name)) = "file" => ~(Cardinality(DOMAIN members) >= limits.files))
    <3>1. entries \in Nat /\ limits.entries \in Nat
      BY DEF WalkInv, MembersInv, FilesInv, Limits
    <3>2. ~(entries >= limits.entries)
      BY <2>1 DEF Inadmissible
    <3>3. QED
      BY <2>1, <3>1, <3>2 DEF Inadmissible
  <2>10. Found(name) # Nothing /\ TypeOf(Found(name)) \in {"dir", "file"}
    <3>1. Found(name) # Nothing
      BY <2>9 DEF TypeOf
    <3>2. Found(name) \in Nodes /\ TypeOf(Found(name)) = tree.type[Found(name)]
      BY <2>5, <2>6, <3>1, FoundIsLed DEF TypeOf
    <3>3. TypeOf(Found(name)) \in Types
      BY <3>2 DEF WalkInv, FilesInv, IsTree
    <3>4. QED
      BY <2>9, <3>1, <3>3 DEF Types
  <2>11. EntryInv'
    <3>1. name \in Names
      BY <2>6
    <3>2. Append(Anchor.path, name) \in Seq(Names) /\ Len(Append(Anchor.path, name)) = Len(anchors)
      BY <2>6, <3>1, OneMore
    <3>3. Found(name) \in Nodes /\ LedTo(trees, Append(Anchor.path, name), Found(name))
      BY <2>5, <2>10, <3>1, FoundIsLed
    <3>4. /\ entry'.path = Append(Anchor.path, name) /\ entry'.node = Found(name)
          /\ entry' \in [path : Seq(Names), node : Nodes \cup {Nothing}, type : Types]
      BY <2>1, <2>10, <3>2, <3>3 DEF Types
    <3>5. limits.files \in Nat /\ limits.depth \in Nat /\ Cardinality(DOMAIN members) \in Nat
      BY FS_CardinalityType DEF WalkInv, MembersInv, FilesInv, Limits
    <3>6. step' \in {"open-root", "open-directory"} => Len(anchors') <= limits'.depth
      <4>1. step' \in {"open-root", "open-directory"} => ~(Len(anchors) > limits.depth)
        BY <2>1, <2>4, <2>9
      <4>2. Len(anchors') = Len(anchors) /\ limits' = limits
        BY <2>2, <2>7
      <4>3. QED
        BY <2>6, <3>5, <4>1, <4>2
    <3>7. step' \in AtFile => Cardinality(DOMAIN members') < limits'.files
      <4>1. step' \in AtFile => ~(Cardinality(DOMAIN members) >= limits.files)
        BY <2>1, <2>9, <2>10 DEF AtFile
      <4>2. members' = members /\ limits' = limits
        BY <2>2
      <4>3. QED
        BY <3>5, <4>1, <4>2
    <3>8. trees' = trees
      BY <2>2
    <3>9. QED
      BY <2>7, <3>2, <3>3, <3>4, <3>6, <3>7, <3>8 DEF EntryInv
  <2>12. ReadingInv'
    BY <2>2, <2>4 DEF WalkInv, ReadingInv
  <2>13. MembersInv'
    <3>1. entries' \in 0 .. limits'.entries
      <4>1. entries \in Nat /\ limits.entries \in Nat /\ limits' = limits
        BY <2>2 DEF WalkInv, MembersInv, FilesInv, Limits
      <4>2. QED
        BY <2>2, <2>9, <4>1
    <3>2. QED
      BY <2>2, <2>4, <3>1, SameBudget DEF WalkInv, MembersInv
  <2>14. QED
    BY <2>3, <2>8, <2>11, <2>12, <2>13 DEF WalkInv
<1>3. QED
  BY <1>1, <1>2

\* In the midst of the walk, a file is read that stays where and what it is.
LEMMA OpenFileInv ==
  ASSUME WalkInv, OpenFile, UNCHANGED fileVars, UNCHANGED archive
  PROVE  WalkInv'
<1>1. CASE Refuse
  BY <1>1, RefuseInv
<1>2. CASE ~Refuse
  <2>1. PICK n :
          /\ TypeOf(n) = "file" /\ n = entry.node
          /\ reading' = [node |-> n, size |-> Len(tree.data[n]),
                         mtime |-> tree.mtime[n], budget |-> Budget, blocks |-> <<>>]
    BY <1>2 DEF OpenFile, Same
  <2>2. /\ step = "open-file" /\ step' = "read"
        /\ UNCHANGED <<anchors, entry, entries, members, limits, disturbed, tree, trees, archive>>
    BY <1>2 DEF OpenFile, fileVars
  <2>3. FilesInv' /\ IsInfos(archive)'
    BY <2>2, FilesStay DEF WalkInv, fileVars
  <2>4. /\ step' \in Steps /\ step' \in Within /\ step \in Within /\ step' \notin Outside
        /\ step \in AtFile /\ step' \in AtFile /\ step' \notin {"open-root", "open-directory"}
    BY <2>2 DEF Steps, Within, Outside, AtFile
  <2>5. n \in Nodes /\ tree.type[n] = "file"
    <3>1. n \in Nodes
      BY <2>1, <2>4 DEF WalkInv, EntryInv
    <3>2. QED
      BY <2>1, <3>1, WalkAssumption DEF TypeOf
  <2>6. AnchorsInv'
    BY <2>2, <2>4 DEF WalkInv, AnchorsInv
  <2>7. EntryInv'
    BY <2>2, <2>4 DEF WalkInv, EntryInv
  <2>8. Budget' = Budget /\ Total' = Total /\ Budget \in Nat
    BY <2>2, SameBudget, BudgetType DEF WalkInv
  <2>9. ReadingInv'
    <3>1. Len(tree.data[n]) \in Nat /\ tree.mtime[n] \in Nat
      <4>1. IsBlocks(tree.data[n]) /\ tree.mtime[n] \in Nat
        BY <2>5 DEF WalkInv, FilesInv, IsTree
      <4>2. QED
        BY <4>1, LenProperties DEF IsBlocks
    <3>2. IsBlocks(<<>>) /\ Len(<<>>) = 0
      BY DEF IsBlocks, Range
    <3>3. /\ DOMAIN reading' = {"node", "size", "mtime", "budget", "blocks"}
          /\ reading'.node = n /\ reading'.size = Len(tree.data[n]) /\ reading'.mtime = tree.mtime[n]
          /\ reading'.budget = Budget /\ reading'.blocks = <<>>
      BY <2>1
    <3>4. /\ reading'.node \in Nodes \cup {Nothing}
          /\ {reading'.size, reading'.mtime, reading'.budget} \subseteq Nat
          /\ reading'.node = entry'.node /\ tree'.type[reading'.node] = "file"
          /\ reading'.budget = Budget' /\ IsBlocks(reading'.blocks)
      BY <2>1, <2>2, <2>5, <2>8, <3>1, <3>2, <3>3
    <3>5. /\ reading'.mtime <= tree'.mtime[reading'.node]
          /\ Len(reading'.blocks) <= Len(tree'.data[reading'.node])
          /\ \A i \in 1 .. Len(reading'.blocks) : FALSE
      <4>1. Len(reading'.blocks) = 0 /\ tree' = tree
        BY <2>2, <3>2, <3>3
      <4>2. QED
        BY <3>1, <3>3, <4>1
    <3>6. QED
      BY <3>3, <3>4, <3>5 DEF ReadingInv
  <2>10. MembersInv'
    BY <2>2, <2>4, <2>8 DEF WalkInv, MembersInv
  <2>11. QED
    BY <2>3, <2>6, <2>7, <2>9, <2>10 DEF WalkInv
<1>3. QED
  BY <1>1, <1>2

\* What reading leaves alone.
LEMMA WhileReading ==
  ASSUME WalkInv, step = "read", step' \in {"read", "check"},
         UNCHANGED <<anchors, entry, entries, members, limits, disturbed, tree, trees, archive>>, ReadingInv'
  PROVE  WalkInv'
<1>1. FilesInv' /\ IsInfos(archive)'
  BY FilesStay DEF WalkInv, fileVars
<1>2. /\ step' \in Steps /\ step' \in Within /\ step \in Within /\ step' \notin Outside
      /\ step \in AtFile /\ step' \notin {"open-root", "open-directory"}
  BY DEF Steps, Within, Outside, AtFile
<1>3. AnchorsInv'
  BY <1>2 DEF WalkInv, AnchorsInv
<1>4. EntryInv'
  BY <1>2 DEF WalkInv, EntryInv
<1>5. MembersInv'
  BY <1>2, SameBudget DEF WalkInv, MembersInv
<1>6. QED
  BY <1>1, <1>3, <1>4, <1>5 DEF WalkInv

LEMMA ReadBlockInv ==
  ASSUME WalkInv, ReadBlock, UNCHANGED fileVars, UNCHANGED archive
  PROVE  WalkInv'
<1> DEFINE k == Len(reading.blocks) + 1   data == tree.data[reading.node]
<1>1. /\ step = "read"
      /\ UNCHANGED <<anchors, entry, entries, members, limits, disturbed, tree, trees, archive>>
  BY DEF ReadBlock, fileVars
<1>2. Budget' = Budget
  BY <1>1, SameBudget
<1>3. CASE step' = "read"
  <2>1. /\ reading' = [reading EXCEPT !.blocks = Append(@, data[k])]
        /\ k <= Len(data)
    BY <1>3 DEF ReadBlock
  <2>2. /\ DOMAIN reading = {"node", "size", "mtime", "budget", "blocks"} /\ IsBlocks(reading.blocks)
        /\ reading.node = entry.node /\ reading.node \in Nodes
    BY <1>1 DEF WalkInv, ReadingInv, EntryInv, AtFile
  <2>3. /\ DOMAIN reading' = {"node", "size", "mtime", "budget", "blocks"}
        /\ reading'.node = reading.node /\ reading'.size = reading.size /\ reading'.mtime = reading.mtime
        /\ reading'.budget = reading.budget /\ reading'.blocks = Append(reading.blocks, data[k])
    BY <2>1, <2>2
  <2>4. /\ IsBlocks(reading'.blocks) /\ Len(reading'.blocks) = k /\ Len(reading.blocks) \in Nat
        /\ reading'.blocks[k] = data[k]
        /\ \A i \in 1 .. Len(reading.blocks) : reading'.blocks[i] = reading.blocks[i]
    BY <2>2, <2>3, OneMoreInSeq DEF IsBlocks
  <2>5. ReadingInv'
    <3>1. /\ reading'.node \in Nodes \cup {Nothing}
          /\ {reading'.size, reading'.mtime, reading'.budget} \subseteq Nat
          /\ reading'.node = entry'.node /\ tree'.type[reading'.node] = "file"
          /\ reading'.budget = Budget' /\ reading'.mtime <= tree'.mtime[reading'.node]
      BY <1>1, <1>2, <2>3 DEF WalkInv, ReadingInv
    <3>2. ASSUME reading'.mtime = tree'.mtime[reading'.node]
          PROVE  /\ Len(reading'.blocks) <= Len(tree'.data[reading'.node])
                 /\ \A i \in 1 .. Len(reading'.blocks) : reading'.blocks[i] = tree'.data[reading'.node][i]
      <4>1. \A i \in 1 .. Len(reading.blocks) : reading.blocks[i] = data[i]
        BY <1>1, <2>3, <3>2 DEF WalkInv, ReadingInv
      <4>2. Len(reading'.blocks) <= Len(tree'.data[reading'.node])
        BY <1>1, <2>1, <2>3, <2>4
      <4>3. ASSUME NEW i \in 1 .. Len(reading'.blocks) PROVE reading'.blocks[i] = data[i]
        <5>1. i \in 1 .. Len(reading.blocks) \/ i = k
          BY <2>4
        <5>2. QED
          BY <2>4, <4>1, <5>1
      <4>4. QED
        BY <1>1, <2>3, <4>2, <4>3
    <3>3. QED
      BY <2>3, <2>4, <3>1, <3>2 DEF ReadingInv
  <2>6. QED
    BY <1>1, <1>3, <2>5, WhileReading
<1>4. CASE step' # "read"
  <2>1. step' = "check" /\ UNCHANGED reading
    BY <1>4 DEF ReadBlock
  <2>2. ReadingInv'
    BY <1>1, <1>2, <2>1 DEF WalkInv, ReadingInv
  <2>3. QED
    BY <1>1, <2>1, <2>2, WhileReading
<1>5. QED
  BY <1>3, <1>4

\* Two files of the same blocks, one by one, are the same file.
LEMMA SameBlocks ==
  ASSUME NEW b, NEW d, IsBlocks(b), IsBlocks(d), Len(b) = Len(d), \A i \in 1 .. Len(b) : b[i] = d[i]
  PROVE  b = d
BY SeqEqual, LenProperties DEF IsBlocks

LEMMA AcceptedInv ==
  ASSUME WalkInv, step = "check", UnchangedSince(reading), step' = "next",
         members' = [p \in DOMAIN members \cup {entry.path} |->
                       IF p = entry.path THEN reading.blocks ELSE members[p]],
         reading' = NotReading, entry' = NoEntry,
         UNCHANGED <<anchors, entries, limits, disturbed, tree, trees, archive>>
  PROVE  WalkInv'
<1>1. FilesInv' /\ IsInfos(archive)'
  BY FilesStay DEF WalkInv, fileVars
<1>2. /\ step' \in Steps /\ step' \in Within /\ step \in Within /\ step' \notin Outside
      /\ step \in AtFile /\ step' \notin {"open-root", "open-directory"} \cup AtFile
      /\ step' \notin {"read", "check"}
  BY DEF Steps, Within, Outside, AtFile
<1>3. AnchorsInv'
  BY <1>2 DEF WalkInv, AnchorsInv
<1>4. EntryInv'
  <2>1. entry' \in [path : Seq(Names), node : Nodes \cup {Nothing}, type : Types]
    <3>1. <<>> \in Seq(Names) /\ "dir" \in Types
      BY DEF Types
    <3>2. QED
      BY <3>1, Zenon DEF NoEntry
  <2>2. QED
    BY <1>2, <2>1 DEF EntryInv
<1>5. ReadingInv'
  BY <1>2 DEF ReadingInv, NotReading
<1>6. /\ reading.node = entry.node /\ entry.node \in Nodes /\ entry.path \in Seq(Names)
      /\ tree.type[entry.node] = "file" /\ LedTo(trees, entry.path, entry.node)
      /\ Len(entry.path) = Len(anchors) /\ Len(anchors) <= limits.depth + 1
      /\ Cardinality(DOMAIN members) < limits.files
      /\ IsBlocks(reading.blocks) /\ reading.budget = Budget
  <2>1. entry.node \in Nodes /\ entry.path \in Seq(Names) /\ LedTo(trees, entry.path, entry.node)
        /\ Len(entry.path) = Len(anchors) /\ Cardinality(DOMAIN members) < limits.files
    BY <1>2 DEF WalkInv, EntryInv
  <2>2. /\ reading.node = entry.node /\ tree.type[reading.node] = "file"
        /\ IsBlocks(reading.blocks) /\ reading.budget = Budget
    BY DEF WalkInv, ReadingInv
  <2>3. Len(anchors) <= limits.depth + 1
    BY DEF WalkInv, AnchorsInv
  <2>4. QED
    BY <2>1, <2>2, <2>3
<1>7. reading.blocks = tree.data[entry.node] /\ Len(reading.blocks) <= Budget /\ Len(reading.blocks) \in Nat
  <2>1. /\ Len(reading.blocks) <= reading.budget /\ reading.mtime = tree.mtime[reading.node]
        /\ Len(reading.blocks) = Len(tree.data[reading.node])
    BY DEF UnchangedSince
  <2>2. \A i \in 1 .. Len(reading.blocks) : reading.blocks[i] = tree.data[reading.node][i]
    BY <2>1 DEF WalkInv, ReadingInv
  <2>3. IsBlocks(tree.data[entry.node])
    BY <1>6 DEF WalkInv, FilesInv, IsTree
  <2>4. reading.blocks = tree.data[entry.node]
    BY <1>6, <2>1, <2>2, <2>3, SameBlocks
  <2>5. Len(reading.blocks) \in Nat
    BY <1>6, LenProperties DEF IsBlocks
  <2>6. QED
    BY <1>6, <2>1, <2>4, <2>5
<1>8. WasFile(trees, entry.path, reading.blocks)
  <2>1. PICK c : Chain(trees, entry.path, c) /\ c[Len(entry.path)].node = entry.node
    BY <1>6 DEF LedTo
  <2>2. Len(entry.path) \in 0 .. Len(entry.path)
    BY <1>6, LenProperties
  <2>3. DOMAIN trees = 1 .. Len(trees) /\ Len(trees) \in Nat /\ Len(trees) > 0 /\ trees[Len(trees)] = tree
    <3>1. trees \in Seq(Range(trees)) /\ Len(trees) > 0 /\ trees[Len(trees)] = tree
      BY DEF WalkInv, FilesInv
    <3>2. QED
      BY <3>1, OneMoreInSeq
  <2>4. c[Len(entry.path)].at \in 1 .. Len(trees)
    BY <2>1, <2>2, <2>3 DEF Chain
  <2>5. Len(trees) \in DOMAIN trees /\ Len(trees) >= c[Len(entry.path)].at
    BY <2>3, <2>4
  <2>6. QED
    BY <1>6, <1>7, <2>1, <2>3, <2>5 DEF WasFile
<1>9. /\ DOMAIN members' = DOMAIN members \cup {entry.path} /\ members'[entry.path] = reading.blocks
      /\ \A p \in DOMAIN members \ {entry.path} : members'[p] = members[p]
  OBVIOUS
<1>10. IsFiniteSet(DOMAIN members) /\ \A p \in DOMAIN members : Len(members[p]) \in Nat
  <2>1. IsFiniteSet(DOMAIN members) /\ \A p \in DOMAIN members : IsBlocks(members[p])
    BY DEF WalkInv, MembersInv
  <2>2. QED
    BY <2>1, LenProperties DEF IsBlocks
<1>11. /\ IsFiniteSet(DOMAIN members') /\ Cardinality(DOMAIN members') <= limits'.files
  <2>1. Cardinality(DOMAIN members \cup {entry.path}) <= Cardinality(DOMAIN members) + 1
    <3>1. Cardinality(DOMAIN members) \in Nat
      BY <1>10, FS_CardinalityType
    <3>2. Cardinality(DOMAIN members \cup {entry.path}) \in {Cardinality(DOMAIN members), Cardinality(DOMAIN members) + 1}
      BY <1>10, FS_AddElement
    <3>3. QED
      BY <3>1, <3>2
  <2>2. Cardinality(DOMAIN members) \in Nat /\ Cardinality(DOMAIN members \cup {entry.path}) \in Nat
        /\ IsFiniteSet(DOMAIN members \cup {entry.path})
    BY <1>10, FS_AddElement, FS_CardinalityType
  <2>3. limits.files \in Nat /\ limits' = limits
    BY DEF WalkInv, FilesInv, Limits
  <2>4. QED
    BY <1>6, <1>9, <2>1, <2>2, <2>3
<1>12. Total' \in Nat /\ Total' <= limits'.total
  <2>1. Total = SumOf(members, DOMAIN members)
    BY NothingYet
  <2>2. Total' = SumOf(members', DOMAIN members')
    BY Zenon DEF Total, SumOf, MapThenSumSet, MapThenFoldSet
  <2>3. PICK m2 : m2 = members'
    OBVIOUS
  <2>4. /\ Len(m2[entry.path]) \in Nat /\ \A q \in DOMAIN members \ {entry.path} : m2[q] = members[q]
    BY <1>7, <1>9, <2>3
  <2>5. /\ SumOf(m2, DOMAIN members \cup {entry.path}) \in Nat
        /\ SumOf(m2, DOMAIN members \cup {entry.path}) <= SumOf(members, DOMAIN members) + Len(m2[entry.path])
    BY <1>10, <2>4, SumMore
  <2>6. Total' \in Nat /\ Total' <= Total + Len(reading.blocks)
    BY <1>9, <2>1, <2>2, <2>3, <2>5
  <2>7. /\ Budget \in Nat /\ Budget + Total <= limits.total /\ Total \in Nat /\ limits.total \in Nat
        /\ limits' = limits
    BY BudgetType DEF WalkInv, MembersInv, FilesInv, Limits
  <2>8. QED
    BY <1>7, <2>6, <2>7
<1>13. ASSUME NEW p \in DOMAIN members'
       PROVE  /\ p \in Seq(Names) /\ IsBlocks(members'[p]) /\ Len(members'[p]) <= limits'.fileSize
              /\ Len(p) <= limits'.depth + 1 /\ WasFile(trees', p, members'[p])
  <2>1. CASE p = entry.path
    <3>1. Budget <= limits.fileSize /\ Budget \in Nat /\ limits.fileSize \in Nat
      BY BudgetType DEF WalkInv, FilesInv, Limits
    <3>2. members'[p] = reading.blocks /\ limits' = limits /\ trees' = trees
      BY <1>9, <2>1
    <3>3. Len(members'[p]) <= limits'.fileSize
      BY <1>7, <3>1, <3>2
    <3>4. Len(p) <= limits'.depth + 1
      BY <1>6, <2>1, <3>2
    <3>5. QED
      BY <1>6, <1>8, <2>1, <3>2, <3>3, <3>4
  <2>2. CASE p # entry.path
    <3>1. p \in DOMAIN members \ {entry.path} /\ members'[p] = members[p] /\ limits' = limits /\ trees' = trees
      BY <1>9, <2>2
    <3>2. QED
      BY <1>2, <3>1 DEF WalkInv, MembersInv
  <2>3. QED
    BY <2>1, <2>2
<1>14. MembersInv'
  <2>1. entries' \in 0 .. limits'.entries
    BY DEF WalkInv, MembersInv
  <2>2. QED
    BY <1>2, <1>11, <1>12, <1>13, <2>1 DEF MembersInv
<1>15. QED
  BY <1>1, <1>3, <1>4, <1>5, <1>14 DEF WalkInv

LEMMA AcceptInv ==
  ASSUME WalkInv, Accept, UNCHANGED fileVars, UNCHANGED archive
  PROVE  WalkInv'
<1>1. CASE Refuse
  BY <1>1, RefuseInv
<1>2. CASE ~Refuse
  <2>1. /\ step = "check" /\ UnchangedSince(reading) /\ step' = "next"
        /\ members' = [p \in DOMAIN members \cup {entry.path} |->
                         IF p = entry.path THEN reading.blocks ELSE members[p]]
        /\ reading' = NotReading /\ entry' = NoEntry
        /\ UNCHANGED <<anchors, entries, limits, disturbed, tree, trees, archive>>
    BY <1>2 DEF Accept, fileVars
  <2>2. QED
    BY <2>1, AcceptedInv
<1>3. QED
  BY <1>1, <1>2

LEMMA LeaveInv ==
  ASSUME WalkInv, Leave, UNCHANGED fileVars, UNCHANGED archive
  PROVE  WalkInv'
<1>1. /\ step = "next" /\ anchors' = Front(anchors)
      /\ step' = IF Len(anchors) = 1 THEN "loaded" ELSE "next"
      /\ UNCHANGED <<entry, reading, entries, members, limits, disturbed, tree, trees, archive>>
  BY DEF Leave, fileVars
<1>2. FilesInv' /\ IsInfos(archive)'
  BY <1>1, FilesStay DEF WalkInv, fileVars
<1>3. /\ step' \in Steps /\ step \in Within /\ step' \notin Outside
      /\ step' \notin {"open-root", "open-directory"} \cup AtFile
      /\ step' \notin {"read", "check"} /\ (step' \in Within => Len(anchors) # 1)
  BY <1>1 DEF Steps, Within, Outside, AtFile
<1>4. Len(anchors) > 0 /\ Len(anchors) <= limits.depth + 1 /\ anchors \in Seq(OpenDirectories)
  BY <1>3 DEF WalkInv, AnchorsInv
<1>5. Len(anchors) \in Nat
  BY <1>4, LenProperties
<1>6. /\ anchors' \in Seq(OpenDirectories) /\ Len(anchors') = Len(anchors) - 1
      /\ \A k \in 1 .. Len(anchors) - 1 : anchors'[k] = anchors[k]
  <2>1. anchors' = SubSeq(anchors, 1, Len(anchors) - 1)
    BY <1>1 DEF Front
  <2>2. QED
    <3>1. PICK n : n = Len(anchors) - 1
      OBVIOUS
    <3>2. n \in Nat /\ \A k \in 1 .. n : anchors[k] \in OpenDirectories
      BY <1>4, <1>5, <3>1
    <3>3. /\ anchors' \in Seq(OpenDirectories) /\ Len(anchors') = IF 1 <= n THEN n - 1 + 1 ELSE 0
          /\ \A k \in 1 .. n - 1 + 1 : anchors'[k] = anchors[1 + k - 1]
      BY <2>1, <3>1, <3>2, SubSeqProperties
    <3>4. Len(anchors') = n
      BY <3>2, <3>3
    <3>5. \A k \in 1 .. n : anchors'[k] = anchors[k]
      BY <3>2, <3>3
    <3>6. QED
      BY <3>1, <3>3, <3>4, <3>5
<1>7. AnchorsInv'
  <2>1. limits.depth \in Nat /\ limits' = limits /\ tree' = tree /\ trees' = trees
    BY <1>1 DEF WalkInv, FilesInv, Limits
  <2>2. Len(anchors') <= limits'.depth + 1 /\ (step' \in Within => Len(anchors') > 0)
    BY <1>3, <1>4, <1>5, <1>6, <2>1
  <2>3. ASSUME NEW k \in 1 .. Len(anchors') PROVE k \in 1 .. Len(anchors) /\ anchors'[k] = anchors[k]
    BY <1>5, <1>6
  <2>4. QED
    BY <1>3, <1>6, <2>1, <2>2, <2>3 DEF WalkInv, AnchorsInv
<1>8. EntryInv'
  BY <1>1, <1>3 DEF WalkInv, EntryInv
<1>9. ReadingInv'
  BY <1>1, <1>3 DEF WalkInv, ReadingInv
<1>10. MembersInv'
  BY <1>1, <1>3, SameBudget DEF WalkInv, MembersInv
<1>11. QED
  BY <1>2, <1>7, <1>8, <1>9, <1>10 DEF WalkInv

LEMMA WalkStepInv ==
  ASSUME WalkInv, WalkStep, UNCHANGED archive
  PROVE  WalkInv'
<1>1. UNCHANGED fileVars
  BY DEF WalkStep
<1>2. CASE RecogniseDirectory
  <2>1. step = "start" /\ step' = "root" /\ IsInfos(archive')
        /\ UNCHANGED <<limits, disturbed, tree, trees, anchors, entry, reading, entries, members>>
    BY <1>1, <1>2 DEF RecogniseDirectory, fileVars, WalkInv
  <2>2. QED
    BY <2>1, OnlyStep
<1>3. QED
  BY <1>1, <1>2, InspectRootInv, OpenDirectoryInv, ScanInv, InspectInv, OpenFileInv, ReadBlockInv,
     AcceptInv, LeaveInv DEF WalkStep

-----------------------------------------------------------------------------
(* Archives.                                                               *)

\* The sizes of the files among the first k members, summed up.
Adding(infos, R) ==
  R = [i \in 0 .. Len(infos) |->
         IF i = 0 THEN 0 ELSE R[i - 1] + (IF IsFileInfo(infos[i]) THEN Len(infos[i].data) ELSE 0)]

LEMMA AddingExists ==
  ASSUME NEW infos, Len(infos) \in Nat
  PROVE  \E R : Adding(infos, R)
<1> DEFINE Size(i) == IF IsFileInfo(infos[i]) THEN Len(infos[i].data) ELSE 0
           Value(R, k) == IF k = 0 THEN 0 ELSE R[k - 1] + Size(k)
           P == {n \in Nat : \E R : R = [k \in 0 .. n |-> Value(R, k)]}
<1> HIDE DEF Size
<1>1. 0 \in P
  <2> DEFINE R == [k \in 0 .. 0 |-> 0]
  <2>1. R = [k \in 0 .. 0 |-> Value(R, k)]
    OBVIOUS
  <2> HIDE DEF R
  <2>2. QED
    BY <2>1
<1>2. ASSUME NEW n \in Nat, n \in P PROVE n + 1 \in P
  <2>1. PICK f : f = [k \in 0 .. n |-> Value(f, k)]
    BY <1>2
  <2> DEFINE g == [k \in 0 .. n + 1 |-> IF k <= n THEN f[k] ELSE Value(f, k)]
  <2>2. ASSUME NEW k \in 0 .. n + 1 PROVE g[k] = Value(g, k)
    <3>1. k # 0 => g[k - 1] = f[k - 1]
      OBVIOUS
    <3>2. Value(g, k) = Value(f, k)
      BY <3>1
    <3>3. k <= n => f[k] = Value(f, k)
      <4> HIDE DEF Value
      <4>1. QED
        BY <2>1
    <3>4. g[k] = Value(f, k)
      <4> HIDE DEF Value
      <4>1. QED
        BY <3>3
    <3>5. QED
      BY <3>2, <3>4
  <2>3. g = [k \in 0 .. n + 1 |-> g[k]]
    OBVIOUS
  <2> HIDE DEF g, Value
  <2>4. g = [k \in 0 .. n + 1 |-> Value(g, k)]
    BY <2>2, <2>3
  <2>5. QED
    BY <2>4
<1>3. Len(infos) \in P
  <2> HIDE DEF P
  <2>1. QED
    BY <1>1, <1>2, Induction
<1>4. QED
  <2>1. PICK R : R = [k \in 0 .. Len(infos) |-> Value(R, k)]
    <3> HIDE DEF Value
    <3>1. QED
      BY <1>3
  <2>2. QED
    BY <2>1, Zenon DEF Adding, Size

LEMMA BoundedIsAdded ==
  ASSUME NEW infos, Len(infos) \in Nat, BoundedInfos(infos)
  PROVE  \E R : /\ Adding(infos, R)
                /\ \A i \in DOMAIN infos : IsFileInfo(infos[i]) =>
                     Len(infos[i].data) <= limits.fileSize /\ R[i] <= limits.total
<1>1. PICK R : R = (CHOOSE Q : Adding(infos, Q))
  OBVIOUS
<1>2. Adding(infos, R)
  BY <1>1, AddingExists, Zenon
<1>3. \A i \in {j \in DOMAIN infos : IsFileInfo(infos[j])} :
        Len(infos[i].data) <= limits.fileSize /\ R[i] <= limits.total
  BY <1>1, Zenon DEF BoundedInfos, Adding
<1>4. QED
  BY <1>2, <1>3

\* The members an archive that is not refused is taken for.
LEMMA ArchiveMembers ==
  ASSUME IsInfos(archive), limits \in Limits, SafeInfos(archive), BoundedInfos(archive),
         NEW m, m = LET files == {archive[i] : i \in {j \in DOMAIN archive : IsFileInfo(archive[j])}}
                    IN  [p \in {f.path : f \in files} |-> (CHOOSE f \in files : f.path = p).data]
  PROVE  /\ IsFiniteSet(DOMAIN m) /\ Cardinality(DOMAIN m) <= limits.files
         /\ \A p \in DOMAIN m : p \in Seq(Names) /\ IsBlocks(m[p]) /\ Len(m[p]) <= limits.fileSize
         /\ SumOf(m, DOMAIN m) \in Nat /\ SumOf(m, DOMAIN m) <= limits.total
<1> DEFINE F == {j \in DOMAIN archive : IsFileInfo(archive[j])}
           files == {archive[i] : i \in F}
<1>1. /\ Len(archive) \in Nat /\ DOMAIN archive = 1 .. Len(archive)
      /\ \A i \in DOMAIN archive : archive[i].path \in Seq(Names) /\ IsBlocks(archive[i].data)
  <2>1. archive \in Seq(Range(archive))
    BY DEF IsInfos
  <2>2. Len(archive) \in Nat /\ DOMAIN archive = 1 .. Len(archive)
    BY <2>1, LenProperties
  <2>3. QED
    BY <2>2 DEF IsInfos
<1>2. /\ Len(archive) <= limits.files
      /\ \A i, j \in DOMAIN archive : archive[i].path = archive[j].path => i = j
  <2>1. \A i \in DOMAIN archive : \A j \in 1 .. i - 1 : archive[j].path # archive[i].path
    BY DEF SafeInfos
  <2>2. \A i, j \in 1 .. Len(archive) : i = j \/ j \in 1 .. i - 1 \/ i \in 1 .. j - 1
    BY <1>1
  <2>3. QED
    BY <1>1, <2>1, <2>2 DEF SafeInfos
<1>3. m = [p \in {f.path : f \in files} |-> (CHOOSE f \in files : f.path = p).data]
  OBVIOUS
<1>4. ASSUME NEW i \in F PROVE archive[i].path \in DOMAIN m /\ m[archive[i].path] = archive[i].data
  <2>1. archive[i] \in files /\ archive[i].path \in {f.path : f \in files}
    OBVIOUS
  <2> DEFINE g == CHOOSE f \in files : f.path = archive[i].path
  <2>2. g \in files /\ g.path = archive[i].path
    BY <2>1
  <2>3. m[archive[i].path] = g.data
    BY <1>3, <2>1
  <2> HIDE DEF g
  <2>4. PICK j \in F : g = archive[j]
    BY <2>2
  <2>5. j = i
    BY <1>2, <2>2, <2>4
  <2>6. QED
    BY <1>3, <2>1, <2>3, <2>4, <2>5
<1>5. DOMAIN m = {archive[i].path : i \in F}
  BY <1>3
<1>6. ASSUME NEW p \in DOMAIN m PROVE \E i \in F : p = archive[i].path /\ m[p] = archive[i].data
  <2> HIDE DEF F, files
  <2>1. PICK i \in F : p = archive[i].path
    BY <1>5
  <2>2. m[archive[i].path] = archive[i].data
    BY <1>4
  <2>3. QED
    BY <2>1, <2>2
<1>7. F \subseteq 1 .. Len(archive)
  BY <1>1
<1> HIDE DEF F, files
<1>8. /\ IsFiniteSet(F) /\ Cardinality(F) <= Len(archive) /\ Cardinality(F) \in Nat
  <2>1. IsFiniteSet(1 .. Len(archive)) /\ Cardinality(1 .. Len(archive)) = Len(archive)
    BY <1>1, FS_Interval
  <2>2. IsFiniteSet(F) /\ Cardinality(F) <= Cardinality(1 .. Len(archive))
    BY <1>7, <2>1, FS_Subset
  <2>3. QED
    BY <2>1, <2>2, FS_CardinalityType
<1>9. PICK R : /\ Adding(archive, R)
               /\ \A i \in DOMAIN archive : IsFileInfo(archive[i]) =>
                    Len(archive[i].data) <= limits.fileSize /\ R[i] <= limits.total
  BY <1>1, BoundedIsAdded
<1>10. IsFiniteSet(DOMAIN m) /\ Cardinality(DOMAIN m) <= limits.files
  <2> DEFINE h == [i \in F |-> archive[i].path]
  <2>1. DOMAIN m = {h[i] : i \in F} /\ h \in [F -> DOMAIN m]
    BY <1>5
  <2>2. h \in Surjection(F, DOMAIN m)
    BY <2>1 DEF Surjection
  <2> HIDE DEF h
  <2>3. IsFiniteSet(DOMAIN m) /\ Cardinality(DOMAIN m) <= Cardinality(F)
    BY <1>8, <2>2, FS_Surjection
  <2>4. limits.files \in Nat /\ Cardinality(DOMAIN m) \in Nat
    BY <2>3, FS_CardinalityType DEF Limits
  <2>5. QED
    BY <1>1, <1>2, <1>8, <2>3, <2>4
<1>11. ASSUME NEW p \in DOMAIN m
       PROVE  p \in Seq(Names) /\ IsBlocks(m[p]) /\ Len(m[p]) <= limits.fileSize /\ Len(m[p]) \in Nat
  <2>1. PICK i \in F : p = archive[i].path /\ m[p] = archive[i].data
    BY <1>6
  <2>2. i \in DOMAIN archive /\ IsFileInfo(archive[i])
    BY DEF F
  <2>3. IsBlocks(m[p]) /\ p \in Seq(Names) /\ Len(m[p]) <= limits.fileSize
    BY <1>1, <1>9, <2>1, <2>2
  <2>4. QED
    BY <2>3, LenProperties DEF IsBlocks
<1> DEFINE D(k) == {archive[i].path : i \in {j \in F : j <= k}}
           P == {k \in Nat : k <= Len(archive) =>
                   SumOf(m, D(k)) \in Nat /\ SumOf(m, D(k)) <= R[k] /\ SumOf(m, D(k)) <= limits.total
                   /\ R[k] \in Nat}
<1>12. \A k \in Nat : D(k) \subseteq DOMAIN m /\ IsFiniteSet(D(k))
  <2>1. \A k \in Nat : D(k) \subseteq DOMAIN m
    BY <1>5
  <2>2. QED
    BY <1>10, <2>1, FS_Subset
<1>13. 0 \in P
  <2>1. D(0) = {}
    BY <1>7
  <2>2. SumOf(m, {}) = 0
    BY FS_EmptySet, SumSplit
  <2>3. R[0] = 0 /\ limits.total \in Nat
    BY <1>1, <1>9 DEF Adding, Limits
  <2> HIDE DEF D
  <2>4. SumOf(m, D(0)) = 0
    BY <2>1, <2>2
  <2>5. QED
    BY <2>3, <2>4
<1>14. ASSUME NEW k \in Nat, k \in P PROVE k + 1 \in P
  <2>1. SUFFICES ASSUME k + 1 <= Len(archive)
                 PROVE  /\ SumOf(m, D(k + 1)) \in Nat /\ SumOf(m, D(k + 1)) <= R[k + 1]
                        /\ SumOf(m, D(k + 1)) <= limits.total /\ R[k + 1] \in Nat
    OBVIOUS
  <2>2. /\ SumOf(m, D(k)) \in Nat /\ SumOf(m, D(k)) <= R[k] /\ SumOf(m, D(k)) <= limits.total
        /\ R[k] \in Nat
    <3> HIDE DEF D
    <3>1. k <= Len(archive)
      BY <1>1, <2>1
    <3>2. QED
      BY <1>14, <3>1
  <2>3. k + 1 \in DOMAIN archive /\ limits.total \in Nat
    BY <1>1, <2>1 DEF Limits
  <2>4. R[k + 1] = R[k] + (IF IsFileInfo(archive[k + 1]) THEN Len(archive[k + 1].data) ELSE 0)
    <3>1. k + 1 \in 0 .. Len(archive) /\ k + 1 # 0 /\ (k + 1) - 1 = k
      BY <1>1, <2>1
    <3>2. QED
      BY <1>9, <3>1 DEF Adding
  <2>5. CASE k + 1 \in F
    <3>1. D(k + 1) = D(k) \cup {archive[k + 1].path}
      <4>1. \A j \in F : j <= k + 1 <=> (j <= k \/ j = k + 1)
        BY <1>1, <1>7
      <4>2. QED
        BY <2>5, <4>1
    <3>2. archive[k + 1].path \in DOMAIN m /\ m[archive[k + 1].path] = archive[k + 1].data
      BY <1>4, <2>5
    <3>3. Len(m[archive[k + 1].path]) \in Nat
      BY <1>11, <3>2
    <3>4. IsFileInfo(archive[k + 1]) /\ R[k + 1] <= limits.total
      BY <1>9, <2>3, <2>5 DEF F
    <3>5. D(k) \subseteq DOMAIN m /\ IsFiniteSet(D(k))
      BY <1>12
    <3> HIDE DEF D
    <3>6. \A q \in D(k) : Len(m[q]) \in Nat
      BY <1>11, <3>5
    <3>7. PICK p : p = archive[k + 1].path
      OBVIOUS
    <3>8. /\ SumOf(m, D(k) \cup {p}) \in Nat
          /\ SumOf(m, D(k) \cup {p}) <= SumOf(m, D(k)) + Len(m[p])
      BY <3>3, <3>5, <3>6, <3>7, SumMore
    <3>9. R[k + 1] = R[k] + Len(m[p]) /\ Len(m[p]) \in Nat
      BY <2>4, <3>2, <3>3, <3>4, <3>7
    <3>10. SumOf(m, D(k + 1)) \in Nat /\ SumOf(m, D(k + 1)) <= SumOf(m, D(k)) + Len(m[p])
      BY <3>1, <3>7, <3>8
    <3>11. QED
      BY <2>2, <2>3, <3>4, <3>9, <3>10
  <2>6. CASE k + 1 \notin F
    <3>1. D(k + 1) = D(k)
      <4>1. \A j \in F : j <= k + 1 <=> j <= k
        BY <1>1, <1>7, <2>6
      <4>2. QED
        BY <4>1
    <3>2. ~IsFileInfo(archive[k + 1])
      BY <2>3, <2>6 DEF F
    <3>3. R[k + 1] = R[k]
      BY <2>2, <2>4, <3>2
    <3> HIDE DEF D
    <3>4. QED
      BY <2>2, <3>1, <3>3
  <2>7. QED
    BY <2>5, <2>6
<1>15. SumOf(m, DOMAIN m) \in Nat /\ SumOf(m, DOMAIN m) <= limits.total
  <2>1. D(Len(archive)) = DOMAIN m
    <3>1. \A j \in F : j <= Len(archive)
      BY <1>1, <1>7
    <3>2. {j \in F : j <= Len(archive)} = F
      BY <3>1
    <3>3. QED
      BY <1>5, <3>2
  <2> HIDE DEF D
  <2>2. Len(archive) \in P
    <3> HIDE DEF P
    <3>1. QED
      BY <1>1, <1>13, <1>14, Induction
  <2>3. Len(archive) <= Len(archive)
    BY <1>1
  <2>4. QED
    BY <2>1, <2>2, <2>3
<1>16. QED
  BY <1>10, <1>11, <1>15

LEMMA InspectArchiveInv ==
  ASSUME WalkInv, InspectArchive, UNCHANGED fileVars
  PROVE  WalkInv'
<1>1. /\ step = "inspect-archive"
      /\ UNCHANGED <<anchors, entry, reading, entries, archive, limits, disturbed, tree, trees>>
  BY DEF InspectArchive, fileVars
<1>2. CASE ~(SafeInfos(archive) /\ BoundedInfos(archive))
  <2>1. step' = "refused" /\ UNCHANGED members
    BY <1>2 DEF InspectArchive
  <2>2. IsInfos(archive')
    BY <1>1 DEF WalkInv
  <2>3. QED
    BY <1>1, <2>1, <2>2, OnlyStep
<1>3. CASE SafeInfos(archive) /\ BoundedInfos(archive)
  <2>1. step' = "loaded"
    BY <1>3 DEF InspectArchive
  <2>2. PICK m : /\ members' = m
                 /\ m = LET files == {archive[i] : i \in {j \in DOMAIN archive : IsFileInfo(archive[j])}}
                        IN  [p \in {f.path : f \in files} |-> (CHOOSE f \in files : f.path = p).data]
    BY <1>3 DEF InspectArchive
  <2>3. /\ IsFiniteSet(DOMAIN m) /\ Cardinality(DOMAIN m) <= limits.files
        /\ \A p \in DOMAIN m : p \in Seq(Names) /\ IsBlocks(m[p]) /\ Len(m[p]) <= limits.fileSize
        /\ SumOf(m, DOMAIN m) \in Nat /\ SumOf(m, DOMAIN m) <= limits.total
    BY <1>3, <2>2, ArchiveMembers DEF WalkInv, FilesInv
  <2>4. FilesInv' /\ IsInfos(archive)'
    BY <1>1, FilesStay DEF WalkInv, fileVars
  <2>5. /\ step \in Outside /\ step' \in Steps /\ step' \notin Outside /\ step' \notin Within
        /\ step' \notin {"open-root", "open-directory"} \cup AtFile
        /\ step' \notin {"read", "check"}
    BY <1>1, <2>1 DEF Steps, Outside, Within, AtFile
  <2>6. AnchorsInv'
    BY <1>1, <2>5 DEF WalkInv, AnchorsInv
  <2>7. EntryInv'
    BY <1>1, <2>5 DEF WalkInv, EntryInv
  <2>8. ReadingInv'
    BY <1>1, <2>5 DEF WalkInv, ReadingInv
  <2>9. MembersInv'
    <3>1. entries' = 0 /\ entries' \in 0 .. limits'.entries
      BY <1>1, <2>5 DEF WalkInv, MembersInv
    <3>2. Total' = SumOf(members', DOMAIN members')
      BY Zenon DEF Total, SumOf, MapThenSumSet, MapThenFoldSet
    <3>3. Total' \in Nat /\ Total' <= limits'.total
      BY <1>1, <2>2, <2>3, <3>2
    <3>4. members' = m /\ limits' = limits
      BY <1>1, <2>2
    <3>5. /\ IsFiniteSet(DOMAIN members') /\ Cardinality(DOMAIN members') <= limits'.files
          /\ \A p \in DOMAIN members' :
               p \in Seq(Names) /\ IsBlocks(members'[p]) /\ Len(members'[p]) <= limits'.fileSize
      BY <2>3, <3>4
    <3>6. ~(entries' > 0 \/ step' \in Within)
      BY <2>5, <3>1
    <3>7. QED
      BY <2>5, <3>1, <3>3, <3>5, <3>6 DEF MembersInv
  <2>10. QED
    BY <2>4, <2>6, <2>7, <2>8, <2>9 DEF WalkInv
<1>4. QED
  BY <1>2, <1>3

LEMMA ArchiveInv ==
  ASSUME WalkInv, RecogniseArchive \/ NothingThere \/ CaptureArchive \/ InspectArchive, UNCHANGED fileVars
  PROVE  WalkInv'
<1>1. CASE RecogniseArchive \/ NothingThere
  <2>1. step = "start" /\ step' \in {"archive", "refused"} /\ IsInfos(archive')
        /\ UNCHANGED <<limits, disturbed, tree, trees, anchors, entry, reading, entries, members>>
    BY <1>1 DEF RecogniseArchive, NothingThere, fileVars, WalkInv
  <2>2. QED
    BY <2>1, OnlyStep
<1>2. CASE CaptureArchive
  <2>1. step = "archive" /\ step' \in {"inspect-archive", "refused"}
        /\ UNCHANGED <<limits, disturbed, tree, trees, anchors, entry, reading, entries, members>>
    BY <1>2 DEF CaptureArchive, fileVars
  <2>2. IsInfos(archive')
    <3>1. CASE Capturable
      <4>1. /\ archive' = tree.data[tree.root][1].infos /\ IsArchive(tree.data[tree.root])
            /\ TypeOf(tree.root) = "file"
        BY <1>2, <3>1 DEF CaptureArchive, Capturable
      <4>2. tree.root \in Nodes
        BY <4>1 DEF TypeOf, WalkInv, FilesInv, IsTree
      <4>3. tree.data[tree.root] \in Contents
        BY <4>2 DEF WalkInv, FilesInv, FilesKnown
      <4>4. QED
        BY <4>1, <4>3, ArchiveAssumption DEF Contents
    <3>2. CASE ~Capturable
      BY <1>2, <3>2 DEF CaptureArchive, WalkInv
    <3>3. QED
      BY <3>1, <3>2
  <2>3. QED
    BY <2>1, <2>2, OnlyStep
<1>3. QED
  BY <1>1, <1>2, InspectArchiveInv

-----------------------------------------------------------------------------
(* Edits, and the whole.                                                   *)

LEMMA WasFileStays ==
  ASSUME NEW ts, ts \in Seq(Range(ts)), NEW t, NEW path, Len(path) \in Nat, NEW b, WasFile(ts, path, b)
  PROVE  WasFile(Append(ts, t), path, b)
<1>1. PICK c : /\ Chain(ts, path, c)
               /\ \E i \in DOMAIN ts : /\ i >= c[Len(path)].at
                                       /\ ts[i].type[c[Len(path)].node] = "file"
                                       /\ ts[i].data[c[Len(path)].node] = b
  BY DEF WasFile
<1>2. Chain(Append(ts, t), path, c)
  BY <1>1, ChainStays
<1>3. \A i \in DOMAIN ts : i \in DOMAIN Append(ts, t) /\ Append(ts, t)[i] = ts[i]
  BY OneMoreInSeq
<1>4. QED
  BY <1>1, <1>2, <1>3 DEF WasFile

LEMMA LedToStays ==
  ASSUME NEW ts, ts \in Seq(Range(ts)), NEW t, NEW path, Len(path) \in Nat, NEW n, LedTo(ts, path, n)
  PROVE  LedTo(Append(ts, t), path, n)
BY ChainStays DEF LedTo

LEMMA EditInv ==
  ASSUME WalkInv, EditStep, UNCHANGED archive
  PROVE  WalkInv'
<1>1. /\ IsTree(tree) /\ FilesKnown(tree) /\ trees \in Seq(Range(trees)) /\ Len(trees) \in Nat
      /\ \A i \in DOMAIN trees : IsTree(trees[i])
  <2>1. trees \in Seq(Range(trees))
    BY DEF WalkInv, FilesInv
  <2>2. QED
    BY <2>1, OneMoreInSeq DEF WalkInv, FilesInv
<1>2. /\ IsTree(tree') /\ FilesKnown(tree') /\ Untouched(tree, tree')
      /\ \A n \in Opened \cap Nodes : tree'.type[n] = tree.type[n]
      /\ trees' = Append(trees, tree')
      /\ UNCHANGED <<limits, disturbed, step, anchors, entry, reading, entries, members>>
  BY <1>1, EditFacts
<1>3. /\ trees' \in Seq(Range(trees')) /\ Len(trees') = Len(trees) + 1
      /\ DOMAIN trees' = 1 .. Len(trees) + 1 /\ DOMAIN trees = 1 .. Len(trees)
      /\ trees'[Len(trees) + 1] = tree' /\ \A i \in 1 .. Len(trees) : trees'[i] = trees[i]
  BY <1>1, <1>2, OneMoreInSeq
<1>4. FilesInv'
  <2>1. limits' \in Limits /\ disturbed' \in BOOLEAN
    BY <1>2 DEF WalkInv, FilesInv
  <2>2. \A i \in DOMAIN trees' : IsTree(trees'[i])
    BY <1>1, <1>2, <1>3
  <2>3. Len(trees') > 0 /\ trees'[Len(trees')] = tree'
    BY <1>1, <1>3
  <2>4. QED
    BY <1>2, <1>3, <2>1, <2>2, <2>3 DEF FilesInv
<1>5. IsInfos(archive)'
  BY DEF WalkInv
<1>6. AnchorsInv'
  <2>1. /\ step' \in Steps /\ anchors' \in Seq(OpenDirectories) /\ Len(anchors') <= limits'.depth + 1
        /\ (step' \in Within => Len(anchors') > 0) /\ (step' \in Outside => anchors' = <<>>)
    BY <1>2 DEF WalkInv, AnchorsInv
  <2>2. ASSUME NEW k \in 1 .. Len(anchors')
        PROVE  /\ tree'.type[anchors'[k].node] = "dir" /\ Len(anchors'[k].path) = k - 1
               /\ LedTo(trees', anchors'[k].path, anchors'[k].node)
    <3>1. anchors' = anchors /\ k \in 1 .. Len(anchors)
      BY <1>2
    <3>2. /\ tree.type[anchors[k].node] = "dir" /\ Len(anchors[k].path) = k - 1
          /\ LedTo(trees, anchors[k].path, anchors[k].node)
      BY <3>1 DEF WalkInv, AnchorsInv
    <3>3. anchors[k] \in OpenDirectories /\ k \in DOMAIN anchors
      <4>1. anchors \in Seq(OpenDirectories)
        BY DEF WalkInv, AnchorsInv
      <4>2. QED
        BY <3>1, <4>1
    <3>4. anchors[k].node \in Opened \cap Nodes /\ Len(anchors[k].path) \in Nat
      <4>1. anchors[k].node \in Nodes /\ anchors[k].path \in Seq(Names)
        BY <3>3 DEF OpenDirectories
      <4>2. anchors[k].node \in Opened
        BY <3>3 DEF Opened
      <4>3. QED
        BY <4>1, <4>2, LenProperties
    <3>5. LedTo(trees', anchors[k].path, anchors[k].node)
      BY <1>1, <1>2, <3>2, <3>4, LedToStays
    <3>6. QED
      BY <1>2, <3>1, <3>2, <3>4, <3>5
  <2>3. QED
    BY <2>1, <2>2 DEF AnchorsInv
<1>7. EntryInv'
  <2>1. /\ entry' \in [path : Seq(Names), node : Nodes \cup {Nothing}, type : Types]
        /\ step' \in {"open-root", "open-directory"} => Len(anchors') <= limits'.depth
        /\ step' \in AtFile => Cardinality(DOMAIN members') < limits'.files
    BY <1>2 DEF WalkInv, EntryInv
  <2>2. ASSUME step' \in {"open-root", "open-directory"} \cup AtFile
        PROVE  /\ entry'.node \in Nodes /\ Len(entry'.path) = Len(anchors')
               /\ LedTo(trees', entry'.path, entry'.node)
    <3>1. /\ entry.node \in Nodes /\ Len(entry.path) = Len(anchors) /\ entry.path \in Seq(Names)
          /\ LedTo(trees, entry.path, entry.node)
      BY <1>2, <2>2 DEF WalkInv, EntryInv
    <3>2. LedTo(trees', entry.path, entry.node)
      BY <1>1, <1>2, <3>1, LedToStays, LenProperties
    <3>3. QED
      BY <1>2, <3>1, <3>2
  <2>3. QED
    BY <2>1, <2>2 DEF EntryInv
<1>8. Budget' = Budget /\ Total' = Total
  BY <1>2, SameBudget
<1>9. ReadingInv'
  <2>1. /\ DOMAIN reading' = {"node", "size", "mtime", "budget", "blocks"}
        /\ reading'.node \in Nodes \cup {Nothing}
        /\ {reading'.size, reading'.mtime, reading'.budget} \subseteq Nat
    BY <1>2 DEF WalkInv, ReadingInv
  <2>2. ASSUME step' \in {"read", "check"}
        PROVE  /\ reading'.node = entry'.node /\ tree'.type[reading'.node] = "file"
               /\ reading'.budget = Budget' /\ IsBlocks(reading'.blocks)
               /\ reading'.mtime <= tree'.mtime[reading'.node]
               /\ reading'.mtime = tree'.mtime[reading'.node] =>
                    /\ Len(reading'.blocks) <= Len(tree'.data[reading'.node])
                    /\ \A i \in 1 .. Len(reading'.blocks) : reading'.blocks[i] = tree'.data[reading'.node][i]
    <3>1. /\ reading.node = entry.node /\ tree.type[reading.node] = "file"
          /\ reading.budget = Budget /\ IsBlocks(reading.blocks)
          /\ reading.mtime <= tree.mtime[reading.node]
          /\ reading.mtime = tree.mtime[reading.node] =>
               /\ Len(reading.blocks) <= Len(tree.data[reading.node])
               /\ \A i \in 1 .. Len(reading.blocks) : reading.blocks[i] = tree.data[reading.node][i]
      BY <1>2, <2>2 DEF WalkInv, ReadingInv
    <3>2. reading.node \in Opened \cap Nodes
      <4>1. reading.node \in Nodes
        BY <1>2, <2>2, <3>1 DEF WalkInv, EntryInv, AtFile
      <4>2. QED
        BY <4>1 DEF Opened
    <3>3. /\ tree'.type[reading.node] = "file" /\ tree.mtime[reading.node] <= tree'.mtime[reading.node]
          /\ tree.mtime[reading.node] = tree'.mtime[reading.node] =>
               tree.data[reading.node] = tree'.data[reading.node]
          /\ tree.mtime[reading.node] \in Nat /\ tree'.mtime[reading.node] \in Nat /\ reading.mtime \in Nat
      BY <1>1, <1>2, <3>1, <3>2 DEF Untouched, IsTree, WalkInv, ReadingInv
    <3>4. reading.mtime <= tree'.mtime[reading.node]
      BY <3>1, <3>3
    <3>5. reading.mtime = tree'.mtime[reading.node] =>
            /\ reading.mtime = tree.mtime[reading.node]
            /\ tree.data[reading.node] = tree'.data[reading.node]
      BY <3>1, <3>3
    <3>6. reading' = reading /\ entry' = entry
      BY <1>2
    <3>7. QED
      BY <1>8, <3>1, <3>3, <3>4, <3>5, <3>6
  <2>3. QED
    BY <2>1, <2>2 DEF ReadingInv
<1>10. MembersInv'
  <2>1. /\ entries' \in 0 .. limits'.entries /\ (step' \in Outside => entries' = 0 /\ members' = <<>>)
        /\ IsFiniteSet(DOMAIN members') /\ Cardinality(DOMAIN members') <= limits'.files
        /\ \A p \in DOMAIN members' :
             p \in Seq(Names) /\ IsBlocks(members'[p]) /\ Len(members'[p]) <= limits'.fileSize
        /\ Total' \in Nat /\ Total' <= limits'.total
    BY <1>2, <1>8 DEF WalkInv, MembersInv
  <2>2. ASSUME entries' > 0 \/ step' \in Within, NEW p \in DOMAIN members'
        PROVE  Len(p) <= limits'.depth + 1 /\ WasFile(trees', p, members'[p])
    <3>1. /\ p \in Seq(Names) /\ Len(p) <= limits.depth + 1 /\ WasFile(trees, p, members[p])
      BY <1>2, <2>2 DEF WalkInv, MembersInv
    <3>2. WasFile(trees', p, members[p])
      BY <1>1, <1>2, <3>1, WasFileStays, LenProperties
    <3>3. QED
      BY <1>2, <3>1, <3>2
  <2>3. QED
    BY <2>1, <2>2 DEF MembersInv
<1>11. QED
  BY <1>4, <1>5, <1>6, <1>7, <1>9, <1>10 DEF WalkInv

LEMMA BundleStepInv ==
  ASSUME WalkInv, BundleNext \/ UNCHANGED bundleVars
  PROVE  WalkInv'
<1>1. CASE Verify \/ UNCHANGED bundleVars
  <2>1. UNCHANGED <<limits, disturbed, tree, trees, anchors, entry, reading, entries, members, step, archive>>
    BY <1>1 DEF Verify, bundleVars, fileVars, walkVars
  <2>2. IsInfos(archive')
    BY <2>1 DEF WalkInv
  <2>3. QED
    BY <2>1, <2>2, OnlyStep
<1>2. CASE WalkStep /\ UNCHANGED <<archive, receipt>>
  BY <1>2, WalkStepInv
<1>3. CASE (RecogniseArchive \/ NothingThere \/ CaptureArchive \/ InspectArchive) /\ UNCHANGED fileVars
  BY <1>3, ArchiveInv
<1>4. CASE EditStep /\ UNCHANGED <<archive, receipt>>
  BY <1>4, EditInv
<1>5. QED
  BY <1>1, <1>2, <1>3, <1>4 DEF BundleNext

-----------------------------------------------------------------------------
(* A directory nobody edits.  What stands under it, level by level.         *)

\* The paths of one name more, and where each leads.
Further(t, S) ==
  UNION {{<<Append(p[1], c[1]), c[2]>> : c \in Children(t, p[2])} : p \in {q \in S : t.type[q[2]] = "dir"}}

Levels(t, d, L) ==
  L = [k \in 0 .. d + 1 |-> IF k = 0 THEN {<<<<>>, t.root>>} ELSE Further(t, L[k - 1])]

\* The paths of k names, and where each leads.
Standing(t, d, k) == (CHOOSE L : Levels(t, d, L))[k]

\* The same things, path by path.
Stands(t, d) ==
  /\ Standing(t, d, 0) = {<<<<>>, t.root>>}
  /\ \A k \in 0 .. d : Standing(t, d, k + 1) = Further(t, Standing(t, d, k))

LEMMA EverythingStands ==
  ASSUME tree.root # Nothing
  PROVE  Everything(tree) = UNION {Standing(tree, limits.depth, k) : k \in 1 .. limits.depth + 1}
BY Zenon DEF Everything, Standing, Levels, Further

LEMMA LevelsExist ==
  ASSUME NEW t, NEW d \in Nat
  PROVE  \E L : Levels(t, d, L)
<1> DEFINE Value(L, k) == IF k = 0 THEN {<<<<>>, t.root>>} ELSE Further(t, L[k - 1])
           P == {n \in Nat : \E L : L = [k \in 0 .. n |-> Value(L, k)]}
<1>1. 0 \in P
  <2> DEFINE L == [k \in 0 .. 0 |-> {<<<<>>, t.root>>}]
  <2>1. L = [k \in 0 .. 0 |-> Value(L, k)]
    OBVIOUS
  <2> HIDE DEF L
  <2>2. QED
    BY <2>1
<1>2. ASSUME NEW n \in Nat, n \in P PROVE n + 1 \in P
  <2>1. PICK f : f = [k \in 0 .. n |-> Value(f, k)]
    BY <1>2
  <2> DEFINE g == [k \in 0 .. n + 1 |-> IF k <= n THEN f[k] ELSE Value(f, k)]
  <2>2. ASSUME NEW k \in 0 .. n + 1 PROVE g[k] = Value(g, k)
    <3>1. k # 0 => g[k - 1] = f[k - 1]
      OBVIOUS
    <3>2. Value(g, k) = Value(f, k)
      BY <3>1
    <3>3. k <= n => f[k] = Value(f, k)
      <4> HIDE DEF Value
      <4>1. QED
        BY <2>1
    <3>4. g[k] = Value(f, k)
      <4> HIDE DEF Value
      <4>1. QED
        BY <3>3
    <3>5. QED
      BY <3>2, <3>4
  <2>3. g = [k \in 0 .. n + 1 |-> g[k]]
    OBVIOUS
  <2> HIDE DEF g, Value
  <2>4. g = [k \in 0 .. n + 1 |-> Value(g, k)]
    BY <2>2, <2>3
  <2>5. QED
    BY <2>4
<1>3. d + 1 \in P
  <2> HIDE DEF P
  <2>1. QED
    BY <1>1, <1>2, Induction
<1>4. QED
  <2>1. PICK L : L = [k \in 0 .. d + 1 |-> Value(L, k)]
    <3> HIDE DEF Value
    <3>1. QED
      BY <1>3
  <2>2. QED
    BY <2>1, Zenon DEF Levels

LEMMA LevelsStand ==
  ASSUME NEW t, NEW d \in Nat
  PROVE  Stands(t, d)
<1> DEFINE L == CHOOSE M : Levels(t, d, M)
<1>1. Levels(t, d, L)
  BY LevelsExist, Zenon
<1>2. \A k : Standing(t, d, k) = L[k]
  BY DEF Standing
<1> HIDE DEF L
<1>3. L[0] = {<<<<>>, t.root>>}
  BY <1>1 DEF Levels
<1>4. ASSUME NEW k \in 0 .. d
      PROVE  L[k + 1] = Further(t, L[k])
  <2>1. k + 1 \in 0 .. d + 1 /\ k + 1 # 0 /\ (k + 1) - 1 = k
    OBVIOUS
  <2>2. QED
    BY <1>1, <2>1 DEF Levels
<1>5. QED
  BY <1>2, <1>3, <1>4 DEF Stands

\* One step further from a path, and back.
LEMMA FurtherOn ==
  ASSUME NEW t, NEW S, NEW p, NEW n, <<p, n>> \in S, t.type[n] = "dir", NEW m \in DOMAIN t.entry[n]
  PROVE  <<Append(p, m), t.entry[n][m]>> \in Further(t, S)
<1> DEFINE e == <<p, n>>
<1> DEFINE c == <<m, t.entry[n][m]>>
<1>1. e \in {q \in S : t.type[q[2]] = "dir"} /\ e[1] = p /\ e[2] = n
  OBVIOUS
<1>2. c \in Children(t, e[2]) /\ c[1] = m /\ c[2] = t.entry[n][m]
  BY DEF Children
<1> HIDE DEF e, c
<1>3. <<Append(e[1], c[1]), c[2]>> \in Further(t, S)
  BY <1>1, <1>2 DEF Further
<1> QED
  BY <1>1, <1>2, <1>3

LEMMA FurtherBack ==
  ASSUME NEW t, NEW S, NEW e \in Further(t, S)
  PROVE  \E q \in S : \E m \in DOMAIN t.entry[q[2]] :
           t.type[q[2]] = "dir" /\ e = <<Append(q[1], m), t.entry[q[2]][m]>>
<1>1. PICK q \in {r \in S : t.type[r[2]] = "dir"} : e \in {<<Append(q[1], c[1]), c[2]>> : c \in Children(t, q[2])}
  BY DEF Further
<1>2. PICK c \in Children(t, q[2]) : e = <<Append(q[1], c[1]), c[2]>>
  BY <1>1
<1>3. PICK m \in DOMAIN t.entry[q[2]] : c = <<m, t.entry[q[2]][m]>>
  BY DEF Children
<1>4. c[1] = m /\ c[2] = t.entry[q[2]][m]
  BY <1>3
<1> QED
  BY <1>1, <1>2, <1>4

\* An element of a level: a path of so many names, and where it leads.
LevelOf(t, d, k) ==
  \A e \in Standing(t, d, k) :
    e = <<e[1], e[2]>> /\ e[1] \in Seq(Names) /\ Len(e[1]) = k /\ e[2] \in Nodes

\* A path leads to one place.
OnePlace(t, d, k) == \A e, f \in Standing(t, d, k) : e[1] = f[1] => e[2] = f[2]

LEMMA FurtherTypes ==
  ASSUME NEW t, IsTree(t), NEW d \in Nat, NEW k \in 0 .. d, Stands(t, d), LevelOf(t, d, k),
         NEW e \in Standing(t, d, k + 1)
  PROVE  \E q \in Standing(t, d, k) : \E m \in DOMAIN t.entry[q[2]] :
           /\ t.type[q[2]] = "dir" /\ e = <<Append(q[1], m), t.entry[q[2]][m]>>
           /\ e[1] = Append(q[1], m) /\ e[2] = t.entry[q[2]][m]
           /\ m \in Names /\ e[2] \in Nodes /\ q[1] \in Seq(Names) /\ q[2] \in Nodes
           /\ Len(q[1]) = k /\ q = <<q[1], q[2]>>
<1>1. e \in Further(t, Standing(t, d, k))
  BY DEF Stands
<1>2. PICK q \in Standing(t, d, k) : \E m \in DOMAIN t.entry[q[2]] :
        t.type[q[2]] = "dir" /\ e = <<Append(q[1], m), t.entry[q[2]][m]>>
  BY <1>1, FurtherBack
<1>3. PICK m \in DOMAIN t.entry[q[2]] : t.type[q[2]] = "dir" /\ e = <<Append(q[1], m), t.entry[q[2]][m]>>
  BY <1>2
<1>4. q[1] \in Seq(Names) /\ q[2] \in Nodes /\ Len(q[1]) = k /\ q = <<q[1], q[2]>>
  BY DEF LevelOf
<1>5. m \in Names /\ t.entry[q[2]][m] \in Nodes
  BY <1>4 DEF IsTree
<1>6. e[1] = Append(q[1], m) /\ e[2] = t.entry[q[2]][m]
  BY <1>3
<1> QED
  BY <1>3, <1>4, <1>5, <1>6

LEMMA LevelTypes ==
  ASSUME NEW t, IsTree(t), t.root \in Nodes, NEW d \in Nat
  PROVE  \A k \in 0 .. d + 1 : LevelOf(t, d, k)
<1>1. Stands(t, d)
  BY LevelsStand
<1> DEFINE P == {k \in Nat : k \in 0 .. d + 1 => LevelOf(t, d, k)}
<1>2. 0 \in P
  <2>1. <<>> \in Seq(Names) /\ Len(<<>>) = 0
    OBVIOUS
  <2>2. \A e \in Standing(t, d, 0) : e = <<<<>>, t.root>>
    BY <1>1 DEF Stands
  <2>3. \A e \in Standing(t, d, 0) : e[1] = <<>> /\ e[2] = t.root
    BY <2>2
  <2>4. LevelOf(t, d, 0)
    BY <2>1, <2>2, <2>3 DEF LevelOf
  <2> QED
    BY <2>4
<1>3. ASSUME NEW k \in Nat, k \in P
      PROVE  k + 1 \in P
  <2>1. SUFFICES ASSUME k + 1 \in 0 .. d + 1 PROVE LevelOf(t, d, k + 1)
    OBVIOUS
  <2>2. k \in 0 .. d /\ LevelOf(t, d, k)
    BY <1>3, <2>1
  <2>3. ASSUME NEW e \in Standing(t, d, k + 1)
        PROVE  e = <<e[1], e[2]>> /\ e[1] \in Seq(Names) /\ Len(e[1]) = k + 1 /\ e[2] \in Nodes
    <3>1. PICK q \in Standing(t, d, k), m \in Names :
            /\ e = <<Append(q[1], m), t.entry[q[2]][m]>>
            /\ e[1] = Append(q[1], m) /\ e[2] = t.entry[q[2]][m]
            /\ e[2] \in Nodes /\ q[1] \in Seq(Names) /\ Len(q[1]) = k
      BY <1>1, <2>2, FurtherTypes
    <3>2. Append(q[1], m) \in Seq(Names) /\ Len(Append(q[1], m)) = k + 1
      BY <3>1, OneMore
    <3> QED
      BY <3>1, <3>2
  <2> QED
    BY <2>3 DEF LevelOf
<1>4. Nat \subseteq P
  <2> HIDE DEF P
  <2> QED
    BY <1>2, <1>3, Induction
<1>5. 0 .. d + 1 \subseteq Nat
  OBVIOUS
<1> QED
  BY <1>4, <1>5

LEMMA LevelPlaces ==
  ASSUME NEW t, IsTree(t), t.root \in Nodes, NEW d \in Nat
  PROVE  \A k \in 0 .. d + 1 : OnePlace(t, d, k)
<1>1. Stands(t, d) /\ \A k \in 0 .. d + 1 : LevelOf(t, d, k)
  BY LevelsStand, LevelTypes
<1> DEFINE P == {k \in Nat : k \in 0 .. d + 1 => OnePlace(t, d, k)}
<1>2. 0 \in P
  <2>1. OnePlace(t, d, 0)
    BY <1>1 DEF Stands, OnePlace
  <2> QED
    BY <2>1
<1>3. ASSUME NEW k \in Nat, k \in P
      PROVE  k + 1 \in P
  <2>1. SUFFICES ASSUME k + 1 \in 0 .. d + 1 PROVE OnePlace(t, d, k + 1)
    OBVIOUS
  <2>2. k \in 0 .. d /\ OnePlace(t, d, k) /\ LevelOf(t, d, k)
    BY <1>1, <1>3, <2>1
  <2>3. ASSUME NEW e \in Standing(t, d, k + 1), NEW f \in Standing(t, d, k + 1), e[1] = f[1]
        PROVE  e[2] = f[2]
    <3>1. PICK q \in Standing(t, d, k), m \in Names :
            e[1] = Append(q[1], m) /\ e[2] = t.entry[q[2]][m] /\ q[1] \in Seq(Names)
      BY <1>1, <2>2, FurtherTypes
    <3>2. PICK r \in Standing(t, d, k), x \in Names :
            f[1] = Append(r[1], x) /\ f[2] = t.entry[r[2]][x] /\ r[1] \in Seq(Names)
      BY <1>1, <2>2, FurtherTypes
    <3>3. q[1] = r[1] /\ m = x
      <4>1. \A v, w \in Names : \A s, u \in Seq(Names) : Append(s, v) = Append(u, w) => s = u /\ v = w
        BY AppendInjective
      <4> QED
        BY <2>3, <3>1, <3>2, <4>1
    <3>4. q[2] = r[2]
      BY <2>2, <3>3 DEF OnePlace
    <3> QED
      BY <3>1, <3>2, <3>3, <3>4
  <2> QED
    BY <2>3 DEF OnePlace
<1>4. Nat \subseteq P
  <2> HIDE DEF P
  <2> QED
    BY <1>2, <1>3, Induction
<1>5. 0 .. d + 1 \subseteq Nat
  OBVIOUS
<1> QED
  BY <1>4, <1>5

\* A directory has finitely many entries, so each level is finite.
LEMMA FiniteImage ==
  ASSUME NEW S, IsFiniteSet(S), NEW f, f = [x \in S |-> f[x]], NEW T, \A y \in T : \E x \in S : f[x] = y
  PROVE  IsFiniteSet(T)
<1> DEFINE R == {f[x] : x \in S}
<1>1. f \in Surjection(S, R)
  <2>1. f \in [S -> R]
    OBVIOUS
  <2> QED
    BY <2>1 DEF Surjection
<1>2. IsFiniteSet(R)
  BY <1>1, FS_Surjection
<1>3. T \in SUBSET R
  OBVIOUS
<1> QED
  BY <1>2, <1>3, FS_Subset

LEMMA LevelFinite ==
  ASSUME NEW t, IsTree(t), t.root \in Nodes, NEW d \in Nat
  PROVE  \A k \in 0 .. d + 1 : IsFiniteSet(Standing(t, d, k))
<1>1. Stands(t, d) /\ \A k \in 0 .. d + 1 : LevelOf(t, d, k)
  BY LevelsStand, LevelTypes
<1> DEFINE P == {k \in Nat : k \in 0 .. d + 1 => IsFiniteSet(Standing(t, d, k))}
<1>2. 0 \in P
  <2>1. IsFiniteSet({<<<<>>, t.root>>})
    BY FS_Singleton
  <2> QED
    BY <1>1, <2>1 DEF Stands
<1>3. ASSUME NEW k \in Nat, k \in P
      PROVE  k + 1 \in P
  <2>1. SUFFICES ASSUME k + 1 \in 0 .. d + 1 PROVE IsFiniteSet(Standing(t, d, k + 1))
    OBVIOUS
  <2> DEFINE S == Standing(t, d, k)
  <2> DEFINE Next1(q) == {<<Append(q[1], m), t.entry[q[2]][m]>> : m \in DOMAIN t.entry[q[2]]}
  <2> DEFINE U == {Next1(q) : q \in S}
  <2>2. k \in 0 .. d /\ IsFiniteSet(S) /\ LevelOf(t, d, k)
    BY <1>1, <1>3, <2>1
  <2>3. ASSUME NEW q \in S
        PROVE  IsFiniteSet(Next1(q))
    <3>1. IsFiniteSet(DOMAIN t.entry[q[2]])
      BY <2>2 DEF LevelOf, IsTree
    <3> DEFINE f == [m \in DOMAIN t.entry[q[2]] |-> <<Append(q[1], m), t.entry[q[2]][m]>>]
    <3>2. f = [m \in DOMAIN t.entry[q[2]] |-> f[m]] /\ \A y \in Next1(q) : \E m \in DOMAIN t.entry[q[2]] : f[m] = y
      OBVIOUS
    <3> HIDE DEF f, Next1
    <3> QED
      BY <3>1, <3>2, FiniteImage
  <2>4. IsFiniteSet(U)
    <3> DEFINE f == [q \in S |-> Next1(q)]
    <3>1. f = [q \in S |-> f[q]] /\ \A y \in U : \E q \in S : f[q] = y
      <4> HIDE DEF Next1, S
      <4> QED
        OBVIOUS
    <3> HIDE DEF f, U, S
    <3> QED
      BY <2>2, <3>1, FiniteImage
  <2>5. IsFiniteSet(UNION U)
    <3>1. \A T \in U : IsFiniteSet(T)
      <4> HIDE DEF Next1, S
      <4> QED
        BY <2>3
    <3> HIDE DEF U
    <3> QED
      BY <2>4, <3>1, FS_UNION
  <2>6. Standing(t, d, k + 1) \subseteq UNION U
    <3>1. ASSUME NEW e \in Standing(t, d, k + 1)
          PROVE  e \in UNION U
      <4>1. PICK q \in S : \E m \in DOMAIN t.entry[q[2]] : e = <<Append(q[1], m), t.entry[q[2]][m]>>
        BY <1>1, <2>2, FurtherTypes
      <4>2. e \in Next1(q)
        BY <4>1
      <4> HIDE DEF Next1, S
      <4> QED
        BY <4>2
    <3> QED
      BY <3>1
  <2> HIDE DEF U
  <2> QED
    BY <2>5, <2>6, FS_Subset
<1>4. Nat \subseteq P
  <2> HIDE DEF P
  <2> QED
    BY <1>2, <1>3, Induction
<1>5. 0 .. d + 1 \subseteq Nat
  OBVIOUS
<1> QED
  BY <1>4, <1>5

\* A path strictly below another.
Below(q, p) == Len(q) < Len(p) /\ \A i \in 1 .. Len(q) : p[i] = q[i]

LEMMA BelowLonger ==
  ASSUME NEW p \in Seq(Names), NEW m \in Names, NEW q \in Seq(Names)
  PROVE  /\ Below(p, Append(p, m))
         /\ Below(q, p) => Below(q, Append(p, m)) /\ Append(p, m)[Len(q) + 1] = p[Len(q) + 1]
         /\ Below(q, Append(p, m)) => Below(q, p) \/ q = p
         /\ Below(Append(p, m), q) => Below(p, q) /\ q[Len(p) + 1] = m
         /\ Below(p, q) /\ q[Len(p) + 1] = m => Below(Append(p, m), q) \/ q = Append(p, m)
<1> DEFINE pm == Append(p, m)
<1>1. /\ pm \in Seq(Names) /\ Len(pm) = Len(p) + 1 /\ Len(p) \in Nat /\ Len(q) \in Nat
      /\ pm[Len(p) + 1] = m /\ \A i \in 1 .. Len(p) : pm[i] = p[i]
  BY OneMore, LenProperties
<1> HIDE DEF pm
<1>2. Below(p, pm)
  BY <1>1 DEF Below
<1>3. ASSUME Below(q, p) PROVE Below(q, pm) /\ pm[Len(q) + 1] = p[Len(q) + 1]
  <2>1. Len(q) < Len(pm) /\ Len(q) + 1 \in 1 .. Len(p) /\ \A i \in 1 .. Len(q) : i \in 1 .. Len(p)
    BY <1>1, <1>3 DEF Below
  <2> QED
    BY <1>1, <1>3, <2>1 DEF Below
<1>4. ASSUME Below(q, pm) PROVE Below(q, p) \/ q = p
  <2>1. Len(q) <= Len(p) /\ \A i \in 1 .. Len(q) : i \in 1 .. Len(p) /\ p[i] = q[i]
    BY <1>1, <1>4 DEF Below
  <2>2. CASE Len(q) = Len(p)
    BY <2>1, <2>2, SeqEqual
  <2>3. CASE Len(q) # Len(p)
    BY <1>1, <2>1, <2>3 DEF Below
  <2> QED
    BY <2>2, <2>3
<1>5. ASSUME Below(pm, q) PROVE Below(p, q) /\ q[Len(p) + 1] = m
  <2>1. Len(p) < Len(q) /\ Len(p) + 1 \in 1 .. Len(pm) /\ \A i \in 1 .. Len(p) : i \in 1 .. Len(pm)
    BY <1>1, <1>5 DEF Below
  <2> QED
    BY <1>1, <1>5, <2>1 DEF Below
<1>6. ASSUME Below(p, q), q[Len(p) + 1] = m PROVE Below(pm, q) \/ q = pm
  <2>1. Len(pm) <= Len(q)
    BY <1>1, <1>6 DEF Below
  <2>2. ASSUME NEW i \in 1 .. Len(pm) PROVE q[i] = pm[i]
    <3>1. i \in 1 .. Len(p) \/ i = Len(p) + 1
      BY <1>1
    <3> QED
      BY <1>1, <1>6, <3>1 DEF Below
  <2>3. CASE Len(q) = Len(pm)
    BY <1>1, <2>2, <2>3, SeqEqual
  <2>4. CASE Len(q) # Len(pm)
    BY <1>1, <2>1, <2>2, <2>4 DEF Below
  <2> QED
    BY <2>3, <2>4
<1> QED
  BY <1>2, <1>3, <1>4, <1>5, <1>6 DEF pm

\* Above what stands somewhere is a directory, and the next name is one of its own.
Above(t, d, k) ==
  \A j \in 0 .. k : \A e \in Standing(t, d, k), f \in Standing(t, d, j) :
    Below(f[1], e[1]) => t.type[f[2]] = "dir" /\ e[1][j + 1] \in DOMAIN t.entry[f[2]]

LEMMA LevelAbove ==
  ASSUME NEW t, IsTree(t), t.root \in Nodes, NEW d \in Nat
  PROVE  \A k \in 0 .. d + 1 : Above(t, d, k)
<1>1. Stands(t, d) /\ \A k \in 0 .. d + 1 : LevelOf(t, d, k) /\ OnePlace(t, d, k)
  BY LevelsStand, LevelTypes, LevelPlaces
<1> DEFINE P == {k \in Nat : k \in 0 .. d + 1 => Above(t, d, k)}
<1>2. 0 \in P
  <2>1. ASSUME NEW j \in 0 .. 0, NEW e \in Standing(t, d, 0), NEW f \in Standing(t, d, j)
        PROVE  ~Below(f[1], e[1])
    <3>1. Len(e[1]) = 0 /\ Len(f[1]) = 0
      BY <1>1 DEF LevelOf
    <3> QED
      BY <3>1 DEF Below
  <2> QED
    BY <2>1 DEF Above
<1>3. ASSUME NEW k \in Nat, k \in P
      PROVE  k + 1 \in P
  <2>1. SUFFICES ASSUME k + 1 \in 0 .. d + 1 PROVE Above(t, d, k + 1)
    OBVIOUS
  <2>2. k \in 0 .. d /\ Above(t, d, k) /\ LevelOf(t, d, k) /\ OnePlace(t, d, k)
    BY <1>1, <1>3, <2>1
  <2>3. SUFFICES ASSUME NEW j \in 0 .. k + 1, NEW e \in Standing(t, d, k + 1), NEW f \in Standing(t, d, j),
                        Below(f[1], e[1])
                 PROVE  t.type[f[2]] = "dir" /\ e[1][j + 1] \in DOMAIN t.entry[f[2]]
    BY DEF Above
  <2>4. PICK q \in Standing(t, d, k) : \E m \in DOMAIN t.entry[q[2]] :
           /\ t.type[q[2]] = "dir" /\ e[1] = Append(q[1], m) /\ m \in Names /\ q[1] \in Seq(Names) /\ Len(q[1]) = k
    BY <1>1, <2>2, FurtherTypes
  <2>5. PICK m \in DOMAIN t.entry[q[2]] :
           /\ t.type[q[2]] = "dir" /\ e[1] = Append(q[1], m) /\ m \in Names /\ q[1] \in Seq(Names) /\ Len(q[1]) = k
    BY <2>4
  <2>6. f[1] \in Seq(Names) /\ Len(f[1]) = j
    BY <1>1, <2>1 DEF LevelOf
  <2>7. Below(f[1], q[1]) \/ f[1] = q[1]
    BY <2>3, <2>5, <2>6, BelowLonger
  <2>8. CASE Below(f[1], q[1])
    <3>1. j \in 0 .. k
      BY <2>5, <2>6, <2>8 DEF Below
    <3>2. t.type[f[2]] = "dir" /\ q[1][j + 1] \in DOMAIN t.entry[f[2]]
      BY <2>2, <2>8, <3>1 DEF Above
    <3>3. e[1][j + 1] = q[1][j + 1]
      <4>1. Append(q[1], m)[Len(f[1]) + 1] = q[1][Len(f[1]) + 1]
        BY <2>5, <2>6, <2>8, BelowLonger
      <4> QED
        BY <2>5, <2>6, <4>1
    <3> QED
      BY <3>2, <3>3
  <2>9. CASE f[1] = q[1]
    <3>1. j = k
      BY <2>5, <2>6, <2>9
    <3>2. f[2] = q[2]
      BY <2>2, <2>9, <3>1 DEF OnePlace
    <3>3. e[1][k + 1] = m
      BY <2>5, OneMore
    <3> QED
      BY <2>5, <3>1, <3>2, <3>3
  <2> QED
    BY <2>7, <2>8, <2>9
<1>4. Nat \subseteq P
  <2> HIDE DEF P
  <2> QED
    BY <1>2, <1>3, Induction
<1>5. 0 .. d + 1 \subseteq Nat
  OBVIOUS
<1> QED
  BY <1>4, <1>5

-----------------------------------------------------------------------------
(* What the whole of a directory holds, and what is admissible of it.      *)

Contained(t, d) == UNION {Standing(t, d, k) : k \in 1 .. d + 1}
FilesIn(t, d)   == {f \in Contained(t, d) : t.type[f[2]] = "file"}

SizeOf(t, S) == MapThenSumSet(LAMBDA f : Len(t.data[f[2]]), S)

Fitting(t, lim, e) ==
  /\ Last(e[1]) \notin Unsafe /\ t.type[e[2]] \in {"file", "dir"}
  /\ t.type[e[2]] = "dir" => Len(e[1]) <= lim.depth
  /\ t.type[e[2]] = "file" => Len(t.data[e[2]]) <= lim.fileSize

Fits(t, lim) ==
  /\ t.type[t.root] = "dir"
  /\ Cardinality(Contained(t, lim.depth)) <= lim.entries
  /\ \A e \in Contained(t, lim.depth) : Fitting(t, lim, e)
  /\ Cardinality(FilesIn(t, lim.depth)) <= lim.files
  /\ SizeOf(t, FilesIn(t, lim.depth)) <= lim.total

LEMMA AdmissibleFits ==
  ASSUME tree.root # Nothing
  PROVE  (Admissible(tree) <=> Fits(tree, limits)) /\ Files(tree) = FilesIn(tree, limits.depth)
<1>1. Everything(tree) = Contained(tree, limits.depth)
  BY EverythingStands DEF Contained
<1>2. Files(tree) = FilesIn(tree, limits.depth)
  BY <1>1 DEF Files, FilesIn
<1>3. Admissible(tree) <=>
        /\ tree.type[tree.root] = "dir"
        /\ Cardinality(Everything(tree)) <= limits.entries
        /\ \A e \in Everything(tree) : Fitting(tree, limits, e)
        /\ Cardinality(Files(tree)) <= limits.files
        /\ SizeOf(tree, Files(tree)) <= limits.total
  BY Zenon DEF Admissible, Fitting, SizeOf
<1> QED
  BY <1>1, <1>2, <1>3, Zenon DEF Fits

\* The same after a step that leaves the file system alone.
LEMMA SameJudgement ==
  ASSUME UNCHANGED <<tree, limits>>, tree.root # Nothing
  PROVE  (Admissible(tree)' <=> Admissible(tree)) /\ Files(tree)' = Files(tree)
<1> DEFINE J == tree.root # Nothing =>
                  (Admissible(tree) <=> Fits(tree, limits)) /\ Files(tree) = FilesIn(tree, limits.depth)
<1>1. J
  BY AdmissibleFits
<1>2. J'
  BY AdmissibleFits, PTL
<1> QED
  BY <1>1, <1>2

\* The sizes of the files summed up are those of a function on them.
LEMMA SizeIsSum ==
  ASSUME NEW t, NEW S, NEW m, \A f \in S : m[f] = t.data[f[2]]
  PROVE  SizeOf(t, S) = SumOf(m, S)
<1> DEFINE A(g) == g = [s \in SUBSET S |-> IF s = {} THEN 0 ELSE Len(t.data[Picked(s)[2]]) + g[s \ {Picked(s)}]]
<1>1. SizeOf(t, S) = (CHOOSE g : A(g))[S]
  BY Zenon DEF SizeOf, MapThenSumSet, MapThenFoldSet, Picked
<1>2. SumOf(m, S) = (CHOOSE g : Summing(m, S, g))[S]
  BY SumIsChosen
<1>3. \A g : A(g) <=> Summing(m, S, g)
  <2>1. ASSUME NEW s \in SUBSET S, s # {}
        PROVE  m[Picked(s)] = t.data[Picked(s)[2]]
    BY <2>1 DEF Picked
  <2> QED
    BY <2>1 DEF Summing
<1>4. (CHOOSE g : A(g)) = (CHOOSE g : Summing(m, S, g))
  <2> HIDE DEF A
  <2> QED
    BY <1>3
<1> QED
  BY <1>1, <1>2, <1>4

-----------------------------------------------------------------------------
(* How far an undisturbed walk has got: what it has inspected is all that   *)
(* stands under the bundle's path but what lies ahead of it, below a name   *)
(* not yet returned, or in a directory not yet listed.                      *)

\* Below an open directory's name that was not yet returned.
Awaits(a, p) == Below(a.path, p) /\ p[Len(a.path) + 1] \in a.left

Ahead(p) ==
  \/ \E k \in 1 .. Len(anchors) : Awaits(anchors[k], p)
  \/ step = "scan" /\ Below(Anchor.path, p)
  \/ step = "open-directory" /\ Below(entry.path, p)

Inspected == {e \in Contained(tree, limits.depth) : ~Ahead(e[1])}

\* The files read to their end.
Taken == {e \in Inspected : tree.type[e[2]] = "file" /\ (step \in AtFile => e[1] # entry.path)}

\* The open directories stand below one another, and each where its path leads.
Placed(path, node, k) ==
  /\ <<path, node>> \in Standing(tree, limits.depth, k)
  /\ \A j \in 1 .. k : Below(anchors[j].path, path) /\ path[j] \notin anchors[j].left

PlacesInv ==
  /\ \A k \in 1 .. Len(anchors) : /\ Placed(anchors[k].path, anchors[k].node, k - 1)
                                  /\ anchors[k].left \subseteq DOMAIN tree.entry[anchors[k].node]
  /\ step = "scan" => Anchor.left = {}
  /\ step \in {"open-directory"} \cup AtFile =>
       /\ Placed(entry.path, entry.node, Len(anchors))
       /\ entry.type = tree.type[entry.node]
       /\ entry.type = IF step = "open-directory" THEN "dir" ELSE "file"

\* Every entry inspected was counted once, and may be there.
CountInv ==
  /\ IsFiniteSet(Inspected) /\ Cardinality(Inspected) = entries
  /\ \A e \in Inspected : Fitting(tree, limits, e)

\* The members are the files read, and take as much as these.
TakenInv ==
  /\ DOMAIN members = {e[1] : e \in Taken}
  /\ \A e \in Taken : members[e[1]] = tree.data[e[2]]
  /\ Cardinality(DOMAIN members) = Cardinality(Taken)
  /\ Total = SizeOf(tree, Taken)

\* The file being read is as it was when it was inspected, and fits in what is left.
StillInv ==
  /\ step \in AtFile => Len(tree.data[entry.node]) <= Budget
  /\ step \in {"read", "check"} =>
       reading.size = Len(tree.data[entry.node]) /\ reading.mtime = tree.mtime[entry.node]
  /\ step = "check" => Len(reading.blocks) = Len(tree.data[entry.node])

Looking == TypeOf(tree.root) = "dir" /\ PlacesInv /\ CountInv /\ TakenInv /\ StillInv

QuietInv ==
  Len(trees) = 1 =>
    /\ QuietWalkIsExact
    /\ step \in {"archive", "inspect-archive"} => TypeOf(tree.root) = "file"
    /\ step = "open-root" =>
         entry.path = <<>> /\ entry.node = tree.root /\ entry.type = TypeOf(tree.root)
    /\ step \in Within => Looking

-----------------------------------------------------------------------------
\* What is known of a directory as it stands.
Standard(t, d) ==
  /\ d \in Nat /\ IsTree(t) /\ t.root \in Nodes /\ Stands(t, d)
  /\ \A k \in 0 .. d + 1 : LevelOf(t, d, k) /\ OnePlace(t, d, k) /\ Above(t, d, k)
  /\ IsFiniteSet(Contained(t, d))

LEMMA DirectoryStands ==
  ASSUME FilesInv, TypeOf(tree.root) = "dir"
  PROVE  Standard(tree, limits.depth) /\ tree.root # Nothing /\ tree.type[tree.root] = "dir"
<1> DEFINE d == limits.depth
<1>1. d \in Nat /\ IsTree(tree)
  BY DEF FilesInv, Limits
<1>2. tree.root \in Nodes /\ tree.root # Nothing /\ tree.type[tree.root] = "dir"
  BY <1>1 DEF TypeOf, IsTree
<1> HIDE DEF d
<1>3. Stands(tree, d) /\ \A k \in 0 .. d + 1 : LevelOf(tree, d, k) /\ OnePlace(tree, d, k) /\ Above(tree, d, k)
  BY <1>1, <1>2, LevelsStand, LevelTypes, LevelPlaces, LevelAbove
<1>4. IsFiniteSet(Contained(tree, d))
  <2> DEFINE I == 1 .. d + 1
  <2> DEFINE f == [k \in I |-> Standing(tree, d, k)]
  <2> DEFINE U == {Standing(tree, d, k) : k \in I}
  <2>1. IsFiniteSet(I)
    BY <1>1, FS_Interval
  <2>2. f = [k \in I |-> f[k]] /\ \A y \in U : \E k \in I : f[k] = y
    OBVIOUS
  <2>3. IsFiniteSet(U)
    <3> HIDE DEF f, U, I
    <3> QED
      BY <2>1, <2>2, FiniteImage
  <2>4. \A T \in U : IsFiniteSet(T)
    <3>1. \A k \in 0 .. d + 1 : IsFiniteSet(Standing(tree, d, k))
      BY <1>1, <1>2, LevelFinite
    <3> QED
      BY <1>1, <3>1
  <2>5. IsFiniteSet(UNION U)
    <3> HIDE DEF U
    <3> QED
      BY <2>3, <2>4, FS_UNION
  <2> QED
    BY <2>5 DEF Contained
<1> QED
  BY <1>1, <1>2, <1>3, <1>4 DEF Standard, d

LEMMA ContainedIs ==
  ASSUME NEW t, NEW d, Standard(t, d), NEW e \in Contained(t, d)
  PROVE  /\ e = <<e[1], e[2]>> /\ e[1] \in Seq(Names) /\ e[2] \in Nodes
         /\ Len(e[1]) \in 1 .. d + 1 /\ e \in Standing(t, d, Len(e[1]))
<1>1. PICK k \in 1 .. d + 1 : e \in Standing(t, d, k)
  BY DEF Contained
<1>2. k \in 0 .. d + 1
  BY DEF Standard
<1> QED
  BY <1>1, <1>2 DEF Standard, LevelOf

LEMMA ContainedOnce ==
  ASSUME NEW t, NEW d, Standard(t, d), NEW e \in Contained(t, d), NEW f \in Contained(t, d), e[1] = f[1]
  PROVE  e = f
<1>1. /\ e = <<e[1], e[2]>> /\ f = <<f[1], f[2]>> /\ Len(e[1]) \in 1 .. d + 1
      /\ e \in Standing(t, d, Len(e[1])) /\ f \in Standing(t, d, Len(e[1]))
  BY ContainedIs
<1>2. Len(e[1]) \in 0 .. d + 1
  BY <1>1 DEF Standard
<1>3. e[2] = f[2]
  BY <1>1, <1>2 DEF Standard, OnePlace
<1> QED
  BY <1>1, <1>3

LEMMA ContainedBelow ==
  ASSUME NEW t, NEW d, Standard(t, d), NEW e \in Contained(t, d),
         NEW k \in 0 .. d + 1, NEW path, NEW node, <<path, node>> \in Standing(t, d, k), Below(path, e[1])
  PROVE  t.type[node] = "dir" /\ e[1][k + 1] \in DOMAIN t.entry[node] /\ Len(path) = k /\ path \in Seq(Names)
<1> DEFINE f == <<path, node>>
<1>1. f[1] = path /\ f[2] = node /\ f \in Standing(t, d, k)
  OBVIOUS
<1> HIDE DEF f
<1>2. Len(path) = k /\ path \in Seq(Names)
  BY <1>1 DEF Standard, LevelOf
<1>3. /\ e[1] \in Seq(Names) /\ Len(e[1]) \in 1 .. d + 1 /\ e \in Standing(t, d, Len(e[1]))
  BY ContainedIs
<1>4. d \in Nat /\ Len(e[1]) \in 0 .. d + 1 /\ k \in 0 .. Len(e[1])
  BY <1>2, <1>3 DEF Below, Standard
<1>5. Above(t, d, Len(e[1]))
  BY <1>4 DEF Standard
<1>6. t.type[f[2]] = "dir" /\ e[1][k + 1] \in DOMAIN t.entry[f[2]]
  BY <1>1, <1>3, <1>4, <1>5 DEF Above
<1> QED
  BY <1>1, <1>2, <1>6

\* A name of a directory that stands leads to something that stands.
LEMMA ContainedNext ==
  ASSUME NEW t, NEW d, Standard(t, d), NEW k \in 0 .. d, NEW path, NEW node,
         <<path, node>> \in Standing(t, d, k), t.type[node] = "dir", NEW m \in DOMAIN t.entry[node]
  PROVE  /\ <<Append(path, m), t.entry[node][m]>> \in Contained(t, d) /\ m \in Names
         /\ <<Append(path, m), t.entry[node][m]>> \in Standing(t, d, k + 1)
         /\ path \in Seq(Names) /\ Len(path) = k
<1> DEFINE f == <<path, node>>
<1>1. f[1] = path /\ f[2] = node /\ f \in Standing(t, d, k)
  OBVIOUS
<1> HIDE DEF f
<1>2. d \in Nat /\ k \in 0 .. d + 1 /\ k + 1 \in 1 .. d + 1
  BY DEF Standard
<1>3. Len(path) = k /\ path \in Seq(Names) /\ node \in Nodes
  BY <1>1, <1>2 DEF Standard, LevelOf
<1>4. <<Append(path, m), t.entry[node][m]>> \in Further(t, Standing(t, d, k))
  BY FurtherOn
<1>5. <<Append(path, m), t.entry[node][m]>> \in Standing(t, d, k + 1)
  BY <1>4 DEF Standard, Stands
<1>6. m \in Names
  BY <1>3 DEF Standard, IsTree
<1> QED
  BY <1>2, <1>3, <1>5, <1>6 DEF Contained

LEMMA NoDirectory == TypeOf(tree.root) # "dir" => ~Admissible(tree)
<1>1. Admissible(tree) => tree.root # Nothing /\ tree.type[tree.root] = "dir"
  BY Zenon DEF Admissible
<1> QED
  BY <1>1 DEF TypeOf

LEMMA StillThere == UNCHANGED fileVars => (Admissible(tree)' <=> Admissible(tree))
<1> SUFFICES ASSUME UNCHANGED fileVars PROVE Admissible(tree)' <=> Admissible(tree)
  OBVIOUS
<1>1. UNCHANGED <<tree, limits>>
  BY DEF fileVars
<1>2. CASE tree.root # Nothing
  BY <1>1, <1>2, SameJudgement
<1>3. CASE tree.root = Nothing
  <2>1. ~Admissible(tree)
    BY <1>3, Zenon DEF Admissible
  <2>2. ~Admissible(tree)'
    BY <1>1, <1>3, Zenon DEF Admissible
  <2> QED
    BY <2>1, <2>2
<1> QED
  BY <1>2, <1>3

\* A refusal is right if the directory was not admissible.
LEMMA QuietRefusal ==
  ASSUME UNCHANGED fileVars, step' = "refused", ~Admissible(tree)
  PROVE  QuietInv'
<1>1. ~Admissible(tree)'
  BY StillThere
<1>2. QuietWalkIsExact'
  BY <1>1, Zenon DEF QuietWalkIsExact
<1>3. step' \notin Within
  BY DEF Within
<1> QED
  BY <1>2, <1>3 DEF QuietInv

\* While it goes on, nothing is said of how it ends.
LEMMA QuietGoesOn ==
  ASSUME step' \notin {"refused", "loaded", "archive", "inspect-archive", "open-root"},
         step' \in Within => Looking'
  PROVE  QuietInv'
<1>1. QuietWalkIsExact'
  BY Zenon DEF QuietWalkIsExact
<1> QED
  BY <1>1 DEF QuietInv

LEMMA QuietInit == (BundleInit \/ BundleIdle) => QuietInv
<1> SUFFICES ASSUME BundleInit \/ BundleIdle PROVE QuietInv
  OBVIOUS
<1>1. step \in {"start", "idle"}
  BY DEF BundleInit, BundleIdle, WalkInit, WalkIdle
<1>2. step \notin Within
  BY <1>1 DEF Within
<1>3. QuietWalkIsExact
  BY <1>1, Zenon DEF QuietWalkIsExact
<1> QED
  BY <1>1, <1>2, <1>3 DEF QuietInv

LEMMA QuietStays ==
  ASSUME QuietInv, UNCHANGED fileVars, UNCHANGED walkVars
  PROVE  QuietInv'
<1>1. UNCHANGED <<limits, disturbed, tree, trees, step, anchors, entry, reading, entries, members>>
  BY DEF fileVars, walkVars
<1>2. Len(trees') = Len(trees)
  BY <1>1
<1>3. SUFFICES ASSUME Len(trees) = 1 PROVE QuietInv'
  BY <1>2 DEF QuietInv
<1>4. QuietWalkIsExact'
  <2>1. QuietWalkIsExact
    BY <1>3 DEF QuietInv
  <2>2. Admissible(tree)' <=> Admissible(tree)
    BY StillThere
  <2>3. tree.type[tree.root] = "dir" /\ step = "loaded" => Files(tree)' = Files(tree) \/ ~Admissible(tree)
    <3>1. tree.root # Nothing => Files(tree)' = Files(tree)
      BY <1>1, SameJudgement
    <3>2. tree.root = Nothing => ~Admissible(tree)
      BY Zenon DEF Admissible
    <3> QED
      BY <3>1, <3>2
  <2>4. step = "refused" => ~Admissible(tree)
    BY <1>3, <2>1, Zenon DEF QuietWalkIsExact
  <2>5. step = "loaded" /\ tree.type[tree.root] = "dir" =>
          /\ Admissible(tree)
          /\ {<<p, members[p]>> : p \in DOMAIN members} = {<<f[1], tree.data[f[2]]>> : f \in Files(tree)}
    BY <1>3, <2>1, Zenon DEF QuietWalkIsExact
  <2>6. step' = "refused" => ~Admissible(tree)'
    BY <1>1, <2>2, <2>4
  <2>7. step' = "loaded" /\ tree'.type[tree'.root] = "dir" =>
          /\ Admissible(tree)'
          /\ {<<p, members'[p]>> : p \in DOMAIN members'} = {<<f[1], tree'.data[f[2]]>> : f \in Files(tree)'}
    BY <1>1, <2>2, <2>3, <2>5
  <2> QED
    BY <2>6, <2>7, Zenon DEF QuietWalkIsExact
<1>5. Looking => Looking'
  <2> SUFFICES ASSUME Looking PROVE Looking'
    OBVIOUS
  <2>1. TypeOf(tree.root)' = TypeOf(tree.root) /\ Total' = Total /\ Budget' = Budget
    BY <1>1, SameBudget DEF TypeOf
  <2>2. \A p : Ahead(p)' <=> Ahead(p)
    BY <1>1 DEF Ahead, Anchor
  <2>3. Inspected' = Inspected
    BY <1>1, <2>2 DEF Inspected
  <2>4. Taken' = Taken
    BY <1>1, <2>3 DEF Taken
  <2>5. PlacesInv'
    BY <1>1 DEF Looking, PlacesInv, Placed, Anchor
  <2>6. CountInv'
    BY <1>1, <2>3 DEF Looking, CountInv
  <2>7. TakenInv'
    BY <1>1, <2>1, <2>4 DEF Looking, TakenInv
  <2>8. StillInv'
    BY <1>1, <2>1 DEF Looking, StillInv
  <2> QED
    BY <2>1, <2>5, <2>6, <2>7, <2>8 DEF Looking
<1>6. TypeOf(tree.root)' = TypeOf(tree.root)
  BY <1>1 DEF TypeOf
<1> QED
  BY <1>1, <1>3, <1>4, <1>5, <1>6 DEF QuietInv

LEMMA QuietEdit ==
  ASSUME WalkInv, EditStep
  PROVE  QuietInv'
<1>1. /\ IsTree(tree) /\ FilesKnown(tree) /\ trees \in Seq(Range(trees)) /\ Len(trees) > 0
      /\ \A i \in DOMAIN trees : IsTree(trees[i])
  BY DEF WalkInv, FilesInv
<1>2. Len(trees) \in Nat
  BY <1>1, OneMoreInSeq
<1>3. trees' = Append(trees, tree')
  BY <1>1, <1>2, EditFacts
<1>4. Len(trees') = Len(trees) + 1
  BY <1>1, <1>3, OneMoreInSeq
<1>5. Len(trees') # 1
  BY <1>1, <1>2, <1>4
<1> QED
  BY <1>5 DEF QuietInv

LEMMA QuietArchive ==
  ASSUME WalkInv, QuietInv, UNCHANGED fileVars,
         RecogniseArchive \/ NothingThere \/ CaptureArchive \/ InspectArchive
  PROVE  QuietInv'
<1>1. Len(trees') = Len(trees) /\ UNCHANGED <<tree, trees, limits>>
  BY DEF fileVars
<1>2. SUFFICES ASSUME Len(trees) = 1 PROVE QuietInv'
  BY <1>1 DEF QuietInv
<1>3. TypeOf(tree.root) # "dir"
  BY <1>2 DEF RecogniseArchive, NothingThere, CaptureArchive, InspectArchive, QuietInv
<1>4. step' = "refused" \/ (step' \in {"archive", "inspect-archive", "loaded"} /\ TypeOf(tree.root) = "file")
  BY <1>2 DEF RecogniseArchive, NothingThere, CaptureArchive, InspectArchive, QuietInv
<1>5. CASE step' = "refused"
  BY <1>3, <1>5, NoDirectory, QuietRefusal
<1>6. CASE step' \in {"archive", "inspect-archive", "loaded"} /\ TypeOf(tree.root) = "file"
  <2>1. tree'.type[tree'.root] # "dir" /\ TypeOf(tree.root)' = "file"
    BY <1>1, <1>6 DEF TypeOf
  <2>2. step' # "refused" /\ step' # "open-root" /\ step' \notin Within
    BY <1>6 DEF Within
  <2>3. QuietWalkIsExact'
    BY <2>1, <2>2, Zenon DEF QuietWalkIsExact
  <2> QED
    BY <2>1, <2>2, <2>3 DEF QuietInv
<1> QED
  BY <1>4, <1>5, <1>6

LEMMA QuietBeginning ==
  ASSUME WalkInv, QuietInv, UNCHANGED fileVars, RecogniseDirectory \/ InspectRoot
  PROVE  QuietInv'
<1>1. CASE RecogniseDirectory
  <2>1. step' = "root"
    BY <1>1 DEF RecogniseDirectory
  <2> QED
    BY <2>1, QuietGoesOn DEF Within
<1>2. CASE InspectRoot /\ Refuse
  <2>1. TypeOf(tree.root) # "dir" \/ step' = "open-root"
    BY <1>2 DEF InspectRoot
  <2>2. step' = "refused"
    BY <1>2 DEF Refuse
  <2> QED
    BY <2>1, <2>2, NoDirectory, QuietRefusal
<1>3. CASE InspectRoot /\ ~Refuse
  <2>1. /\ step' = "open-root" /\ entry' = [path |-> <<>>, node |-> tree.root, type |-> TypeOf(tree.root)]
        /\ UNCHANGED tree
    BY <1>3 DEF InspectRoot, fileVars
  <2>2. entry'.path = <<>> /\ entry'.node = tree'.root /\ entry'.type = TypeOf(tree.root)'
    BY <2>1 DEF TypeOf
  <2>3. step' \notin Within
    BY <2>1 DEF Within
  <2>4. QuietWalkIsExact'
    BY <2>1, Zenon DEF QuietWalkIsExact
  <2> QED
    BY <2>1, <2>2, <2>3, <2>4 DEF QuietInv
<1> QED
  BY <1>1, <1>2, <1>3

\* The sum over nothing.
LEMMA SizeOfNothing == \A t : SizeOf(t, {}) = 0
<1> TAKE t
<1>1. SizeOf(t, {}) = SumOf(<<>>, {})
  BY SizeIsSum
<1>2. IsFiniteSet({}) /\ \A p \in {} : Len((<<>>)[p]) \in Nat
  BY FS_EmptySet
<1>3. SumOf(<<>>, {}) = 0
  BY <1>2, SumSplit
<1> QED
  BY <1>1, <1>3

LEMMA QuietOpenRoot ==
  ASSUME WalkInv, QuietInv, UNCHANGED fileVars, OpenRoot, Len(trees) = 1
  PROVE  QuietInv'
<1>1. /\ step = "open-root" /\ entry.path = <<>> /\ entry.node = tree.root /\ entry.type = TypeOf(tree.root)
      /\ UNCHANGED <<tree, trees, limits>>
  BY DEF OpenRoot, QuietInv, fileVars
<1>2. CASE Refuse /\ TypeOf(tree.root) # "dir"
  <2>1. step' = "refused"
    BY <1>2 DEF Refuse
  <2> QED
    BY <1>2, <2>1, NoDirectory, QuietRefusal
<1>3. CASE ~(Refuse /\ TypeOf(tree.root) # "dir")
  <2> DEFINE a == [node |-> tree.root, path |-> <<>>, left |-> {}]
  <2>1. /\ TypeOf(tree.root) = "dir" /\ step' = "scan" /\ UNCHANGED <<entries, members>>
        /\ anchors' = Append(anchors, a)
    BY <1>1, <1>3 DEF OpenRoot, OpenDirectory, Same
  <2>2. anchors = <<>> /\ entries = 0 /\ members = <<>>
    BY <1>1 DEF WalkInv, AnchorsInv, MembersInv, Outside
  <2>3. anchors' = <<a>> /\ Len(anchors') = 1 /\ anchors'[1] = a
    BY <2>1, <2>2
  <2>4. a.path = <<>> /\ a.node = tree.root /\ a.left = {} /\ Len(<<>>) = 0
    OBVIOUS
  <2> HIDE DEF a
  <2>5. Anchor' = a
    BY <2>3 DEF Anchor, Last
  <2>6. Standard(tree, limits.depth) /\ tree.root # Nothing /\ tree.type[tree.root] = "dir"
    BY <2>1, DirectoryStands DEF WalkInv
  <2>7. PlacesInv'
    <3>1. <<a.path, a.node>> \in Standing(tree, limits.depth, 0)
      BY <2>4, <2>6 DEF Standard, Stands
    <3>2. \A k \in 1 .. Len(anchors') : k = 1 /\ k - 1 = 0
      BY <2>3
    <3>3. \A j \in 1 .. 0 : FALSE
      OBVIOUS
    <3>4. step' \notin {"open-directory"} \cup AtFile
      BY <2>1 DEF AtFile
    <3>5. \A k \in 1 .. Len(anchors') :
            /\ Placed(anchors[k].path, anchors[k].node, k - 1)'
            /\ anchors'[k].left \subseteq DOMAIN tree'.entry[anchors'[k].node]
      BY <1>1, <2>3, <2>4, <3>1, <3>2, <3>3 DEF Placed
    <3> QED
      BY <2>4, <2>5, <3>4, <3>5 DEF PlacesInv
  <2>8. Inspected' = {}
    <3>1. ASSUME NEW e \in Contained(tree, limits.depth)
          PROVE  Ahead(e[1])'
      <4>1. e[1] \in Seq(Names) /\ Len(e[1]) \in 1 .. limits.depth + 1
        BY <2>6, ContainedIs
      <4>2. Below(a.path, e[1])
        BY <2>4, <4>1 DEF Below
      <4> QED
        BY <2>1, <2>5, <4>2 DEF Ahead
    <3> QED
      BY <1>1, <3>1 DEF Inspected
  <2>9. Taken' = {}
    BY <2>8 DEF Taken
  <2>10. CountInv'
    BY <2>1, <2>2, <2>8, FS_EmptySet DEF CountInv
  <2>11. TakenInv'
    <3>1. DOMAIN members' = {} /\ DOMAIN members = {}
      BY <2>1, <2>2
    <3>2. Total' = 0
      BY <2>1, <2>2, NothingYet, SameBudget, <1>1
    <3>3. SizeOf(tree, Taken)' = 0
      BY <2>9, SizeOfNothing
    <3> QED
      BY <2>9, <3>1, <3>2, <3>3 DEF TakenInv
  <2>12. StillInv'
    BY <2>1 DEF StillInv, AtFile
  <2>13. TypeOf(tree.root)' = "dir"
    BY <1>1, <2>1 DEF TypeOf
  <2>14. Looking'
    BY <2>7, <2>10, <2>11, <2>12, <2>13 DEF Looking
  <2> QED
    BY <2>1, <2>14, QuietGoesOn
<1> QED
  BY <1>2, <1>3

\* Where an undisturbed walk is.
LEMMA QuietWithin ==
  ASSUME WalkInv, QuietInv, Len(trees) = 1, step \in Within
  PROVE  /\ Looking /\ Standard(tree, limits.depth) /\ TypeOf(tree.root) = "dir"
         /\ Len(anchors) \in 1 .. limits.depth + 1 /\ limits.depth \in Nat
         /\ Anchor = anchors[Len(anchors)] /\ Anchor.path \in Seq(Names) /\ Len(Anchor.path) = Len(anchors) - 1
         /\ tree.type[Anchor.node] = "dir" /\ Anchor.left \subseteq DOMAIN tree.entry[Anchor.node]
         /\ <<Anchor.path, Anchor.node>> \in Standing(tree, limits.depth, Len(anchors) - 1)
         /\ \A k \in 1 .. Len(anchors) : anchors[k].path \in Seq(Names) /\ Len(anchors[k].path) = k - 1
<1>1. Looking /\ TypeOf(tree.root) = "dir"
  BY DEF QuietInv, Looking
<1>2. Standard(tree, limits.depth)
  BY <1>1, DirectoryStands DEF WalkInv
<1>3. Len(anchors) > 0 /\ Len(anchors) <= limits.depth + 1 /\ anchors \in Seq(OpenDirectories)
  BY DEF WalkInv, AnchorsInv
<1>4. /\ Anchor = anchors[Len(anchors)] /\ Anchor.path \in Seq(Names) /\ Len(Anchor.path) = Len(anchors) - 1
      /\ tree.type[Anchor.node] = "dir" /\ Len(anchors) \in Nat
  BY <1>3, TopAnchor
<1>5. limits.depth \in Nat
  BY <1>2 DEF Standard
<1>6. Len(anchors) \in 1 .. limits.depth + 1 /\ Len(anchors) \in 1 .. Len(anchors)
  BY <1>3, <1>4, <1>5
<1>7. /\ Anchor.left \subseteq DOMAIN tree.entry[Anchor.node]
      /\ <<Anchor.path, Anchor.node>> \in Standing(tree, limits.depth, Len(anchors) - 1)
  BY <1>1, <1>4, <1>6 DEF Looking, PlacesInv, Placed
<1>8. ASSUME NEW k \in 1 .. Len(anchors)
      PROVE  anchors[k].path \in Seq(Names) /\ Len(anchors[k].path) = k - 1
  <2>1. anchors[k] \in OpenDirectories
    BY <1>3, <1>4, ElementOfSeq
  <2>2. Len(anchors[k].path) = k - 1
    BY DEF WalkInv, AnchorsInv
  <2> QED
    BY <2>1, <2>2 DEF OpenDirectories
<1> QED
  BY <1>1, <1>2, <1>4, <1>5, <1>6, <1>7, <1>8

\* A step that inspects nothing and accepts nothing.
LEMMA QuietKeeps ==
  ASSUME UNCHANGED <<tree, limits, entries, members>>, CountInv, TakenInv,
         \A e \in Contained(tree, limits.depth) : Ahead(e[1])' <=> Ahead(e[1]),
         \A e \in Inspected : (step' \in AtFile => e[1] # entry'.path) <=> (step \in AtFile => e[1] # entry.path)
  PROVE  CountInv' /\ TakenInv'
<1>1. Inspected' = Inspected
  BY DEF Inspected
<1>2. Taken' = Taken
  BY <1>1 DEF Taken
<1>3. Total' = Total
  BY SameBudget
<1> QED
  BY <1>1, <1>2, <1>3 DEF CountInv, TakenInv

\* The names of the open directory change, and nothing else of the anchors.
Relisted(left) ==
  /\ Len(anchors') = Len(anchors)
  /\ \A k \in 1 .. Len(anchors) - 1 : anchors'[k] = anchors[k]
  /\ \A k \in 1 .. Len(anchors) : anchors'[k].node = anchors[k].node /\ anchors'[k].path = anchors[k].path
  /\ anchors'[Len(anchors)].left = left

LEMMA LeftIsRelisted ==
  ASSUME AnchorsInv, Len(anchors) > 0, NEW left \in SUBSET Names,
         anchors' = [anchors EXCEPT ![Len(anchors)].left = left]
  PROVE  Relisted(left)
<1>1. /\ Len(anchors') = Len(anchors) /\ Len(anchors) \in Nat
      /\ \A k \in 1 .. Len(anchors) : anchors'[k].node = anchors[k].node /\ anchors'[k].path = anchors[k].path
  BY LeftChanges
<1>2. anchors \in Seq(OpenDirectories)
  BY DEF AnchorsInv
<1>3. anchors \in [1 .. Len(anchors) -> OpenDirectories]
  BY <1>2, LenProperties
<1>4. \A k \in 1 .. Len(anchors) - 1 : k \in 1 .. Len(anchors) /\ k # Len(anchors)
  BY <1>1
<1>5. \A k \in 1 .. Len(anchors) - 1 : anchors'[k] = anchors[k]
  BY <1>3, <1>4
<1>6. anchors'[Len(anchors)].left = left
  <2>1. Len(anchors) \in 1 .. Len(anchors)
    BY <1>1
  <2>2. anchors[Len(anchors)] \in OpenDirectories
    BY <1>3, <2>1
  <2>3. "left" \in DOMAIN anchors[Len(anchors)]
    BY <2>2 DEF OpenDirectories
  <2> QED
    BY <1>3, <2>1, <2>3
<1> QED
  BY <1>1, <1>5, <1>6 DEF Relisted

\* Where the open directories stand does not depend on the last one's names.
LEMMA RelistedPlaces ==
  ASSUME WalkInv, QuietInv, Len(trees) = 1, step \in Within, UNCHANGED fileVars,
         NEW left, Relisted(left), left \subseteq DOMAIN tree.entry[Anchor.node]
  PROVE  \A k \in 1 .. Len(anchors') : /\ Placed(anchors[k].path, anchors[k].node, k - 1)'
                                       /\ anchors'[k].left \subseteq DOMAIN tree'.entry[anchors'[k].node]
<1>1. /\ PlacesInv /\ Len(anchors) \in Nat /\ Len(anchors) >= 1 /\ Anchor = anchors[Len(anchors)]
      /\ UNCHANGED <<tree, limits>>
  BY QuietWithin DEF Looking, fileVars
<1>2. SUFFICES ASSUME NEW k \in 1 .. Len(anchors)
               PROVE  /\ Placed(anchors[k].path, anchors[k].node, k - 1)'
                      /\ anchors'[k].left \subseteq DOMAIN tree'.entry[anchors'[k].node]
  BY DEF Relisted
<1>3. Placed(anchors[k].path, anchors[k].node, k - 1) /\ anchors[k].left \subseteq DOMAIN tree.entry[anchors[k].node]
  BY <1>1 DEF PlacesInv
<1>4. anchors'[k].path = anchors[k].path /\ anchors'[k].node = anchors[k].node
  BY DEF Relisted
<1>5. ASSUME NEW j \in 1 .. k - 1
      PROVE  anchors'[j] = anchors[j]
  <2>1. j \in 1 .. Len(anchors) - 1
    BY <1>1
  <2> QED
    BY <2>1 DEF Relisted
<1>6. Placed(anchors[k].path, anchors[k].node, k - 1)'
  BY <1>1, <1>3, <1>4, <1>5 DEF Placed
<1>7. anchors'[k].left \subseteq DOMAIN tree'.entry[anchors'[k].node]
  <2>1. CASE k = Len(anchors)
    BY <1>1, <1>4, <2>1 DEF Relisted
  <2>2. CASE k # Len(anchors)
    <3>1. k \in 1 .. Len(anchors) - 1
      BY <1>1, <2>2
    <3>2. anchors'[k] = anchors[k]
      BY <3>1 DEF Relisted
    <3> QED
      BY <1>1, <1>3, <3>2
  <2> QED
    BY <2>1, <2>2
<1> QED
  BY <1>6, <1>7

LEMMA QuietScan ==
  ASSUME WalkInv, QuietInv, UNCHANGED fileVars, Scan, Len(trees) = 1
  PROVE  QuietInv'
<1>1. /\ step = "scan" /\ step' = "next" /\ step \in Within
      /\ anchors' = [anchors EXCEPT ![Len(anchors)].left = DOMAIN tree.entry[Anchor.node]]
      /\ UNCHANGED <<reading, entries, members, limits, tree, trees>>
  BY DEF Scan, fileVars, Within
<1> DEFINE n == Len(anchors)
<1> DEFINE left == DOMAIN tree.entry[Anchor.node]
<1>2. /\ Looking /\ Standard(tree, limits.depth) /\ TypeOf(tree.root) = "dir" /\ n \in 1 .. limits.depth + 1
      /\ limits.depth \in Nat /\ Anchor = anchors[n] /\ Len(Anchor.path) = n - 1
      /\ <<Anchor.path, Anchor.node>> \in Standing(tree, limits.depth, n - 1)
  BY <1>1, QuietWithin
<1>3. Relisted(left)
  <2>1. Anchor.node \in Nodes
    BY <1>1, <1>2, TopAnchor
  <2>2. left \in SUBSET Names
    BY <2>1 DEF WalkInv, FilesInv, IsTree
  <2>3. AnchorsInv /\ n > 0
    BY <1>2 DEF WalkInv
  <2> QED
    BY <1>1, <2>2, <2>3, LeftIsRelisted
<1> HIDE DEF n, left
<1>4. \A k \in 1 .. Len(anchors') : /\ Placed(anchors[k].path, anchors[k].node, k - 1)'
                                    /\ anchors'[k].left \subseteq DOMAIN tree'.entry[anchors'[k].node]
  BY <1>1, <1>3, RelistedPlaces DEF left
<1>5. PlacesInv'
  <2>1. step' \notin {"open-directory"} \cup AtFile /\ step' # "scan"
    BY <1>1 DEF AtFile
  <2> QED
    BY <1>4, <2>1 DEF PlacesInv
<1>6. ASSUME NEW e \in Contained(tree, limits.depth)
      PROVE  Ahead(e[1])' <=> Ahead(e[1])
  <2> DEFINE p == e[1]
  <2>1. \A k \in 1 .. n - 1 : Awaits(anchors'[k], p) <=> Awaits(anchors[k], p)
    BY <1>3 DEF Relisted, n
  <2>2. ~Awaits(anchors[n], p)
    BY <1>1, <1>2 DEF Awaits, Looking, PlacesInv
  <2>3. Awaits(anchors'[n], p) <=> Below(Anchor.path, p)
    <3>1. anchors'[n].path = Anchor.path /\ anchors'[n].left = left
      BY <1>2, <1>3 DEF Relisted, n
    <3>2. ASSUME Below(Anchor.path, p)
          PROVE  p[Len(Anchor.path) + 1] \in left
      <4>1. n - 1 \in 0 .. limits.depth + 1 /\ Len(Anchor.path) = n - 1 /\ (n - 1) + 1 = Len(Anchor.path) + 1
        BY <1>2
      <4> QED
        BY <1>2, <3>2, <4>1, ContainedBelow DEF left
    <3> QED
      BY <3>1, <3>2 DEF Awaits
  <2>4. \A k \in 1 .. n : k \in 1 .. n - 1 \/ k = n
    BY <1>2
  <2>5. \A k \in 1 .. n - 1 : k \in 1 .. n
    BY <1>2
  <2>6. n \in 1 .. n
    BY <1>2
  <2>7. Len(anchors') = n
    BY <1>3 DEF Relisted, n
  <2>8. Ahead(p)' <=> \E k \in 1 .. n : Awaits(anchors'[k], p)
    BY <1>1, <2>7 DEF Ahead
  <2>9. Ahead(p) <=> (\E k \in 1 .. n : Awaits(anchors[k], p)) \/ Below(Anchor.path, p)
    BY <1>1 DEF Ahead, n
  <2> HIDE DEF p
  <2>10. Ahead(p)' <=> Ahead(p)
    BY <2>1, <2>2, <2>3, <2>4, <2>5, <2>6, <2>8, <2>9
  <2> QED
    BY <2>10 DEF p
<1>7. CountInv' /\ TakenInv'
  <2>1. step \notin AtFile /\ step' \notin AtFile
    BY <1>1 DEF AtFile
  <2> QED
    BY <1>1, <1>2, <1>6, <2>1, QuietKeeps DEF Looking
<1>8. StillInv' /\ TypeOf(tree.root)' = "dir"
  BY <1>1, <1>2 DEF StillInv, AtFile, TypeOf
<1> QED
  BY <1>1, <1>5, <1>7, <1>8, QuietGoesOn DEF Looking

\* What is under inspection is found again.
LEMMA EntryFound ==
  ASSUME WalkInv, QuietInv, Len(trees) = 1, step \in {"open-directory"} \cup AtFile
  PROVE  /\ Found(Last(entry.path)) = entry.node /\ entry.node \in Nodes /\ entry.type = tree.type[entry.node]
         /\ TypeOf(entry.node) = entry.type /\ Same(entry.node)
         /\ entry.type = IF step = "open-directory" THEN "dir" ELSE "file"
         /\ <<entry.path, entry.node>> \in Contained(tree, limits.depth)
         /\ ~\E k \in 1 .. Len(anchors) : Awaits(anchors[k], entry.path)
<1> DEFINE n == Len(anchors)
<1> DEFINE e == <<entry.path, entry.node>>
<1> DEFINE m == entry.path[n]
<1>1. step \in Within
  BY DEF Within, AtFile
<1>2. /\ Looking /\ Standard(tree, limits.depth) /\ n \in 1 .. limits.depth + 1
      /\ limits.depth \in Nat /\ Anchor = anchors[n] /\ Len(Anchor.path) = n - 1 /\ Anchor.path \in Seq(Names)
      /\ <<Anchor.path, Anchor.node>> \in Standing(tree, limits.depth, n - 1)
      /\ \A k \in 1 .. n : anchors[k].path \in Seq(Names) /\ Len(anchors[k].path) = k - 1
  BY <1>1, QuietWithin
<1>3. /\ Placed(entry.path, entry.node, n) /\ entry.type = tree.type[entry.node]
      /\ entry.type = IF step = "open-directory" THEN "dir" ELSE "file"
  BY <1>2 DEF Looking, PlacesInv
<1>4. entry.path \in Seq(Names) /\ Len(entry.path) = n /\ entry.node \in Nodes
  BY DEF WalkInv, EntryInv
<1>5. e[1] = entry.path /\ e[2] = entry.node
  OBVIOUS
<1> HIDE DEF n, e, m
<1>6. e \in Contained(tree, limits.depth)
  BY <1>2, <1>3 DEF Contained, Placed, e
<1>7. Below(Anchor.path, entry.path) /\ \A k \in 1 .. n : Below(anchors[k].path, entry.path) /\ entry.path[k] \notin anchors[k].left
  BY <1>2, <1>3 DEF Placed
<1>8. n - 1 \in 0 .. limits.depth /\ n - 1 \in 0 .. limits.depth + 1 /\ (n - 1) + 1 = n
  BY <1>2
<1>9. tree.type[Anchor.node] = "dir" /\ m \in DOMAIN tree.entry[Anchor.node]
  BY <1>2, <1>5, <1>6, <1>7, <1>8, ContainedBelow DEF m
<1> DEFINE f == <<Append(Anchor.path, m), tree.entry[Anchor.node][m]>>
<1>10. f \in Contained(tree, limits.depth) /\ m \in Names
  <2>1. PICK path : path = Anchor.path
    OBVIOUS
  <2>2. PICK node : node = Anchor.node
    OBVIOUS
  <2>3. PICK k : k = n - 1
    OBVIOUS
  <2>4. /\ Standard(tree, limits.depth) /\ k \in 0 .. limits.depth
        /\ <<path, node>> \in Standing(tree, limits.depth, k)
    BY <1>2, <1>8, <2>1, <2>2, <2>3
  <2>5. tree.type[node] = "dir" /\ m \in DOMAIN tree.entry[node]
    BY <1>9, <2>2
  <2>6. <<Append(path, m), tree.entry[node][m]>> \in Contained(tree, limits.depth) /\ m \in Names
    BY <2>4, <2>5, ContainedNext
  <2>7. QED
    BY <2>1, <2>2, <2>6
<1>11. Append(Anchor.path, m) = entry.path
  <2>1. entry.path[Len(Anchor.path) + 1] = m
    BY <1>2, <1>8 DEF m
  <2>2. Below(Append(Anchor.path, m), entry.path) \/ entry.path = Append(Anchor.path, m)
    <3>1. PICK p : p = Anchor.path
      OBVIOUS
    <3>2. PICK q : q = entry.path
      OBVIOUS
    <3>3. p \in Seq(Names) /\ q \in Seq(Names) /\ Below(p, q) /\ q[Len(p) + 1] = m
      BY <1>2, <1>4, <1>7, <2>1, <3>1, <3>2
    <3>4. Below(Append(p, m), q) \/ q = Append(p, m)
      BY <1>10, <3>3, BelowLonger
    <3> QED
      BY <3>1, <3>2, <3>4
  <2>3. Len(Append(Anchor.path, m)) = n
    BY <1>2, <1>8, <1>10, OneMore
  <2>4. ~Below(Append(Anchor.path, m), entry.path)
    BY <1>2, <1>4, <2>3 DEF Below
  <2> QED
    BY <2>2, <2>4
<1>12. f[1] = e[1] /\ f[2] = tree.entry[Anchor.node][m]
  BY <1>5, <1>11
<1> HIDE DEF f
<1>13. e = f
  BY <1>2, <1>6, <1>10, <1>12, ContainedOnce
<1>14. Last(entry.path) = m
  BY <1>4 DEF Last, m
<1>15. Found(Last(entry.path)) = entry.node
  BY <1>5, <1>9, <1>12, <1>13, <1>14 DEF Found
<1>16. TypeOf(entry.node) = entry.type
  <2>1. entry.node # Nothing
    BY <1>4, WalkAssumption
  <2> QED
    BY <1>3, <2>1 DEF TypeOf
<1>17. ~\E k \in 1 .. n : Awaits(anchors[k], entry.path)
  <2>1. ASSUME NEW k \in 1 .. n
        PROVE  entry.path[Len(anchors[k].path) + 1] = entry.path[k]
    <3>1. Len(anchors[k].path) + 1 = k
      BY <1>2
    <3> QED
      BY <3>1
  <2> QED
    BY <1>7, <2>1 DEF Awaits
<1> QED
  BY <1>3, <1>4, <1>6, <1>15, <1>16, <1>17 DEF Same, e, n

LEMMA QuietOpenChild ==
  ASSUME WalkInv, QuietInv, UNCHANGED fileVars, OpenChild, Len(trees) = 1
  PROVE  QuietInv'
<1> DEFINE n == Len(anchors)
<1> DEFINE a == [node |-> entry.node, path |-> entry.path, left |-> {}]
<1>1. step = "open-directory" /\ step \in Within /\ UNCHANGED <<tree, limits>>
  BY DEF OpenChild, Within, fileVars
<1>2. /\ Found(Last(entry.path)) = entry.node /\ TypeOf(entry.node) = "dir" /\ Same(entry.node)
      /\ <<entry.path, entry.node>> \in Contained(tree, limits.depth)
  BY <1>1, EntryFound
<1>3. /\ step' = "scan" /\ UNCHANGED <<entry, reading, entries, members>>
      /\ anchors' = Append(anchors, a)
  BY <1>2 DEF OpenChild, OpenDirectory
<1>4. a.path = entry.path /\ a.node = entry.node /\ a.left = {}
  OBVIOUS
<1>5. /\ Looking /\ Standard(tree, limits.depth) /\ TypeOf(tree.root) = "dir" /\ n \in 1 .. limits.depth + 1
      /\ limits.depth \in Nat
  BY <1>1, QuietWithin
<1>6. Placed(entry.path, entry.node, n)
  BY <1>1, <1>5 DEF Looking, PlacesInv
<1> HIDE DEF a, n
<1>7. Len(anchors') = n + 1 /\ anchors'[n + 1] = a /\ \A k \in 1 .. n : anchors'[k] = anchors[k]
  <2>1. anchors \in Seq(OpenDirectories)
    BY DEF WalkInv, AnchorsInv
  <2>2. a \in OpenDirectories
    <3>1. entry.node \in Nodes /\ entry.path \in Seq(Names)
      BY <1>1 DEF WalkInv, EntryInv
    <3> QED
      BY <3>1 DEF a, OpenDirectories
  <2> QED
    BY <1>3, <2>1, <2>2, OneMore DEF n
<1>8. Anchor' = a
  BY <1>7 DEF Anchor, Last
<1>9. PlacesInv'
  <2>1. ASSUME NEW k \in 1 .. Len(anchors')
        PROVE  /\ Placed(anchors[k].path, anchors[k].node, k - 1)'
               /\ anchors'[k].left \subseteq DOMAIN tree'.entry[anchors'[k].node]
    <3>1. CASE k \in 1 .. n
      <4>1. \A j \in 1 .. k - 1 : j \in 1 .. n
        BY <1>5, <3>1
      <4>2. Placed(anchors[k].path, anchors[k].node, k - 1) /\ anchors[k].left \subseteq DOMAIN tree.entry[anchors[k].node]
        BY <1>5, <3>1 DEF Looking, PlacesInv, n
      <4> QED
        BY <1>1, <1>7, <3>1, <4>1, <4>2 DEF Placed
    <3>2. CASE k = n + 1
      <4>1. k - 1 = n
        BY <1>5, <3>2
      <4>3. anchors'[k] = a
        BY <1>7, <3>2
      <4>4. Placed(anchors[k].path, anchors[k].node, k - 1)'
        BY <1>1, <1>4, <1>6, <1>7, <4>1, <4>3 DEF Placed
      <4> QED
        BY <1>4, <4>3, <4>4
    <3> QED
      BY <1>5, <1>7, <3>1, <3>2
  <2>2. step' \notin {"open-directory"} \cup AtFile
    BY <1>3 DEF AtFile
  <2> QED
    BY <1>4, <1>8, <2>1, <2>2 DEF PlacesInv
<1>10. ASSUME NEW e \in Contained(tree, limits.depth)
       PROVE  Ahead(e[1])' <=> Ahead(e[1])
  <2> DEFINE p == e[1]
  <2>1. ~Awaits(anchors'[n + 1], p)
    BY <1>4, <1>7 DEF Awaits
  <2>2. \A k \in 1 .. n : Awaits(anchors'[k], p) <=> Awaits(anchors[k], p)
    BY <1>7
  <2>3. (\A k \in 1 .. n + 1 : k \in 1 .. n \/ k = n + 1) /\ \A k \in 1 .. n : k \in 1 .. n + 1
    BY <1>5
  <2>4. Ahead(p)' <=> (\E k \in 1 .. n + 1 : Awaits(anchors'[k], p)) \/ Below(entry.path, p)
    BY <1>3, <1>4, <1>7, <1>8 DEF Ahead
  <2>5. Ahead(p) <=> (\E k \in 1 .. n : Awaits(anchors[k], p)) \/ Below(entry.path, p)
    BY <1>1 DEF Ahead, n
  <2> HIDE DEF p
  <2>6. Ahead(p)' <=> Ahead(p)
    BY <2>1, <2>2, <2>3, <2>4, <2>5
  <2> QED
    BY <2>6 DEF p
<1>11. CountInv' /\ TakenInv'
  <2>1. step \notin AtFile /\ step' \notin AtFile
    BY <1>1, <1>3 DEF AtFile
  <2> QED
    BY <1>1, <1>3, <1>5, <1>10, <2>1, QuietKeeps DEF Looking
<1>12. StillInv' /\ TypeOf(tree.root)' = "dir"
  BY <1>1, <1>3, <1>5 DEF StillInv, AtFile, TypeOf
<1> QED
  BY <1>3, <1>9, <1>11, <1>12, QuietGoesOn DEF Looking

\* Between the opening of a file and its acceptance.
LEMMA QuietAtFile ==
  ASSUME Looking, step \in AtFile, step' \in {"read", "check"}, StillInv',
         UNCHANGED <<tree, limits, anchors, entry, entries, members>>
  PROVE  QuietInv'
<1>1. step' \in AtFile /\ step' # "scan" /\ step' # "open-directory" /\ step # "scan" /\ step # "open-directory"
  BY DEF AtFile
<1>2. \A p : Ahead(p)' <=> Ahead(p)
  BY <1>1 DEF Ahead
<1>3. PlacesInv'
  BY <1>1 DEF Looking, PlacesInv, Placed, Anchor
<1>4. CountInv' /\ TakenInv'
  BY <1>1, <1>2, QuietKeeps DEF Looking
<1>5. TypeOf(tree.root)' = "dir"
  BY DEF Looking, TypeOf
<1> QED
  BY <1>3, <1>4, <1>5, QuietGoesOn DEF Looking

LEMMA QuietOpenFile ==
  ASSUME WalkInv, QuietInv, UNCHANGED fileVars, OpenFile, Len(trees) = 1
  PROVE  QuietInv'
<1>1. step = "open-file" /\ step \in Within /\ step \in AtFile /\ UNCHANGED <<tree, limits>>
  BY DEF OpenFile, Within, AtFile, fileVars
<1>2. Found(Last(entry.path)) = entry.node /\ TypeOf(entry.node) = "file" /\ Same(entry.node)
  BY <1>1, EntryFound
<1>3. /\ step' = "read" /\ UNCHANGED <<anchors, entry, entries, members>>
      /\ reading'.size = Len(tree.data[entry.node]) /\ reading'.mtime = tree.mtime[entry.node]
  BY <1>2 DEF OpenFile
<1>4. Looking
  BY <1>1, QuietWithin
<1>5. Budget' = Budget
  BY <1>1, <1>3, SameBudget
<1>6. StillInv'
  BY <1>1, <1>3, <1>4, <1>5 DEF Looking, StillInv
<1> QED
  BY <1>1, <1>3, <1>4, <1>6, QuietAtFile

LEMMA QuietReadBlock ==
  ASSUME WalkInv, QuietInv, UNCHANGED fileVars, ReadBlock, Len(trees) = 1
  PROVE  QuietInv'
<1> DEFINE k == Len(reading.blocks)
<1> DEFINE z == Len(tree.data[entry.node])
<1>1. /\ step = "read" /\ step \in Within /\ step \in AtFile
      /\ UNCHANGED <<tree, limits, anchors, entry, entries, members>>
  BY DEF ReadBlock, Within, AtFile, fileVars
<1>2. Looking
  BY <1>1, QuietWithin
<1>3. /\ reading.node = entry.node /\ reading.budget = Budget /\ IsBlocks(reading.blocks)
      /\ reading.mtime = tree.mtime[entry.node] /\ reading.size = z /\ k <= z /\ z <= Budget
  BY <1>1, <1>2 DEF WalkInv, ReadingInv, Looking, StillInv
<1>4. k \in Nat /\ Budget \in Nat /\ z \in Nat
  <2>1. IsBlocks(tree.data[entry.node])
    BY <1>1 DEF WalkInv, FilesInv, IsTree, EntryInv
  <2> QED
    BY <1>3, <2>1, BudgetType, LenProperties DEF IsBlocks, WalkInv
<1>5. Budget' = Budget
  BY <1>1, SameBudget
<1>6. CASE step' = "read"
  <2>1. reading'.size = reading.size /\ reading'.mtime = reading.mtime
    <3>1. reading' = [reading EXCEPT !.blocks = Append(@, tree.data[reading.node][k + 1])]
      BY <1>6 DEF ReadBlock
    <3>2. DOMAIN reading = {"node", "size", "mtime", "budget", "blocks"}
      BY DEF WalkInv, ReadingInv
    <3> QED
      BY <3>1, <3>2
  <2>2. StillInv'
    BY <1>1, <1>2, <1>5, <1>6, <2>1 DEF Looking, StillInv
  <2> QED
    BY <1>1, <1>2, <1>6, <2>2, QuietAtFile
<1>7. CASE step' # "read"
  <2>1. step' = "check" /\ UNCHANGED reading /\ ~(k + 1 <= z /\ k + 1 <= Budget + 1)
    BY <1>3, <1>7 DEF ReadBlock
  <2>2. k = z
    BY <1>3, <1>4, <2>1
  <2>3. StillInv'
    BY <1>1, <1>2, <1>3, <1>5, <2>1, <2>2 DEF Looking, StillInv
  <2> QED
    BY <1>1, <1>2, <2>1, <2>3, QuietAtFile
<1> QED
  BY <1>6, <1>7

\* All is inspected, and all of it was admissible.
LEMMA QuietLoaded ==
  ASSUME WalkInv, UNCHANGED fileVars, UNCHANGED members, Looking, step \notin AtFile, step' = "loaded",
         \A e \in Contained(tree, limits.depth) : ~Ahead(e[1])
  PROVE  QuietInv'
<1>1. UNCHANGED <<tree, limits>>
  BY DEF fileVars
<1>2. tree.root # Nothing /\ tree.type[tree.root] = "dir"
  BY DirectoryStands DEF Looking, WalkInv
<1>3. Inspected = Contained(tree, limits.depth)
  BY DEF Inspected
<1>4. Taken = FilesIn(tree, limits.depth)
  BY <1>3 DEF Taken, FilesIn
<1>5. Fits(tree, limits)
  <2>1. Cardinality(Contained(tree, limits.depth)) <= limits.entries
    <3>1. limits.entries \in Nat /\ entries \in 0 .. limits.entries
      BY DEF WalkInv, FilesInv, Limits, MembersInv
    <3> QED
      BY <1>3, <3>1 DEF Looking, CountInv
  <2>2. \A e \in Contained(tree, limits.depth) : Fitting(tree, limits, e)
    BY <1>3 DEF Looking, CountInv
  <2>3. Cardinality(FilesIn(tree, limits.depth)) <= limits.files
    BY <1>4 DEF Looking, TakenInv, WalkInv, MembersInv
  <2>4. SizeOf(tree, FilesIn(tree, limits.depth)) <= limits.total
    BY <1>4 DEF Looking, TakenInv, WalkInv, MembersInv
  <2> QED
    BY <1>2, <2>1, <2>2, <2>3, <2>4 DEF Fits
<1>6. Admissible(tree) /\ Files(tree) = Taken
  BY <1>2, <1>4, <1>5, AdmissibleFits
<1>7. Admissible(tree)' /\ Files(tree)' = Taken
  BY <1>1, <1>2, <1>6, SameJudgement
<1>8. {<<p, members[p]>> : p \in DOMAIN members} = {<<f[1], tree.data[f[2]]>> : f \in Taken}
  <2>1. DOMAIN members = {e[1] : e \in Taken} /\ \A e \in Taken : members[e[1]] = tree.data[e[2]]
    BY DEF Looking, TakenInv
  <2>2. ASSUME NEW p \in DOMAIN members
        PROVE  <<p, members[p]>> \in {<<f[1], tree.data[f[2]]>> : f \in Taken}
    BY <2>1
  <2>3. ASSUME NEW f \in Taken
        PROVE  <<f[1], tree.data[f[2]]>> \in {<<p, members[p]>> : p \in DOMAIN members}
    BY <2>1
  <2> QED
    BY <2>2, <2>3
<1>9. {<<p, members'[p]>> : p \in DOMAIN members'} = {<<f[1], tree'.data[f[2]]>> : f \in Files(tree)'}
  BY <1>1, <1>7, <1>8
<1>10. QuietWalkIsExact'
  BY <1>7, <1>9, Zenon DEF QuietWalkIsExact
<1>11. step' \notin Within
  BY DEF Within
<1> QED
  BY <1>10, <1>11 DEF QuietInv

LEMMA FrontIs ==
  ASSUME NEW S, NEW s \in Seq(S), Len(s) > 0
  PROVE  Len(Front(s)) = Len(s) - 1 /\ \A k \in 1 .. Len(s) - 1 : Front(s)[k] = s[k]
<1>1. PICK n : n = Len(s) - 1
  OBVIOUS
<1>2. Len(s) \in Nat /\ Front(s) = SubSeq(s, 1, n)
  BY <1>1, LenProperties DEF Front
<1>3. n \in Nat /\ \A k \in 1 .. n : s[k] \in S
  BY <1>1, <1>2, ElementOfSeq
<1>4. Len(Front(s)) = (IF 1 <= n THEN n - 1 + 1 ELSE 0) /\ \A k \in 1 .. n - 1 + 1 : Front(s)[k] = s[1 + k - 1]
  BY <1>2, <1>3, SubSeqProperties
<1>5. Len(Front(s)) = n /\ \A k \in 1 .. n : Front(s)[k] = s[k]
  BY <1>3, <1>4
<1> QED
  BY <1>1, <1>5

LEMMA QuietLeave ==
  ASSUME WalkInv, QuietInv, UNCHANGED fileVars, Leave, Len(trees) = 1
  PROVE  QuietInv'
<1> DEFINE n == Len(anchors)
<1>1. /\ step = "next" /\ step \in Within /\ step \notin AtFile /\ anchors' = Front(anchors) /\ Anchor.left = {}
      /\ step' = IF n = 1 THEN "loaded" ELSE "next"
      /\ UNCHANGED <<entry, entries, members, tree, limits>>
  BY DEF Leave, Within, AtFile, fileVars
<1>2. Looking /\ TypeOf(tree.root) = "dir" /\ n \in 1 .. limits.depth + 1 /\ limits.depth \in Nat /\ Anchor = anchors[n]
  BY <1>1, QuietWithin
<1>3. Len(anchors') = n - 1 /\ \A k \in 1 .. n - 1 : anchors'[k] = anchors[k]
  <2>1. anchors \in Seq(OpenDirectories) /\ Len(anchors) > 0
    BY <1>2 DEF WalkInv, AnchorsInv
  <2> QED
    BY <1>1, <2>1, FrontIs
<1>4. \A p : Ahead(p) <=> \E k \in 1 .. n - 1 : Awaits(anchors[k], p)
  <2> TAKE p
  <2>1. ~Awaits(anchors[n], p)
    BY <1>1, <1>2 DEF Awaits
  <2>2. (\A k \in 1 .. n : k \in 1 .. n - 1 \/ k = n) /\ \A k \in 1 .. n - 1 : k \in 1 .. n
    BY <1>2
  <2>3. Ahead(p) <=> \E k \in 1 .. n : Awaits(anchors[k], p)
    BY <1>1 DEF Ahead
  <2> HIDE DEF n
  <2> QED
    BY <2>1, <2>2, <2>3
<1> HIDE DEF n
<1>5. CASE n = 1
  <2>1. \A k \in 1 .. n - 1 : FALSE
    BY <1>5
  <2>2. \A e \in Contained(tree, limits.depth) : ~Ahead(e[1])
    BY <1>4, <2>1
  <2> QED
    BY <1>1, <1>2, <1>5, <2>2, QuietLoaded
<1>6. CASE n # 1
  <2>1. step' = "next" /\ step' \notin AtFile
    BY <1>1, <1>6 DEF AtFile
  <2>2. \A p : Ahead(p)' <=> Ahead(p)
    <3> TAKE p
    <3>1. Ahead(p)' <=> \E k \in 1 .. n - 1 : Awaits(anchors'[k], p)
      BY <1>3, <2>1 DEF Ahead
    <3>2. \A k \in 1 .. n - 1 : Awaits(anchors'[k], p) <=> Awaits(anchors[k], p)
      BY <1>3
    <3> QED
      BY <1>4, <3>1, <3>2
  <2>3. CountInv' /\ TakenInv'
    BY <1>1, <1>2, <2>1, <2>2, QuietKeeps DEF Looking
  <2>4. PlacesInv'
    <3>1. ASSUME NEW k \in 1 .. n - 1
          PROVE  /\ Placed(anchors[k].path, anchors[k].node, k - 1)'
                 /\ anchors'[k].left \subseteq DOMAIN tree'.entry[anchors'[k].node]
      <4>1. k \in 1 .. n /\ anchors'[k] = anchors[k] /\ \A j \in 1 .. k - 1 : anchors'[j] = anchors[j]
        BY <1>2, <1>3
      <4>2. Placed(anchors[k].path, anchors[k].node, k - 1) /\ anchors[k].left \subseteq DOMAIN tree.entry[anchors[k].node]
        BY <1>2, <4>1 DEF Looking, PlacesInv, n
      <4> QED
        BY <1>1, <4>1, <4>2 DEF Placed
    <3> QED
      BY <1>3, <2>1, <3>1 DEF PlacesInv, AtFile
  <2>5. StillInv' /\ TypeOf(tree.root)' = "dir"
    BY <1>1, <1>2, <2>1 DEF StillInv, AtFile, TypeOf
  <2> QED
    BY <2>1, <2>3, <2>4, <2>5, QuietGoesOn DEF Looking
<1> QED
  BY <1>5, <1>6

\* One file more, and part of the files.
LEMMA SumOneMore ==
  ASSUME NEW m, NEW m2, NEW S, IsFiniteSet(S), NEW p, p \notin S,
         \A q \in S : Len(m[q]) \in Nat /\ m2[q] = m[q], Len(m2[p]) \in Nat
  PROVE  SumOf(m2, S \cup {p}) = SumOf(m, S) + Len(m2[p])
<1>1. IsFiniteSet(S \cup {p}) /\ \A q \in S \cup {p} : Len(m2[q]) \in Nat
  BY FS_AddElement
<1>2. p \in S \cup {p} /\ (S \cup {p}) \ {p} = S
  OBVIOUS
<1>3. SumOf(m2, S \cup {p}) = Len(m2[p]) + SumOf(m2, (S \cup {p}) \ {p})
  BY <1>1, <1>2, SumSplit
<1>4. SumOf(m2, (S \cup {p}) \ {p}) = SumOf(m2, S)
  BY <1>2, Zenon
<1>5. SumOf(m, S) = SumOf(m2, S) /\ SumOf(m, S) \in Nat
  <2>1. \A q \in S : Len(m[q]) \in Nat /\ Len(m[q]) = Len(m2[q])
    OBVIOUS
  <2> QED
    BY <2>1, SumSame, SumSplit
<1> QED
  BY <1>3, <1>4, <1>5

LEMMA SizeMore ==
  ASSUME NEW t, IsTree(t), NEW S, IsFiniteSet(S), \A f \in S : f[2] \in Nodes, NEW e, e \notin S, e[2] \in Nodes
  PROVE  /\ SizeOf(t, S \cup {e}) = SizeOf(t, S) + Len(t.data[e[2]])
         /\ SizeOf(t, S) \in Nat /\ Len(t.data[e[2]]) \in Nat
<1> DEFINE w == [f \in S \cup {e} |-> t.data[f[2]]]
<1>1. /\ \A f \in S \cup {e} : w[f] = t.data[f[2]]
      /\ \A f \in S : w[f] = t.data[f[2]]
      /\ w[e] = t.data[e[2]]
  OBVIOUS
<1> HIDE DEF w
<1>2. \A f \in S \cup {e} : Len(w[f]) \in Nat
  <2>1. \A f \in S \cup {e} : IsBlocks(w[f])
    BY <1>1 DEF IsTree
  <2> QED
    BY <2>1, LenProperties DEF IsBlocks
<1>3. SizeOf(t, S \cup {e}) = SumOf(w, S \cup {e})
  BY <1>1, SizeIsSum
<1>4. SizeOf(t, S) = SumOf(w, S)
  BY <1>1, SizeIsSum
<1>5. SumOf(w, S \cup {e}) = SumOf(w, S) + Len(w[e])
  <2>1. (\A f \in S : Len(w[f]) \in Nat /\ w[f] = w[f]) /\ Len(w[e]) \in Nat
    BY <1>2
  <2> QED
    BY <2>1, SumOneMore
<1>6. SumOf(w, S) \in Nat
  <2>1. \A f \in S : Len(w[f]) \in Nat
    BY <1>2
  <2> QED
    BY <2>1, SumSplit
<1>7. Len(w[e]) \in Nat
  BY <1>2
<1> QED
  BY <1>1, <1>3, <1>4, <1>5, <1>6, <1>7

LEMMA SizeOfPart ==
  ASSUME NEW t, IsTree(t), NEW S, IsFiniteSet(S), \A f \in S : f[2] \in Nodes, NEW T \in SUBSET S
  PROVE  SizeOf(t, T) <= SizeOf(t, S)
<1>1. IsFiniteSet(T) /\ IsFiniteSet(S \ T)
  BY FS_Subset
<1> DEFINE P == {n \in Nat : \A d \in SUBSET (S \ T) : Cardinality(d) = n =>
                   SizeOf(t, T) <= SizeOf(t, T \cup d) /\ SizeOf(t, T \cup d) \in Nat}
<1>2. SizeOf(t, T) \in Nat
  <2> DEFINE w == [f \in T |-> t.data[f[2]]]
  <2>1. \A f \in T : w[f] = t.data[f[2]] /\ IsBlocks(w[f])
    BY DEF IsTree
  <2> HIDE DEF w
  <2>2. \A f \in T : Len(w[f]) \in Nat
    BY <2>1, LenProperties DEF IsBlocks
  <2>3. SizeOf(t, T) = SumOf(w, T)
    BY <2>1, SizeIsSum
  <2> QED
    BY <1>1, <2>2, <2>3, SumSplit
<1>3. ASSUME NEW d \in SUBSET (S \ T)
      PROVE  IsFiniteSet(d) /\ Cardinality(d) \in Nat /\ (Cardinality(d) = 0 <=> d = {})
             /\ \A y \in d : Cardinality(d \ {y}) = Cardinality(d) - 1
  <2>1. IsFiniteSet(d)
    BY <1>1, FS_Subset
  <2> QED
    BY <2>1, FS_CardinalityType, FS_EmptySet, FS_RemoveElement
<1>4. 0 \in P
  <2>1. ASSUME NEW d \in SUBSET (S \ T), Cardinality(d) = 0
        PROVE  T \cup d = T
    BY <1>3, <2>1
  <2> QED
    BY <1>2, <2>1
<1>5. ASSUME NEW n \in Nat, n \in P
      PROVE  n + 1 \in P
  <2>1. SUFFICES ASSUME NEW d \in SUBSET (S \ T), Cardinality(d) = n + 1
                 PROVE  SizeOf(t, T) <= SizeOf(t, T \cup d) /\ SizeOf(t, T \cup d) \in Nat
    OBVIOUS
  <2>2. PICK y \in d : TRUE
    BY <1>3, <2>1
  <2> DEFINE R == T \cup (d \ {y})
  <2>3. d \ {y} \in SUBSET (S \ T) /\ Cardinality(d \ {y}) = n
    BY <1>3, <2>1
  <2>4. SizeOf(t, T) <= SizeOf(t, R) /\ SizeOf(t, R) \in Nat
    BY <1>5, <2>3
  <2>5. IsFiniteSet(R) /\ (\A f \in R : f[2] \in Nodes) /\ y \notin R /\ y[2] \in Nodes /\ R \cup {y} = T \cup d
    <3>1. R \in SUBSET S
      OBVIOUS
    <3>2. IsFiniteSet(R)
      BY <3>1, FS_Subset
    <3> QED
      BY <3>1, <3>2
  <2> HIDE DEF R
  <2>6. SizeOf(t, R \cup {y}) = SizeOf(t, R) + Len(t.data[y[2]]) /\ Len(t.data[y[2]]) \in Nat
    BY <2>5, SizeMore
  <2>7. SizeOf(t, T \cup d) = SizeOf(t, R \cup {y})
    BY <2>5, Zenon
  <2> QED
    BY <1>2, <2>4, <2>6, <2>7
<1>6. Nat \subseteq P
  <2> HIDE DEF P
  <2> QED
    BY <1>4, <1>5, Induction
<1>7. S \ T \in SUBSET (S \ T) /\ T \cup (S \ T) = S /\ Cardinality(S \ T) \in Nat
  BY <1>3
<1>8. SizeOf(t, T) <= SizeOf(t, T \cup (S \ T))
  BY <1>6, <1>7
<1>9. SizeOf(t, T \cup (S \ T)) = SizeOf(t, S)
  BY <1>7, Zenon
<1> QED
  BY <1>8, <1>9

\* What was inspected and what was read of it.
LEMMA TakenFacts ==
  ASSUME WalkInv, Looking
  PROVE  /\ IsTree(tree) /\ IsFiniteSet(Inspected) /\ IsFiniteSet(Taken)
         /\ Inspected \subseteq Contained(tree, limits.depth) /\ Taken \subseteq FilesIn(tree, limits.depth)
         /\ IsFiniteSet(Contained(tree, limits.depth)) /\ IsFiniteSet(FilesIn(tree, limits.depth))
         /\ \A f \in Contained(tree, limits.depth) : f[2] \in Nodes
         /\ \A f \in FilesIn(tree, limits.depth) : f[2] \in Nodes
         /\ \A f \in Taken : f[2] \in Nodes
<1>1. Standard(tree, limits.depth)
  BY DirectoryStands DEF Looking, WalkInv
<1>2. IsTree(tree) /\ IsFiniteSet(Contained(tree, limits.depth))
  BY <1>1 DEF Standard
<1>3. /\ Inspected \subseteq Contained(tree, limits.depth) /\ Taken \subseteq FilesIn(tree, limits.depth)
      /\ FilesIn(tree, limits.depth) \subseteq Contained(tree, limits.depth)
  BY DEF Inspected, Taken, FilesIn
<1>4. Taken \subseteq Contained(tree, limits.depth)
  BY <1>3
<1>5. IsFiniteSet(Inspected) /\ IsFiniteSet(Taken) /\ IsFiniteSet(FilesIn(tree, limits.depth))
  BY <1>2, <1>3, <1>4, FS_Subset
<1>6. \A f \in Contained(tree, limits.depth) : f[2] \in Nodes
  BY <1>1, ContainedIs
<1> QED
  BY <1>2, <1>3, <1>4, <1>5, <1>6

LEMMA QuietAccept ==
  ASSUME WalkInv, QuietInv, UNCHANGED fileVars, Accept, Len(trees) = 1
  PROVE  QuietInv'
<1>1. step = "check" /\ step \in Within /\ step \in AtFile /\ UNCHANGED <<tree, limits>>
  BY DEF Accept, Within, AtFile, fileVars
<1>2. Looking /\ Standard(tree, limits.depth)
  BY <1>1, QuietWithin
<1> DEFINE e == <<entry.path, entry.node>>
<1>3. /\ e \in Contained(tree, limits.depth) /\ entry.node \in Nodes /\ tree.type[entry.node] = "file"
      /\ ~\E k \in 1 .. Len(anchors) : Awaits(anchors[k], entry.path)
  BY <1>1, EntryFound
<1>4. e[1] = entry.path /\ e[2] = entry.node
  OBVIOUS
<1> HIDE DEF e
<1>5. /\ reading.node = entry.node /\ reading.budget = Budget /\ IsBlocks(reading.blocks)
      /\ reading.mtime = tree.mtime[entry.node] /\ reading.size = Len(tree.data[entry.node])
      /\ Len(reading.blocks) = Len(tree.data[entry.node]) /\ Len(tree.data[entry.node]) <= Budget
      /\ \A i \in 1 .. Len(reading.blocks) : reading.blocks[i] = tree.data[entry.node][i]
  BY <1>1, <1>2 DEF WalkInv, ReadingInv, Looking, StillInv
<1>6. UnchangedSince(reading)
  BY <1>5 DEF UnchangedSince
<1>7. reading.blocks = tree.data[entry.node]
  <2>1. IsBlocks(tree.data[entry.node])
    BY <1>3 DEF WalkInv, FilesInv, IsTree
  <2> QED
    BY <1>5, <2>1, SameBlocks
<1>8. /\ members' = [p \in DOMAIN members \cup {entry.path} |->
                       IF p = entry.path THEN reading.blocks ELSE members[p]]
      /\ step' = "next" /\ UNCHANGED <<anchors, entries>>
  BY <1>6 DEF Accept
<1>9. /\ DOMAIN members' = DOMAIN members \cup {entry.path} /\ members'[entry.path] = tree.data[entry.node]
      /\ \A p \in DOMAIN members \ {entry.path} : members'[p] = members[p]
  BY <1>7, <1>8
<1>10. \A p : Ahead(p)' <=> Ahead(p)
  BY <1>1, <1>8 DEF Ahead
<1>11. Inspected' = Inspected
  BY <1>1, <1>10 DEF Inspected
<1>12. e \in Inspected
  <2>1. ~Ahead(e[1])
    BY <1>1, <1>3, <1>4 DEF Ahead
  <2> QED
    BY <1>3, <2>1 DEF Inspected
<1>13. Taken' = Taken \cup {e} /\ e \notin Taken /\ \A f \in Taken : f[1] # entry.path
  <2>1. step' \notin AtFile
    BY <1>8 DEF AtFile
  <2>2. \A f \in Inspected : f[1] = entry.path => f = e
    BY <1>2, <1>3, <1>4, ContainedOnce DEF Inspected
  <2>3. Taken' = {f \in Inspected : tree.type[f[2]] = "file"}
    BY <1>1, <1>11, <2>1 DEF Taken
  <2>4. Taken = {f \in Inspected : tree.type[f[2]] = "file" /\ f[1] # entry.path}
    BY <1>1 DEF Taken
  <2> QED
    BY <1>3, <1>4, <1>12, <2>2, <2>3, <2>4
<1>14. CountInv'
  BY <1>1, <1>2, <1>8, <1>11 DEF Looking, CountInv
<1>15. /\ DOMAIN members = {f[1] : f \in Taken} /\ \A f \in Taken : members[f[1]] = tree.data[f[2]]
       /\ Cardinality(DOMAIN members) = Cardinality(Taken) /\ Total = SizeOf(tree, Taken)
  BY <1>2 DEF Looking, TakenInv
<1>16. entry.path \notin DOMAIN members
  BY <1>13, <1>15
<1>17. DOMAIN members' = {f[1] : f \in Taken'}
  BY <1>4, <1>9, <1>13, <1>15
<1>18. \A f \in Taken' : members'[f[1]] = tree'.data[f[2]]
  <2>1. ASSUME NEW f \in Taken PROVE members'[f[1]] = tree.data[f[2]]
    <3>1. f[1] \in DOMAIN members \ {entry.path} /\ members[f[1]] = tree.data[f[2]]
      BY <1>13, <1>15
    <3> QED
      BY <1>9, <3>1
  <2> QED
    BY <1>1, <1>4, <1>9, <1>13, <2>1
<1>19. Cardinality(DOMAIN members') = Cardinality(Taken')
  <2>1. IsFiniteSet(DOMAIN members) /\ IsFiniteSet(Taken)
    BY <1>2, TakenFacts DEF WalkInv, MembersInv
  <2>2. Cardinality(DOMAIN members \cup {entry.path}) = Cardinality(DOMAIN members) + 1
    BY <1>16, <2>1, FS_AddElement
  <2>3. Cardinality(Taken \cup {e}) = Cardinality(Taken) + 1
    BY <1>13, <2>1, FS_AddElement
  <2> QED
    BY <1>9, <1>13, <1>15, <2>2, <2>3
<1>20. Total' = SizeOf(tree', Taken')
  <2> DEFINE z == Len(tree.data[entry.node])
  <2>1. SizeOf(tree, Taken \cup {e}) = SizeOf(tree, Taken) + z /\ z \in Nat
    <3>1. IsTree(tree) /\ IsFiniteSet(Taken) /\ \A f \in Taken : f[2] \in Nodes
      BY <1>2, TakenFacts
    <3> QED
      BY <1>3, <1>4, <1>13, <3>1, SizeMore
  <2>2. Total' = Total + z
    <3>1. Total = SumOf(members, DOMAIN members)
      BY NothingYet
    <3>2. Total' = SumOf(members', DOMAIN members')
      BY Zenon DEF Total, SumOf, MapThenSumSet, MapThenFoldSet
    <3>3. PICK m2 : m2 = members'
      OBVIOUS
    <3>4. /\ Len(m2[entry.path]) = z /\ Len(m2[entry.path]) \in Nat
          /\ \A q \in DOMAIN members \ {entry.path} : m2[q] = members[q]
      BY <1>9, <2>1, <3>3
    <3>5. IsFiniteSet(DOMAIN members) /\ \A p \in DOMAIN members : Len(members[p]) \in Nat
      <4>1. IsFiniteSet(DOMAIN members) /\ \A p \in DOMAIN members : IsBlocks(members[p])
        BY DEF WalkInv, MembersInv
      <4> QED
        BY <4>1, LenProperties DEF IsBlocks
    <3>6. SumOf(m2, DOMAIN members \cup {entry.path}) = SumOf(members, DOMAIN members) + Len(m2[entry.path])
      <4>1. \A q \in DOMAIN members : Len(members[q]) \in Nat /\ m2[q] = members[q]
        BY <1>16, <3>4, <3>5
      <4> QED
        BY <1>16, <3>4, <3>5, <4>1, SumOneMore
    <3> QED
      BY <1>9, <1>16, <3>1, <3>2, <3>3, <3>4, <3>6
  <2>3. SizeOf(tree', Taken') = SizeOf(tree, Taken \cup {e})
    BY <1>1, <1>13
  <2> QED
    BY <1>15, <2>1, <2>2, <2>3
<1>21. TakenInv'
  BY <1>17, <1>18, <1>19, <1>20 DEF TakenInv
<1>22. PlacesInv'
  <2>1. step' \notin {"open-directory"} \cup AtFile /\ step' # "scan"
    BY <1>8 DEF AtFile
  <2> QED
    BY <1>1, <1>2, <1>8, <2>1 DEF Looking, PlacesInv, Placed
<1>23. StillInv' /\ TypeOf(tree.root)' = "dir"
  BY <1>1, <1>2, <1>8 DEF Looking, StillInv, AtFile, TypeOf
<1> QED
  BY <1>8, <1>14, <1>21, <1>22, <1>23, QuietGoesOn DEF Looking

\* The name inspected next: it leads to something that stands, and was ahead.
LEMMA NextEntry ==
  ASSUME WalkInv, QuietInv, Len(trees) = 1, step = "next", NEW name \in Anchor.left, NEW e,
         e = <<Append(Anchor.path, name), Found(name)>>
  PROVE  /\ e[1] = Append(Anchor.path, name) /\ e[2] = Found(name) /\ name \in Names
         /\ e \in Contained(tree, limits.depth) /\ e \in Standing(tree, limits.depth, Len(anchors))
         /\ e[1] \in Seq(Names) /\ Len(e[1]) = Len(anchors) /\ e[1][Len(anchors)] = name /\ Last(e[1]) = name
         /\ e[2] \in Nodes /\ TypeOf(e[2]) = tree.type[e[2]]
         /\ Below(Anchor.path, e[1]) /\ Ahead(e[1]) /\ e \notin Inspected
         /\ \A k \in 1 .. Len(anchors) - 1 : Below(anchors[k].path, e[1]) /\ e[1][k] \notin anchors[k].left
<1> DEFINE n == Len(anchors)
<1>1. step \in Within
  BY DEF Within
<1>2. /\ Looking /\ Standard(tree, limits.depth) /\ n \in 1 .. limits.depth + 1
      /\ limits.depth \in Nat /\ Anchor = anchors[n] /\ Len(Anchor.path) = n - 1 /\ Anchor.path \in Seq(Names)
      /\ <<Anchor.path, Anchor.node>> \in Standing(tree, limits.depth, n - 1)
      /\ tree.type[Anchor.node] = "dir" /\ Anchor.left \subseteq DOMAIN tree.entry[Anchor.node]
      /\ \A k \in 1 .. n : anchors[k].path \in Seq(Names) /\ Len(anchors[k].path) = k - 1
  BY <1>1, QuietWithin
<1>3. e[1] = Append(Anchor.path, name) /\ e[2] = Found(name)
  OBVIOUS
<1>4. name \in DOMAIN tree.entry[Anchor.node] /\ Found(name) = tree.entry[Anchor.node][name]
  BY <1>2 DEF Found
<1>5. n - 1 \in 0 .. limits.depth /\ (n - 1) + 1 = n
  BY <1>2
<1> HIDE DEF n
<1>6. /\ e \in Contained(tree, limits.depth) /\ name \in Names /\ e \in Standing(tree, limits.depth, n)
  <2>1. PICK k : k = n - 1
    OBVIOUS
  <2>2. k \in 0 .. limits.depth /\ <<Anchor.path, Anchor.node>> \in Standing(tree, limits.depth, k)
    BY <1>2, <1>5, <2>1
  <2>3. /\ <<Append(Anchor.path, name), tree.entry[Anchor.node][name]>> \in Contained(tree, limits.depth) /\ name \in Names
        /\ <<Append(Anchor.path, name), tree.entry[Anchor.node][name]>> \in Standing(tree, limits.depth, k + 1)
    BY <1>2, <1>4, <2>2, ContainedNext
  <2>4. e = <<Append(Anchor.path, name), tree.entry[Anchor.node][name]>>
    BY <1>4
  <2> QED
    BY <1>5, <2>1, <2>3, <2>4
<1>7. /\ e[1] \in Seq(Names) /\ Len(e[1]) = n /\ e[1][n] = name
  BY <1>2, <1>3, <1>5, <1>6, OneMore
<1>8. Last(e[1]) = name
  BY <1>7 DEF Last
<1>9. e[2] \in Nodes /\ TypeOf(e[2]) = tree.type[e[2]]
  <2>1. e[2] \in Nodes
    BY <1>2, <1>6, ContainedIs
  <2> QED
    BY <2>1, WalkAssumption DEF TypeOf
<1>10. PICK p : p = Anchor.path
  OBVIOUS
<1>11. p \in Seq(Names) /\ e[1] = Append(p, name) /\ Len(p) = n - 1
  BY <1>2, <1>3, <1>10
<1>12. Below(Anchor.path, e[1])
  <2>1. Below(p, Append(p, name))
    BY <1>6, <1>11, BelowLonger
  <2> QED
    BY <1>10, <1>11, <2>1
<1>13. Ahead(e[1]) /\ e \notin Inspected
  <2>1. n \in 1 .. n
    BY <1>2
  <2>2. Awaits(anchors[n], e[1])
    BY <1>2, <1>5, <1>7, <1>12 DEF Awaits
  <2> QED
    BY <2>1, <2>2 DEF Ahead, Inspected, n
<1>14. ASSUME NEW k \in 1 .. n - 1
       PROVE  Below(anchors[k].path, e[1]) /\ e[1][k] \notin anchors[k].left
  <2>1. k \in 1 .. n /\ n \in 1 .. n
    BY <1>2
  <2>2. Below(anchors[k].path, p) /\ p[k] \notin anchors[k].left
    <3>1. Placed(anchors[n].path, anchors[n].node, n - 1)
      BY <1>2, <2>1 DEF Looking, PlacesInv, n
    <3> QED
      BY <1>2, <1>10, <3>1 DEF Placed
  <2>3. PICK q : q = anchors[k].path
    OBVIOUS
  <2>4. q \in Seq(Names) /\ Below(q, p) /\ Len(q) + 1 = k
    BY <1>2, <2>1, <2>2, <2>3
  <2>5. Below(q, Append(p, name)) /\ Append(p, name)[Len(q) + 1] = p[Len(q) + 1]
    BY <1>6, <1>11, <2>4, BelowLonger
  <2>6. e[1][k] = p[k]
    BY <1>11, <2>4, <2>5
  <2> QED
    BY <1>11, <2>2, <2>3, <2>5, <2>6
<1> QED
  BY <1>3, <1>6, <1>7, <1>8, <1>9, <1>12, <1>13, <1>14 DEF n

\* What the walk refuses of an entry does not fit.
LEMMA QuietRefuses ==
  ASSUME WalkInv, QuietInv, Len(trees) = 1, step = "next", NEW name \in Anchor.left,
         Inadmissible(name, Found(name))
  PROVE  ~Admissible(tree)
<1>1. PICK e : e = <<Append(Anchor.path, name), Found(name)>>
  OBVIOUS
<1>2. /\ e[2] = Found(name) /\ e \in Contained(tree, limits.depth) /\ Len(e[1]) = Len(anchors) /\ Last(e[1]) = name
      /\ e[2] \in Nodes /\ TypeOf(e[2]) = tree.type[e[2]] /\ e \notin Inspected
  BY <1>1, NextEntry
<1>3. Looking /\ limits.depth \in Nat /\ Len(anchors) \in 1 .. limits.depth + 1
  BY QuietWithin DEF Within
<1>4. /\ IsTree(tree) /\ IsFiniteSet(Inspected) /\ IsFiniteSet(Taken)
      /\ Inspected \subseteq Contained(tree, limits.depth) /\ Taken \subseteq FilesIn(tree, limits.depth)
      /\ IsFiniteSet(Contained(tree, limits.depth)) /\ IsFiniteSet(FilesIn(tree, limits.depth))
      /\ \A f \in FilesIn(tree, limits.depth) : f[2] \in Nodes
      /\ \A f \in Taken : f[2] \in Nodes
  BY <1>3, TakenFacts
<1>5. tree.root # Nothing
  BY <1>3, DirectoryStands DEF Looking, WalkInv
<1>6. SUFFICES ASSUME Fits(tree, limits) PROVE FALSE
  BY <1>5, AdmissibleFits
<1>7. Fitting(tree, limits, e)
  BY <1>2, <1>6 DEF Fits
<1>8. limits.entries \in Nat /\ limits.files \in Nat /\ limits.total \in Nat /\ limits.fileSize \in Nat
  BY DEF WalkInv, FilesInv, Limits
<1>9. ASSUME entries >= limits.entries PROVE FALSE
  <2>1. Cardinality(Inspected \cup {e}) = entries + 1 /\ entries \in Nat
    <3>1. Cardinality(Inspected \cup {e}) = Cardinality(Inspected) + 1
      BY <1>2, <1>4, FS_AddElement
    <3>2. entries \in Nat /\ Cardinality(Inspected) = entries
      BY <1>3, <1>8 DEF Looking, CountInv, WalkInv, MembersInv
    <3> QED
      BY <3>1, <3>2
  <2>2. Cardinality(Inspected \cup {e}) <= Cardinality(Contained(tree, limits.depth))
    <3>1. Inspected \cup {e} \in SUBSET Contained(tree, limits.depth)
      BY <1>2, <1>4
    <3> QED
      BY <1>4, <3>1, FS_Subset
  <2>3. Cardinality(Contained(tree, limits.depth)) <= limits.entries /\ Cardinality(Contained(tree, limits.depth)) \in Nat
    BY <1>4, <1>6, FS_CardinalityType DEF Fits
  <2> QED
    BY <1>8, <1>9, <2>1, <2>2, <2>3
<1>10. ASSUME name \in Unsafe PROVE FALSE
  BY <1>2, <1>7, <1>10 DEF Fitting
<1>11. ASSUME TypeOf(Found(name)) \in {"none", "link", "special"} PROVE FALSE
  BY <1>2, <1>7, <1>11 DEF Fitting
<1>12. ASSUME TypeOf(Found(name)) = "dir", Len(anchors) > limits.depth PROVE FALSE
  BY <1>2, <1>3, <1>7, <1>12 DEF Fitting
<1>13. ASSUME TypeOf(Found(name)) = "file" PROVE e \in FilesIn(tree, limits.depth) /\ e \notin Taken
  BY <1>2, <1>13 DEF FilesIn, Taken
<1>14. ASSUME TypeOf(Found(name)) = "file", Cardinality(DOMAIN members) >= limits.files PROVE FALSE
  <2>1. Taken \cup {e} \in SUBSET FilesIn(tree, limits.depth)
    BY <1>4, <1>13, <1>14
  <2>2. Cardinality(Taken \cup {e}) = Cardinality(Taken) + 1
    BY <1>4, <1>13, <1>14, FS_AddElement
  <2>3. Cardinality(Taken \cup {e}) <= Cardinality(FilesIn(tree, limits.depth))
    BY <1>4, <2>1, FS_Subset
  <2>4. Cardinality(DOMAIN members) = Cardinality(Taken)
    BY <1>3 DEF Looking, TakenInv
  <2>5. Cardinality(FilesIn(tree, limits.depth)) <= limits.files
    BY <1>6 DEF Fits
  <2>6. Cardinality(FilesIn(tree, limits.depth)) \in Nat /\ Cardinality(Taken) \in Nat
    BY <1>4, FS_CardinalityType
  <2> QED
    BY <1>8, <1>14, <2>2, <2>3, <2>4, <2>5, <2>6
<1>15. ASSUME TypeOf(Found(name)) = "file", Len(tree.data[Found(name)]) > Budget PROVE FALSE
  <2> DEFINE z == Len(tree.data[Found(name)])
  <2>1. Taken \cup {e} \in SUBSET FilesIn(tree, limits.depth)
    BY <1>4, <1>13, <1>15
  <2>2. SizeOf(tree, Taken \cup {e}) <= SizeOf(tree, FilesIn(tree, limits.depth))
    BY <1>4, <2>1, SizeOfPart
  <2>3. /\ SizeOf(tree, Taken \cup {e}) = SizeOf(tree, Taken) + Len(tree.data[e[2]])
        /\ SizeOf(tree, Taken) \in Nat /\ Len(tree.data[e[2]]) \in Nat
    BY <1>2, <1>4, <1>13, <1>15, SizeMore
  <2>4. SizeOf(tree, FilesIn(tree, limits.depth)) <= limits.total
    BY <1>6 DEF Fits
  <2>5. SizeOf(tree, FilesIn(tree, limits.depth)) \in Nat
    <3>1. PICK S : S = FilesIn(tree, limits.depth) \ {e}
      OBVIOUS
    <3>2. IsFiniteSet(S) /\ (\A f \in S : f[2] \in Nodes) /\ e \notin S
      BY <1>4, <3>1, FS_Subset
    <3>3. S \cup {e} = FilesIn(tree, limits.depth)
      BY <1>13, <1>15, <3>1
    <3>4. /\ SizeOf(tree, S \cup {e}) = SizeOf(tree, S) + Len(tree.data[e[2]])
          /\ SizeOf(tree, S) \in Nat /\ Len(tree.data[e[2]]) \in Nat
      BY <1>2, <1>4, <3>2, SizeMore
    <3>5. SizeOf(tree, S \cup {e}) = SizeOf(tree, FilesIn(tree, limits.depth))
      BY <3>3, Zenon
    <3> QED
      BY <3>4, <3>5
  <2>6. Total = SizeOf(tree, Taken)
    BY <1>3 DEF Looking, TakenInv
  <2>7. z = Len(tree.data[e[2]]) /\ z <= limits.fileSize
    BY <1>2, <1>7, <1>15 DEF Fitting
  <2>8. Total + z <= limits.total
    BY <1>8, <2>2, <2>3, <2>4, <2>5, <2>6, <2>7
  <2>9. Budget = limits.fileSize \/ Budget = limits.total - Total
    BY DEF Budget, Lesser
  <2> HIDE DEF z
  <2>10. z > Budget
    BY <1>15 DEF z
  <2> QED
    BY <1>8, <2>3, <2>6, <2>7, <2>8, <2>9, <2>10
<1> QED
  BY <1>9, <1>10, <1>11, <1>12, <1>14, <1>15 DEF Inadmissible

\* What an entry that was inspected adds to what was.
LEMMA QuietInspected ==
  ASSUME WalkInv, QuietInv, Len(trees) = 1, step = "next", NEW name \in Anchor.left, NEW e,
         e = <<Append(Anchor.path, name), Found(name)>>,
         UNCHANGED <<tree, limits>>, Relisted(Anchor.left \ {name}), entry'.path = e[1],
         step' = IF TypeOf(Found(name)) = "dir" THEN "open-directory" ELSE "open-file"
  PROVE  Inspected' = Inspected \cup {e}
<1> DEFINE n == Len(anchors)
<1>1. /\ Standard(tree, limits.depth) /\ n \in 1 .. limits.depth + 1 /\ limits.depth \in Nat
      /\ Anchor = anchors[n] /\ Len(Anchor.path) = n - 1 /\ Anchor.path \in Seq(Names)
      /\ \A k \in 1 .. n : Len(anchors[k].path) = k - 1
  BY QuietWithin DEF Within
<1>2. /\ e[1] = Append(Anchor.path, name) /\ e[2] = Found(name) /\ name \in Names
      /\ e \in Contained(tree, limits.depth) /\ e \in Standing(tree, limits.depth, n)
      /\ e[1] \in Seq(Names) /\ Len(e[1]) = n /\ e[1][n] = name
      /\ e[2] \in Nodes /\ TypeOf(e[2]) = tree.type[e[2]]
      /\ Below(Anchor.path, e[1]) /\ Ahead(e[1])
      /\ \A k \in 1 .. n - 1 : e[1][k] \notin anchors[k].left
  BY NextEntry
<1> HIDE DEF n
<1>3. /\ Len(anchors') = n /\ \A k \in 1 .. n - 1 : anchors'[k] = anchors[k]
      /\ anchors'[n].path = Anchor.path /\ anchors'[n].left = Anchor.left \ {name}
  <2>1. n \in 1 .. n
    BY <1>1
  <2> QED
    BY <1>1, <2>1 DEF Relisted, n
<1>4. (\A k \in 1 .. n : k \in 1 .. n - 1 \/ k = n) /\ n \in 1 .. n /\ \A k \in 1 .. n - 1 : k \in 1 .. n
  <2>1. n \in Nat /\ n >= 1
    BY <1>1
  <2> QED
    BY <2>1
<1>5. SUFFICES ASSUME NEW f \in Contained(tree, limits.depth)
               PROVE  Ahead(f[1])' <=> Ahead(f[1]) /\ f # e
  BY <1>2 DEF Inspected
<1> DEFINE p == f[1]
<1>6. p \in Seq(Names) /\ (p = e[1] <=> f = e)
  BY <1>1, <1>2, ContainedIs, ContainedOnce
<1>7. Awaits(anchors[n], p) /\ p[n] = name <=> Below(e[1], p) \/ p = e[1]
  <2>1. PICK a : a = Anchor.path
    OBVIOUS
  <2>2. PICK q : q = p
    OBVIOUS
  <2>3. a \in Seq(Names) /\ q \in Seq(Names) /\ e[1] = Append(a, name) /\ Len(a) + 1 = n /\ Below(a, e[1])
    BY <1>1, <1>2, <1>6, <2>1, <2>2
  <2>4. /\ Below(Append(a, name), q) => Below(a, q) /\ q[Len(a) + 1] = name
        /\ Below(a, q) /\ q[Len(a) + 1] = name => Below(Append(a, name), q) \/ q = Append(a, name)
    BY <1>2, <2>3, BelowLonger
  <2>5. Below(a, q) /\ q[n] = name <=> Below(e[1], q) \/ q = e[1]
    BY <1>2, <2>3, <2>4
  <2>6. Awaits(anchors[n], p) <=> Below(a, q) /\ q[n] \in Anchor.left
    BY <1>1, <2>1, <2>2, <2>3 DEF Awaits
  <2> QED
    BY <2>2, <2>5, <2>6
<1>8. Awaits(anchors'[n], p) <=> Awaits(anchors[n], p) /\ p[n] # name
  <2>1. Len(Anchor.path) + 1 = n
    BY <1>1
  <2> QED
    BY <1>1, <1>3, <2>1 DEF Awaits
<1>9. Below(e[1], p) => step' = "open-directory"
  <2>1. PICK path : path = e[1]
    OBVIOUS
  <2>2. PICK node : node = e[2]
    OBVIOUS
  <2>3. <<path, node>> \in Standing(tree, limits.depth, n)
    <3>1. e = <<e[1], e[2]>>
      BY <1>1, <1>2, ContainedIs
    <3> QED
      BY <1>2, <2>1, <2>2, <3>1
  <2>4. n \in 0 .. limits.depth + 1
    BY <1>1
  <2>5. ASSUME Below(path, f[1]) PROVE tree.type[node] = "dir"
    <3>1. Standard(tree, limits.depth) /\ f \in Contained(tree, limits.depth)
      BY <1>1
    <3>2. /\ tree.type[node] = "dir" /\ f[1][n + 1] \in DOMAIN tree.entry[node]
          /\ Len(path) = n /\ path \in Seq(Names)
      BY <2>3, <2>4, <2>5, <3>1, ContainedBelow
    <3> QED
      BY <3>2
  <2> QED
    BY <1>2, <2>1, <2>2, <2>5
<1>10. ~Below(e[1], e[1])
  BY <1>2 DEF Below
<1>11. \A k \in 1 .. n - 1 : ~Awaits(anchors[k], e[1])
  <2>1. \A k \in 1 .. n - 1 : Len(anchors[k].path) + 1 = k
    BY <1>1, <1>4
  <2> QED
    BY <1>2, <2>1 DEF Awaits
<1>12. Ahead(p) <=> (\E k \in 1 .. n - 1 : Awaits(anchors[k], p)) \/ Awaits(anchors[n], p)
  <2>1. Ahead(p) <=> \E k \in 1 .. n : Awaits(anchors[k], p)
    BY DEF Ahead, n
  <2> HIDE DEF p
  <2> QED
    BY <1>4, <2>1
<1>13. Ahead(p)' <=> \/ \E k \in 1 .. n - 1 : Awaits(anchors[k], p)
                     \/ Awaits(anchors'[n], p)
                     \/ step' = "open-directory" /\ Below(e[1], p)
  <2>1. step' # "scan"
    OBVIOUS
  <2>2. Ahead(p)' <=> (\E k \in 1 .. n : Awaits(anchors'[k], p)) \/ (step' = "open-directory" /\ Below(e[1], p))
    BY <1>3, <2>1 DEF Ahead
  <2>3. \A k \in 1 .. n - 1 : Awaits(anchors'[k], p) <=> Awaits(anchors[k], p)
    BY <1>3
  <2> HIDE DEF p
  <2> QED
    BY <1>4, <2>2, <2>3
<1>14. f = e => \A k \in 1 .. n - 1 : ~Awaits(anchors[k], p)
  BY <1>11
<1>15. f = e => ~Below(e[1], p)
  BY <1>10
<1>16. Ahead(p)' <=> Ahead(p) /\ f # e
  <2> HIDE DEF p
  <2> QED
    BY <1>6, <1>7, <1>8, <1>9, <1>12, <1>13, <1>14, <1>15
<1> QED
  BY <1>16

LEMMA QuietInspect ==
  ASSUME WalkInv, QuietInv, UNCHANGED fileVars, Inspect, Len(trees) = 1
  PROVE  QuietInv'
<1>1. step = "next" /\ step \in Within /\ step \notin AtFile /\ UNCHANGED <<tree, limits>>
  BY DEF Inspect, Within, AtFile, fileVars
<1>2. CASE \E name \in Anchor.left : Inadmissible(name, Found(name)) /\ Refuse
  <2>1. step' = "refused"
    BY <1>2 DEF Refuse
  <2>2. ~Admissible(tree)
    BY <1>1, <1>2, QuietRefuses
  <2> QED
    BY <2>1, <2>2, QuietRefusal
<1>3. CASE ~\E name \in Anchor.left : Inadmissible(name, Found(name)) /\ Refuse
  <2> DEFINE n == Len(anchors)
  <2>1. PICK name \in Anchor.left :
          /\ ~Inadmissible(name, Found(name))
          /\ anchors' = [anchors EXCEPT ![Len(anchors)].left = @ \ {name}]
          /\ entry' = [path |-> Append(Anchor.path, name), node |-> Found(name), type |-> TypeOf(Found(name))]
          /\ step' = IF TypeOf(Found(name)) = "dir" THEN "open-directory" ELSE "open-file"
    BY <1>3 DEF Inspect
  <2>2. entries' = entries + 1 /\ UNCHANGED <<reading, members>>
    BY <1>3 DEF Inspect
  <2>3. PICK e : e = <<Append(Anchor.path, name), Found(name)>>
    OBVIOUS
  <2>4. entry'.path = e[1] /\ entry'.node = e[2] /\ entry'.type = TypeOf(e[2])
    BY <2>1, <2>3
  <2>5. /\ e[1] = Append(Anchor.path, name) /\ e[2] = Found(name) /\ name \in Names
        /\ e \in Contained(tree, limits.depth) /\ e \in Standing(tree, limits.depth, n)
        /\ e[1] \in Seq(Names) /\ Len(e[1]) = n /\ e[1][n] = name /\ Last(e[1]) = name
        /\ e[2] \in Nodes /\ TypeOf(e[2]) = tree.type[e[2]]
        /\ Below(Anchor.path, e[1]) /\ Ahead(e[1]) /\ e \notin Inspected
        /\ \A k \in 1 .. n - 1 : Below(anchors[k].path, e[1]) /\ e[1][k] \notin anchors[k].left
    BY <1>1, <2>3, NextEntry
  <2>6. /\ Looking /\ Standard(tree, limits.depth) /\ TypeOf(tree.root) = "dir" /\ n \in 1 .. limits.depth + 1
        /\ limits.depth \in Nat /\ Anchor = anchors[n] /\ Anchor.left \subseteq DOMAIN tree.entry[Anchor.node]
    BY <1>1, QuietWithin
  <2>7. Relisted(Anchor.left \ {name})
    <3>1. Anchor.left \ {name} \in SUBSET Names
      BY <2>6, TopAnchor
    <3>2. anchors' = [anchors EXCEPT ![Len(anchors)].left = Anchor.left \ {name}]
      BY <2>1, <2>6
    <3>3. AnchorsInv /\ n > 0
      BY <2>6 DEF WalkInv
    <3> QED
      BY <3>1, <3>2, <3>3, LeftIsRelisted
  <2>8. Inspected' = Inspected \cup {e}
    BY <1>1, <2>1, <2>3, <2>4, <2>7, QuietInspected
  <2>9. TypeOf(e[2]) \in {"dir", "file"}
    <3>1. tree.type[e[2]] \in Types
      BY <2>5 DEF WalkInv, FilesInv, IsTree
    <3>2. TypeOf(e[2]) \notin {"none", "link", "special"}
      BY <2>1, <2>5 DEF Inadmissible
    <3> QED
      BY <2>5, <3>1, <3>2 DEF Types
  <2>10. Fitting(tree, limits, e)
    <3>1. name \notin Unsafe /\ tree.type[e[2]] \in {"file", "dir"}
      BY <2>1, <2>5, <2>9 DEF Inadmissible
    <3>2. tree.type[e[2]] = "dir" => Len(e[1]) <= limits.depth
      <4>1. tree.type[e[2]] = "dir" => ~(n > limits.depth)
        BY <2>1, <2>5 DEF Inadmissible
      <4> QED
        BY <2>5, <2>6, <4>1
    <3>3. tree.type[e[2]] = "file" => Len(tree.data[e[2]]) <= limits.fileSize
      <4>1. tree.type[e[2]] = "file" => ~(Len(tree.data[e[2]]) > Budget)
        BY <2>1, <2>5 DEF Inadmissible
      <4>2. Budget \in Nat /\ Budget <= limits.fileSize /\ limits.fileSize \in Nat
        BY BudgetType DEF WalkInv, FilesInv, Limits
      <4>3. Len(tree.data[e[2]]) \in Nat
        <5>1. IsBlocks(tree.data[e[2]])
          BY <2>5 DEF WalkInv, FilesInv, IsTree
        <5> QED
          BY <5>1, LenProperties DEF IsBlocks
      <4> QED
        BY <4>1, <4>2, <4>3
    <3> QED
      BY <2>5, <3>1, <3>2, <3>3 DEF Fitting
  <2>11. CountInv'
    <3>1. IsFiniteSet(Inspected) /\ Cardinality(Inspected) = entries /\ \A f \in Inspected : Fitting(tree, limits, f)
      BY <2>6 DEF Looking, CountInv
    <3>2. IsFiniteSet(Inspected \cup {e}) /\ Cardinality(Inspected \cup {e}) = entries + 1
      BY <2>5, <3>1, FS_AddElement
    <3>3. \A f \in Inspected \cup {e} : Fitting(tree, limits, f)
      BY <2>10, <3>1
    <3> QED
      BY <1>1, <2>2, <2>8, <3>2, <3>3 DEF CountInv
  <2>12. Taken' = Taken
    <3>1. Taken = {f \in Inspected : tree.type[f[2]] = "file"}
      BY <1>1 DEF Taken
    <3>2. Taken' = {f \in Inspected \cup {e} : tree.type[f[2]] = "file" /\ (step' \in AtFile => f[1] # e[1])}
      BY <1>1, <2>4, <2>8 DEF Taken
    <3>3. \A f \in Inspected : f[1] # e[1]
      BY <2>5 DEF Inspected
    <3>4. tree.type[e[2]] = "file" => step' \in AtFile
      BY <2>1, <2>5 DEF AtFile
    <3> QED
      BY <3>1, <3>2, <3>3, <3>4
  <2>13. Total' = Total /\ Budget' = Budget
    BY <1>1, <2>2, SameBudget
  <2>14. TakenInv'
    BY <1>1, <2>2, <2>6, <2>12, <2>13 DEF Looking, TakenInv
  <2>15. PlacesInv'
    <3>1. \A k \in 1 .. Len(anchors') : /\ Placed(anchors[k].path, anchors[k].node, k - 1)'
                                        /\ anchors'[k].left \subseteq DOMAIN tree'.entry[anchors'[k].node]
      <4>1. Anchor.left \ {name} \subseteq DOMAIN tree.entry[Anchor.node]
        BY <2>6
      <4> QED
        BY <1>1, <2>7, <4>1, RelistedPlaces
    <3>2. Placed(entry.path, entry.node, Len(anchors))'
      <4>1. <<e[1], e[2]>> \in Standing(tree, limits.depth, n)
        <5>1. e = <<e[1], e[2]>>
          BY <2>5, <2>6, ContainedIs
        <5> QED
          BY <2>5, <5>1
      <4>2. ASSUME NEW j \in 1 .. n
            PROVE  Below(anchors'[j].path, e[1]) /\ e[1][j] \notin anchors'[j].left
        <5>1. CASE j = n
          <6>1. n \in 1 .. n
            BY <4>2, <5>1
          <6>2. anchors'[n].path = Anchor.path /\ anchors'[n].left = Anchor.left \ {name}
            BY <2>6, <2>7, <6>1 DEF Relisted
          <6> QED
            BY <2>5, <5>1, <6>2
        <5>2. CASE j # n
          <6>1. j \in 1 .. n - 1
            BY <2>6, <5>2
          <6>2. anchors'[j] = anchors[j]
            BY <2>7, <6>1 DEF Relisted
          <6> QED
            BY <2>5, <6>1, <6>2
        <5> QED
          BY <5>1, <5>2
      <4>3. Len(anchors') = n
        BY <2>7 DEF Relisted
      <4> HIDE DEF n
      <4> QED
        BY <1>1, <2>4, <4>1, <4>2, <4>3 DEF Placed
    <3>3. step' # "scan" /\ entry'.type = tree'.type[entry'.node]
      BY <1>1, <2>1, <2>4, <2>5
    <3>4. step' \in {"open-directory"} \cup AtFile =>
            entry'.type = IF step' = "open-directory" THEN "dir" ELSE "file"
      BY <2>1, <2>4, <2>5, <2>9
    <3> QED
      BY <3>1, <3>2, <3>3, <3>4 DEF PlacesInv
  <2>16. StillInv'
    <3>1. step' \in AtFile => Len(tree.data[e[2]]) <= Budget
      <4>1. step' \in AtFile => TypeOf(Found(name)) = "file"
        BY <2>1, <2>5, <2>9 DEF AtFile
      <4>2. step' \in AtFile => ~(Len(tree.data[e[2]]) > Budget)
        BY <2>1, <2>5, <4>1 DEF Inadmissible
      <4>3. Budget \in Nat
        BY BudgetType DEF WalkInv
      <4>4. Len(tree.data[e[2]]) \in Nat
        <5>1. IsBlocks(tree.data[e[2]])
          BY <2>5 DEF WalkInv, FilesInv, IsTree
        <5> QED
          BY <5>1, LenProperties DEF IsBlocks
      <4> QED
        BY <4>2, <4>3, <4>4
    <3>2. step' \notin {"read", "check"}
      BY <2>1
    <3> QED
      BY <1>1, <2>4, <2>13, <3>1, <3>2 DEF StillInv
  <2>17. TypeOf(tree.root)' = "dir"
    BY <1>1, <2>6 DEF TypeOf
  <2>18. step' \notin {"refused", "loaded", "archive", "inspect-archive", "open-root"}
    BY <2>1
  <2> QED
    BY <2>11, <2>14, <2>15, <2>16, <2>17, <2>18, QuietGoesOn DEF Looking
<1> QED
  BY <1>2, <1>3

LEMMA QuietStep ==
  ASSUME WalkInv, QuietInv, BundleNext \/ UNCHANGED bundleVars
  PROVE  QuietInv'
<1>1. CASE Verify \/ UNCHANGED bundleVars
  <2>1. UNCHANGED fileVars /\ UNCHANGED walkVars
    BY <1>1 DEF Verify, bundleVars, fileVars, walkVars
  <2> QED
    BY <2>1, QuietStays
<1>2. CASE WalkStep
  <2>1. UNCHANGED fileVars
    BY <1>2 DEF WalkStep
  <2>2. Len(trees') = Len(trees)
    BY <2>1 DEF fileVars
  <2>3. CASE Len(trees) # 1
    BY <2>2, <2>3 DEF QuietInv
  <2>4. CASE Len(trees) = 1
    BY <1>2, <2>1, <2>4, QuietBeginning, QuietOpenRoot, QuietOpenChild, QuietScan, QuietInspect, QuietOpenFile,
       QuietReadBlock, QuietAccept, QuietLeave DEF WalkStep
  <2> QED
    BY <2>3, <2>4
<1>3. CASE (RecogniseArchive \/ NothingThere \/ CaptureArchive \/ InspectArchive) /\ UNCHANGED fileVars
  BY <1>3, QuietArchive
<1>4. CASE EditStep
  BY <1>4, QuietEdit
<1> QED
  BY <1>1, <1>2, <1>3, <1>4 DEF BundleNext

-----------------------------------------------------------------------------
(* The two verifications together.                                         *)

\* The inductive invariant.
Inv == WalkInv /\ PackageInv /\ ReceiptInv /\ BindingInv

LEMMA InitInv == Init => Inv
BY WalkInvInit, PackageInvInit, ReceiptInvInit, BindingInvInit DEF Init, Inv

LEMMA NextInv ==
  ASSUME Inv, [Next]_vars
  PROVE  Inv'
<1>1. PackageInv'
  <2>1. BundleNext \/ UNCHANGED bundleVars
    BY DEF Next, Done, vars
  <2>2. QED
    BY <2>1, PackageInvStep DEF Inv
<1>5. WalkInv'
  <2>1. BundleNext \/ UNCHANGED bundleVars
    BY DEF Next, Done, vars
  <2>2. QED
    BY <2>1, BundleStepInv DEF Inv
<1>2. ReceiptInv'
  <2>1. Workflow \/ ReplaceFile \/ Tamper \/ UNCHANGED receiptVars
    BY DEF Next, Done, vars, ReceiptNext
  <2>2. ASSUME UNCHANGED receiptVars PROVE ReceiptInv'
    BY <2>2 DEF Inv, ReceiptInv, Captures, Preserved, receiptVars, Validated, Bytes, Recoverable, EvidenceOf
  <2>3. QED
    BY <2>1, <2>2, WorkflowInv, ReplaceFileInv, TamperInv DEF Inv
<1>3. BindingInv'
  <2>1. CASE (MakeRequest \/ Assess) /\ UNCHANGED receiptVars
    BY <2>1, MakeRequestInv, AssessInv DEF Inv
  <2>2. CASE /\ UNCHANGED bindingVars
             /\ Workflow \/ ReplaceFile \/ (Tamper /\ part \in {"none", "request"}) \/ UNCHANGED receiptVars
    BY <2>2, BesideAssessment DEF Inv
  <2>3. QED
    BY <2>1, <2>2 DEF Next, Done, vars, ReceiptNext
<1>4. QED
  BY <1>1, <1>2, <1>3, <1>5 DEF Inv

THEOREM InvHolds == Spec => []Inv
<1>1. Inv /\ [Next]_vars => Inv'
  BY NextInv
<1>2. QED
  BY InitInv, <1>1, PTL DEF Spec

\* Every member accepted stood under its name, in directories that stood under theirs,
\* as one regular file, and whole, however the directory was edited meanwhile; and no
\* limit is passed by what grew while it was read.
THEOREM EveryMemberWasThere == Spec => []MembersWereThere
<1>1. Inv => MembersWereThere
  BY WalkIsThere DEF Inv
<1>2. QED
  BY InvHolds, <1>1, PTL

\* If nobody edits it, a directory is refused exactly if the whole of it passes a limit or
\* a rule, whatever the order its names are returned in; and if it is accepted, what was
\* accepted is all its files, each whole.
THEOREM QuietWalksAreExact == Spec => []QuietWalkIsExact
<1>1. Init => QuietInv
  BY QuietInit DEF Init
<1>2. Inv /\ QuietInv /\ [Next]_vars => QuietInv'
  <2>1. [Next]_vars => BundleNext \/ UNCHANGED bundleVars
    BY DEF Next, Done, vars
  <2> QED
    BY <2>1, QuietStep DEF Inv
<1>3. QuietInv => QuietWalkIsExact
  BY Zenon DEF QuietInv, QuietWalkIsExact
<1> QED
  BY InvHolds, <1>1, <1>2, <1>3, PTL DEF Spec

\* A receipt of a package passes only what every document of every record bears out.
THEOREM PackageReceiptIsEarned == Spec => []ReceiptIsEarned
<1>1. Inv => ReceiptIsEarned
  BY PackageInvReceipt DEF Inv
<1>2. QED
  BY InvHolds, <1>1, PTL

\* A graph claims support exactly of three documents that tell one story, and one that
\* was edited validates only if what it preserves still does.
THEOREM ClaimOfReceiptIsEarned == Spec => []LegacyClaimIsEarned
<1>1. Inv => LegacyClaimIsEarned
  BY ReceiptInvClaims DEF Inv
<1>2. QED
  BY InvHolds, <1>1, PTL

\* A selection is bound to a receipt when, and only when, everything a binding stands
\* on holds.
THEOREM BindingOfSelectionIsEarned == Spec => []BindingIsEarned
<1>1. Inv => BindingIsEarned
  BY DEF Inv, BindingInv, Bound
<1>2. QED
  BY InvHolds, <1>1, PTL

-----------------------------------------------------------------------------
(* Types.                                                                  *)

IsTyped(g) ==
  /\ DOMAIN g.typed = {"intent", "execution", "observation", "assessment"}
  /\ DOMAIN g.typed.assessment = {"of", "order", "status"}
  /\ g.typed.assessment.status \in NonPass \cup {"PASS"}
  /\ g.mappings \in [{"bundle", "result", "counts", "receipt"} -> {"validated", "not-assessed", "failed"}]
  /\ g.claim \in BOOLEAN

\* What of the types does not follow from the invariant above.
Typing ==
  /\ \A role \in Roles : captured[role] = Absent \/ captured[role].kind \in {role, "garbage"}
  /\ phase = "built" => IsTyped(evidence)
  /\ tampered \in 0 .. MaxTampering
  /\ verdict \in NonPass \cup {"PASS", "none", "raised"}
  /\ phase \in Roles \cup {"idle", "start", "build", "built", "refused", "raised"}
  /\ binding.outcome \in {"none", "bound", "unbound", "invalid_input", "unsupported", "resource_limit"}
  /\ (part = "done") = (binding.outcome # "none")

LEMMA TypingInit == Init => Typing
<1> SUFFICES ASSUME Init PROVE Typing
  OBVIOUS
<1>1. /\ captured = NothingRead /\ tampered = 0 /\ verdict = "none" /\ phase \in {"start", "idle"}
  BY DEF Init, ReceiptInit, ReceiptIdle
<1>2. binding.outcome = "none" /\ part = "none"
  BY DEF Init, BindingInit, Unestablished
<1>3. QED
  BY <1>1, <1>2, TamperingAssumption DEF Typing, NothingRead

LEMMA BuiltIsTyped ==
  ASSUME NEW raw, NEW order, IsRaw(raw["receipt"], "receipt")
  PROVE  IsTyped(EvidenceOf(raw, order))
<1> DEFINE typed == Typed(raw, order)
           g == EvidenceOf(raw, order)
<1>1. /\ DOMAIN typed = {"intent", "execution", "observation", "assessment"}
      /\ DOMAIN typed.assessment = {"of", "order", "status"}
      /\ typed.assessment.status = Outcome(raw, order)
  BY DEF Typed
<1>2. Outcome(raw, order) \in NonPass \cup {"PASS"}
  BY PassIsDeclared
<1>3. \A status : ValidationStatus(status) \in {"validated", "not-assessed", "failed"}
  BY DEF ValidationStatus
<1> HIDE DEF typed
<1>4. Mappings(typed) \in [{"bundle", "result", "counts", "receipt"} -> {"validated", "not-assessed", "failed"}]
  BY <1>3 DEF Mappings
<1>5. g.typed = typed /\ g.mappings = Mappings(typed) /\ g.claim = (typed.assessment.status = "PASS")
  BY DEF EvidenceOf, typed
<1>6. QED
  BY <1>1, <1>2, <1>4, <1>5 DEF IsTyped

LEMMA EditedIsTyped ==
  ASSUME NEW g, NEW h, DOMAIN g = Parts, IsTyped(g), h \in Alterations(g)
  PROVE  IsTyped(h)
<1>1. CASE h.typed = g.typed /\ h.mappings = g.mappings /\ h.claim \in BOOLEAN
  BY <1>1 DEF IsTyped
<1>2. CASE \/ h = [g EXCEPT !.dialect = "other"] \/ h = [g EXCEPT !.f1 = FALSE]
           \/ \E o \in Orders : h = [g EXCEPT !.order = o]
           \/ \E role \in Roles : h = [g EXCEPT !.represents[role].status = "PASS"]
  BY <1>1, <1>2 DEF Parts, IsTyped
<1>3. CASE h = [g EXCEPT !.claim = ~@]
  BY <1>1, <1>3 DEF Parts, IsTyped
<1>4. CASE h = [g EXCEPT !.typed.assessment.status = "PASS"]
  <2>1. /\ h.mappings = g.mappings /\ h.claim = g.claim
        /\ h.typed = [g.typed EXCEPT !.assessment.status = "PASS"]
    BY <1>4 DEF Parts
  <2>2. h.typed.assessment = [g.typed.assessment EXCEPT !.status = "PASS"]
    BY <2>1 DEF IsTyped
  <2>3. QED
    BY <2>1, <2>2 DEF IsTyped
<1>5. CASE h = [g EXCEPT !.typed.observation.status = "PASS"]
  <2>1. /\ h.mappings = g.mappings /\ h.claim = g.claim
        /\ h.typed = [g.typed EXCEPT !.observation.status = "PASS"]
    BY <1>5 DEF Parts
  <2>2. h.typed.assessment = g.typed.assessment
    BY <2>1 DEF IsTyped
  <2>3. QED
    BY <2>1, <2>2 DEF IsTyped
<1>6. CASE h = [g EXCEPT !.mappings.counts = "validated"]
  <2>1. /\ h.typed = g.typed /\ h.claim = g.claim
        /\ h.mappings = [g.mappings EXCEPT !.counts = "validated"]
    BY <1>6 DEF Parts
  <2>2. QED
    BY <2>1 DEF IsTyped
<1>7. CASE \E raw \in {d \in supplied.later : d.kind \in Roles} :
             \/ h = [g EXCEPT !.sources[raw.kind].bytes = raw]
             \/ h = [g EXCEPT !.sources[raw.kind] = [bytes |-> raw, digest |-> raw]]
             \/ h = [g EXCEPT !.sources[raw.kind] = [bytes |-> raw, digest |-> raw],
                               !.represents[raw.kind] = Representation(raw)]
  BY <1>1, <1>7 DEF Parts, IsTyped
<1>8. QED
  BY <1>2, <1>3, <1>4, <1>5, <1>6, <1>7 DEF Alterations

LEMMA JudgedIsTyped ==
  ASSUME NEW g, IsGraph(g)
  PROVE  Validated(g) \in NonPass \cup {"PASS", "raised"}
<1>1. IsRaw(Bytes(g)["receipt"], "receipt")
  BY RoleSet DEF IsGraph, Bytes
<1>2. Outcome(Bytes(g), g.order) \in NonPass \cup {"PASS"}
  BY <1>1, PassIsDeclared
<1>3. Typed(Bytes(g), g.order).assessment.status = Outcome(Bytes(g), g.order)
  BY DEF Typed
<1>4. QED
  BY <1>2, <1>3 DEF Validated, NonPass

LEMMA ReadInputTypes ==
  ASSUME ReceiptInv, Typing, NEW role \in Roles, NEW next, ReadInput(role, next),
         next \in Roles \cup {"build"}, UNCHANGED bindingVars
  PROVE  Typing'
<1>0. /\ phase = role /\ UNCHANGED <<supplied, evidence, tampered, verdict, part, binding>>
      /\ phase # "idle" /\ next # "built"
  BY RoleSet DEF ReadInput, bindingVars
<1>1. CASE phase' = "refused" /\ UNCHANGED captured
  BY <1>0, <1>1, RoleSet DEF Typing
<1>2. CASE /\ Readable(supplied.files[role])
           /\ captured' = [captured EXCEPT ![role] = supplied.files[role]] /\ phase' = next
  <2> DEFINE raw == supplied.files[role]
  <2>1. raw.kind \in {role, "garbage"}
    BY <1>0, <1>2 DEF ReceiptInv, Captures, IsSupply, Readable, IsRaw
  <2> HIDE DEF raw
  <2>2. captured'[role] = raw /\ \A r \in Roles : r # role => captured'[r] = captured[r]
    BY <1>2 DEF ReceiptInv, Captures, raw
  <2>3. \A r \in Roles : captured'[r] = Absent \/ captured'[r].kind \in {r, "garbage"}
    BY <2>1, <2>2 DEF Typing
  <2>4. QED
    BY <1>0, <1>2, <2>3 DEF Typing
<1>3. QED
  BY <1>1, <1>2 DEF ReadInput

LEMMA WorkflowTypes ==
  ASSUME ReceiptInv, Typing, Workflow, UNCHANGED bindingVars
  PROVE  Typing'
<1>1. CASE CheckReferences
  BY <1>1, RoleSet DEF CheckReferences, Typing, bindingVars
<1>2. CASE ReadInput("bundle", "result")
  BY <1>2, RoleSet, ReadInputTypes
<1>3. CASE ReadInput("result", "receipt")
  BY <1>3, RoleSet, ReadInputTypes
<1>4. CASE ReadInput("receipt", "build")
  BY <1>4, RoleSet, ReadInputTypes
<1>5. CASE BuildEvidence
  <2>1. phase = "build" /\ UNCHANGED <<supplied, captured, tampered, verdict, part, binding>>
    BY <1>5 DEF BuildEvidence, bindingVars
  <2>2. IsTyped(EvidenceOf(captured, supplied.order))
    BY <2>1, BuiltIsTyped DEF ReceiptInv, Captures
  <2>3. QED
    BY <1>5, <2>1, <2>2 DEF BuildEvidence, Typing
<1>6. CASE ValidateEvidence
  <2>1. /\ phase = "built" /\ verdict' = Validated(evidence)
        /\ UNCHANGED <<supplied, captured, evidence, tampered, phase, part, binding>>
    BY <1>6 DEF ValidateEvidence, bindingVars
  <2>2. Validated(evidence) \in NonPass \cup {"PASS", "raised"}
    BY <2>1, JudgedIsTyped DEF ReceiptInv, Preserved
  <2>3. QED
    BY <2>1, <2>2 DEF Typing
<1>7. QED
  BY <1>1, <1>2, <1>3, <1>4, <1>5, <1>6 DEF Workflow

LEMMA TamperTypes ==
  ASSUME ReceiptInv, Typing, Tamper, UNCHANGED bindingVars
  PROVE  Typing'
<1>1. /\ phase = "built" /\ tampered < MaxTampering /\ tampered' = tampered + 1 /\ verdict' = "none"
      /\ UNCHANGED <<supplied, captured, phase, part, binding>> /\ evidence' \in Alterations(evidence)
  BY DEF Tamper, bindingVars
<1>2. IsTyped(evidence')
  BY <1>1, EditedIsTyped DEF Typing, ReceiptInv, Preserved, IsGraph
<1>3. QED
  BY <1>1, <1>2, TamperingAssumption DEF Typing

LEMMA AssessTypes ==
  ASSUME BindingInv, Typing, MakeRequest \/ Assess, UNCHANGED receiptVars
  PROVE  Typing'
<1>1. UNCHANGED <<captured, phase, evidence, tampered, verdict>>
  BY DEF receiptVars
<1> DEFINE Answers == {"bound", "unbound", "invalid_input", "unsupported", "resource_limit"}
<1>2. DOMAIN binding = {"outcome", "selection", "source", "graph", "witness"}
  BY DEF BindingInv, Named
<1>3. CASE part # "done" /\ part' # "done" /\ binding'.outcome = binding.outcome
  BY <1>1, <1>3 DEF Typing
<1>4. CASE part' = "done" /\ binding'.outcome \in Answers
  BY <1>1, <1>4 DEF Typing
<1>5. \A outcome : Refused(outcome) => part' = "done" /\ binding'.outcome = outcome
  BY <1>2 DEF Refused
<1>6. CASE MakeRequest
  BY <1>3, <1>6 DEF MakeRequest
<1>7. CASE AdmitRequest
  BY <1>3, <1>4, <1>5, <1>7 DEF AdmitRequest, Proceed
<1>8. CASE ReplaySelection
  BY <1>2, <1>3, <1>4, <1>5, <1>8 DEF ReplaySelection
<1>9. CASE LeaveUnbound
  BY <1>4, <1>5, <1>9 DEF LeaveUnbound
<1>10. CASE EstablishReferences
  BY <1>2, <1>3, <1>4, <1>5, <1>10 DEF EstablishReferences
<1>11. CASE ReadCommitments
  BY <1>3, <1>4, <1>5, <1>11 DEF ReadCommitments, Proceed
<1>12. CASE AdmitGraph
  BY <1>3, <1>4, <1>5, <1>12 DEF AdmitGraph, Proceed
<1>13. ASSUME NEW role \in Roles, NEW next, next # "done", RecoverCarrier(role, next) PROVE Typing'
  BY <1>3, <1>4, <1>5, <1>13, RoleSet DEF RecoverCarrier, Proceed
<1>14. CASE JudgeEvidence
  BY <1>3, <1>4, <1>5, <1>14 DEF JudgeEvidence, Proceed
<1>15. CASE LinkCommitments
  <2>1. Bind => part' = "done" /\ binding'.outcome = "bound"
    BY <1>2 DEF Bind
  <2>2. QED
    BY <1>4, <1>5, <1>15, <2>1 DEF LinkCommitments
<1>16. CASE RecoverCarrier("bundle", "result") \/ RecoverCarrier("result", "receipt")
            \/ RecoverCarrier("receipt", "evidence")
  BY <1>13, <1>16, RoleSet
<1>17. QED
  BY <1>6, <1>7, <1>8, <1>9, <1>10, <1>11, <1>12, <1>14, <1>15, <1>16 DEF Assess

LEMMA TypingNext ==
  ASSUME Inv, Typing, [Next]_vars
  PROVE  Typing'
<1>1. CASE UNCHANGED <<receiptVars, bindingVars>>
  BY <1>1 DEF receiptVars, bindingVars, Typing, IsTyped
<1>2. CASE Workflow /\ UNCHANGED bindingVars
  BY <1>2, WorkflowTypes DEF Inv
<1>3. CASE ReplaceFile /\ UNCHANGED bindingVars
  BY <1>3 DEF ReplaceFile, bindingVars, Typing, IsTyped
<1>4. CASE Tamper /\ UNCHANGED bindingVars
  BY <1>4, TamperTypes DEF Inv
<1>5. CASE (MakeRequest \/ Assess) /\ UNCHANGED receiptVars
  BY <1>5, AssessTypes DEF Inv
<1>6. QED
  BY <1>1, <1>2, <1>3, <1>4, <1>5 DEF Next, Done, vars, ReceiptNext

LEMMA TypesFollow == Inv /\ Typing => TypeOK
<1> SUFFICES ASSUME Inv, Typing PROVE TypeOK
  OBVIOUS
<1>1. BundleTypeOK
  <2>1. WalkTypeOK
    BY WalkTypes DEF Inv
  <2>2. step \in Steps /\ IsInfos(archive)
    BY DEF Inv, WalkInv, AnchorsInv
  <2>3. receipt = NoReceipt \/ receipt.status \in {"PASS", "FAIL", "raised"}
    <3>1. Receipt.status \in {"PASS", "FAIL"}
      BY DEF Receipt
    <3>2. QED
      BY <3>1 DEF Inv, PackageInv
  <2>4. QED
    BY <2>1, <2>2, <2>3 DEF BundleTypeOK, Steps, Outside, Within
<1>2. ReceiptTypeOK
  <2>1. DOMAIN captured = Roles
    BY DEF Inv, ReceiptInv, Captures
  <2>2. evidence # Absent => IsTyped(evidence) /\ evidence.f1 \in BOOLEAN
    BY DEF Inv, ReceiptInv, Preserved, Typing, IsGraph
  <2>3. QED
    BY <2>1, <2>2 DEF ReceiptTypeOK, Typing, IsTyped
<1>3. BindingTypeOK
  <2>1. part \in {"none", "request", "done", "raised"} \cup After("request")
    BY DEF Inv, BindingInv, Named
  <2>2. QED
    BY <2>1, RoleSet DEF BindingTypeOK, Typing, After
<1>4. QED
  BY <1>1, <1>2, <1>3 DEF TypeOK

\* Every variable of either verification has its type.
THEOREM TypeCorrect == Spec => []TypeOK
<1>1. Init => Inv /\ Typing
  BY InitInv, TypingInit
<1>2. Inv /\ Typing /\ [Next]_vars => Inv' /\ Typing'
  BY NextInv, TypingNext
<1>3. Inv /\ Typing => TypeOK
  BY TypesFollow
<1>4. QED
  BY <1>1, <1>2, <1>3, PTL DEF Spec
=============================================================================
