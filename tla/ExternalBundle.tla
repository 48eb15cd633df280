--------------------------- MODULE ExternalBundle ----------------------------
(***************************************************************************)
(* Verification of a supplied evidence package, e7q.external_bundles:      *)
(* the package is captured (a directory walked, an archive read once), its *)
(* records are found and their documents compared with each other, and a   *)
(* receipt says what that amounts to.                                      *)
(*                                                                         *)
(* A document is one block: a record of the facts the checks compare, the  *)
(* checks that look at one field alone being one fact, sound.  What does   *)
(* not parse as the document its name asks for is any other block.  A      *)
(* digest stands for the block it is of, abbreviated or not.               *)
(***************************************************************************)
EXTENDS DirectoryWalk

CONSTANTS
  NoReceipt     \* no receipt yet

VARIABLES
  archive,      \* the captured bytes of an archive
  receipt       \* the receipt, NoReceipt, or raised

bundleVars ==
  <<limits, disturbed, tree, trees, step, anchors, entry, reading, entries, members, archive, receipt>>

RequiredFiles == {"metadata", "counts", "mapping", "calibration", "circuit", "versions"}

ASSUME NamesAssumption == RequiredFiles \cup {"manifest", "ir"} \subseteq Names

-----------------------------------------------------------------------------
(* Archives.  An archive is a file of one block, the list of its members;  *)
(* a link at the bundle's own path leads to a directory.                   *)

IsArchive(blocks) == Len(blocks) = 1 /\ blocks[1].kind = "archive"

\* The list of an archive's members, as the zip reader gives it.
IsInfos(infos) ==
  /\ infos \in Seq(Range(infos))
  /\ \A i \in DOMAIN infos :
       /\ infos[i].path \in Seq(Names) /\ infos[i].type \in {"file", "dir", "link"}
       /\ IsBlocks(infos[i].data) /\ {infos[i].encrypted, infos[i].bomb} \subseteq BOOLEAN

ASSUME ArchiveAssumption ==
  \A data \in Writings \cup UNION {Range(c.tree.data) : c \in Cases} :
    IsArchive(data) => IsInfos(data[1].infos)

RecogniseArchive ==
  /\ step = "start" /\ TypeOf(tree.root) = "file"
  /\ IF IsArchive(tree.data[tree.root]) THEN step' = "archive" ELSE step' = "refused"
  /\ UNCHANGED <<anchors, entry, reading, entries, members, archive, receipt>>

NothingThere ==
  /\ step = "start" /\ TypeOf(tree.root) \in {"none", "special"}
  /\ step' = "refused"
  /\ UNCHANGED <<anchors, entry, reading, entries, members, archive, receipt>>

Capturable ==
  /\ TypeOf(tree.root) = "file" /\ IsArchive(tree.data[tree.root])
  /\ tree.data[tree.root][1].size <= limits.archive

\* The one reading of it; its size is looked at before and after.
CaptureArchive ==
  /\ step = "archive"
  /\ IF Capturable
     THEN archive' = tree.data[tree.root][1].infos /\ step' = "inspect-archive"
     ELSE step' = "refused" /\ UNCHANGED archive
  /\ UNCHANGED <<anchors, entry, reading, entries, members, receipt>>

\* What is refused of a member before its size matters: directories included.
SafeInfos(infos) ==
  /\ Len(infos) <= limits.files
  /\ \A i \in DOMAIN infos :
       /\ Range(infos[i].path) \cap Unsafe = {}
       /\ infos[i].type # "link" /\ ~infos[i].encrypted
       /\ \A j \in 1 .. i - 1 : infos[j].path # infos[i].path

IsFileInfo(info) == info.type = "file"

\* The declared sizes are summed up in order; the first excess ends it.
BoundedInfos(infos) ==
  LET Sum[i \in 0 .. Len(infos)] ==
        IF i = 0 THEN 0
        ELSE Sum[i - 1] + (IF IsFileInfo(infos[i]) THEN Len(infos[i].data) ELSE 0)
  IN  \A i \in {j \in DOMAIN infos : IsFileInfo(infos[j])} :
        /\ Len(infos[i].data) <= limits.fileSize
        /\ Sum[i] <= limits.total /\ ~infos[i].bomb

InspectArchive ==
  /\ step = "inspect-archive"
  /\ IF SafeInfos(archive) /\ BoundedInfos(archive)
     THEN /\ members' = LET files == {archive[i] : i \in {j \in DOMAIN archive : IsFileInfo(archive[j])}}
                        IN  [p \in {f.path : f \in files} |-> (CHOOSE f \in files : f.path = p).data]
          /\ step' = "loaded"
     ELSE step' = "refused" /\ UNCHANGED members
  /\ UNCHANGED <<anchors, entry, reading, entries, archive, receipt>>

-----------------------------------------------------------------------------
(* The checks of one record: the documents under a prefix.                 *)

Error(name, ok)   == [name |-> name, passed |-> ok, severity |-> "error"]
Warning(name, ok) == [name |-> name, passed |-> ok, severity |-> "warning"]

Has(prefix, name) == Append(prefix, name) \in DOMAIN members
Raw(prefix, name) == members[Append(prefix, name)]

\* It is there, and parses as what its name says.
Reads(prefix, name) == Has(prefix, name) /\ Len(Raw(prefix, name)) = 1 /\ Raw(prefix, name)[1].kind = name
Doc(prefix, name) == Raw(prefix, name)[1]

ParseChecks(prefix) ==
  {Error("required-file", \A f \in RequiredFiles : Has(prefix, f)),
   Error("parse", \A f \in RequiredFiles \cup {"ir"} : Has(prefix, f) => Reads(prefix, f))}

MetadataChecks(meta) ==
  {Error("metadata", meta.sound), Error("shots", meta.shots > 0),
   Warning("completion-time", meta.times # {}), Warning("terminal-status", meta.done)}
  \cup (IF Cardinality(meta.times) > 1 THEN {Error("completion-times-consistent", FALSE)} ELSE {})

\* The width of the outcomes, if they have one; of undecided counts, none.
OutcomeWidth(counts) == IF counts.legal THEN {counts.width} ELSE {}

CountsChecks(counts, shots) ==
  {Warning("label-order-declared", counts.order # "absent"),
   Error("label-order-supported", counts.order # "unsupported"),
   Error("counts", counts.legal)}
  \cup (IF counts.legal
        THEN {Error("sum-to-shots", shots = {counts.sum}),
              Error("declared-total", counts.total = counts.sum),
              Error("declared-unique", counts.unique = counts.outcomes)}
        ELSE {})

CircuitChecks(circuit, meta, widths, registers) ==
  {Error("declared-registers", registers \subseteq {circuit.register}),
   Error("device-width", circuit.qubits = meta.device),
   Error("qasm-outcome-width", widths = {circuit.bits}),
   Error("operation-counts", circuit.operations = meta.operations)}

MappingChecks(mapping, widths, circuits) ==
  {Error("measurement-map", mapping.legal), Error("active-qubits", mapping.activeLegal),
   Error("active-in-range", mapping.activeLegal /\ mapping.active \subseteq 0 .. mapping.device - 1),
   Error("active-count", mapping.activeLegal /\ mapping.activeCount = Cardinality(mapping.active)),
   Error("layouts", mapping.layouts)}
  \cup (IF mapping.legal
        THEN {Error("complete-clbits", mapping.complete),
              Error("mapping-outcome-width",
                    mapping.bits = Len(mapping.measured) /\ widths = {mapping.bits})}
             \cup {Error("qasm-measurements", c.measured = mapping.measured) : c \in circuits}
        ELSE {})
  \cup (IF mapping.activeLegal
        THEN UNION {{Error("qasm-active", c.active = mapping.active),
                     Error("qasm-width", c.qubits = mapping.device)} : c \in circuits}
        ELSE {})

\* A list with repetitions, which is no legal one, is covered all the same.
CalibrationChecks(calibration, circuit, mapping) ==
  {Error("active-qubit-coverage", mapping.active \subseteq calibration.qubits),
   Warning("two-qubit-edge-coverage", circuit.edges \subseteq calibration.edges)}

IrChecks(ir) ==
  {Error("declared-gate-count", ir.counted), Warning("measurement-destinations", ir.destinations)}
  \cup (IF ir.counted THEN {Warning("pre-qasm-alignment", ir.aligned)} ELSE {})

\* The build is the metadata's or, failing that, the versions'.
BuildChecks(metas, versions) ==
  LET named == {m.build : m \in metas} \ {"absent"}
      build == IF named # {} THEN named ELSE {v.build : v \in versions}
  IN  {Warning("stable-compiler-build", build = {"stable"})}

\* A mutant: a listed file that is not there is not a mismatch.
RowMatchesIfThere(prefix, row) ==
  row.file \notin Unsafe /\ (Has(prefix, row.file) => Raw(prefix, row.file) = row.digest)

RowMatches(prefix, row) ==
  row.file \notin Unsafe /\ Has(prefix, row.file) /\ Raw(prefix, row.file) = row.digest

\* A manifest nobody supplied leaves the integrity open; one that lists less than all
\* required files, or digests cut short, does not settle it.
Integrity(prefix) ==
  IF ~Has(prefix, "manifest") THEN "PARTIAL"
  ELSE IF ~Reads(prefix, "manifest") \/ Doc(prefix, "manifest").rows = {} THEN "FAIL"
  ELSE LET rows == Doc(prefix, "manifest").rows
       IN  IF \E row \in rows : ~RowMatches(prefix, row) THEN "FAIL"
           ELSE IF /\ RequiredFiles \subseteq {row.file : row \in rows}
                   /\ \A row \in rows : row.full
                THEN "PASS" ELSE "PARTIAL"

ManifestChecks(prefix) == {Error("manifest", Integrity(prefix) # "FAIL")}

\* The documents of a kind that are there to be compared: one or none.
Read(prefix, name) == IF Reads(prefix, name) THEN {Doc(prefix, name)} ELSE {}

\* What counts and circuit are compared with.
Shots(prefix)     == {m.shots : m \in Read(prefix, "metadata")}
Widths(prefix)    == UNION {OutcomeWidth(c) : c \in Read(prefix, "counts")}
Registers(prefix) == UNION {c.register : c \in Read(prefix, "counts")}

Checks(prefix) ==
  LET metas    == Read(prefix, "metadata")   counts == Read(prefix, "counts")
      circuits == Read(prefix, "circuit")    maps   == Read(prefix, "mapping")
  IN  UNION ({ParseChecks(prefix), ManifestChecks(prefix), BuildChecks(metas, Read(prefix, "versions"))}
             \cup {MetadataChecks(m) : m \in metas}
             \cup {CountsChecks(c, Shots(prefix)) : c \in counts}
             \cup {CircuitChecks(c, m, Widths(prefix), Registers(prefix)) : c \in circuits, m \in metas}
             \cup {MappingChecks(m, Widths(prefix), circuits) : m \in maps}
             \cup {CalibrationChecks(k, c, m) :
                      k \in Read(prefix, "calibration"), c \in circuits, m \in maps}
             \cup {IrChecks(i) : i \in Read(prefix, "ir")})

Record(prefix) ==
  LET failed == {c \in Checks(prefix) : ~c.passed}
  IN  [path |-> prefix,
       status |-> IF \E c \in failed : c.severity = "error" THEN "FAIL" ELSE "PASS",
       integrity |-> Integrity(prefix),
       warnings |-> {c.name : c \in {f \in failed : f.severity = "warning"}}]

\* A record is wherever there is a job's metadata.
RecordPaths == {Front(p) : p \in {q \in DOMAIN members : Last(q) = "metadata"}}

Worst(statuses) ==
  IF "FAIL" \in statuses THEN "FAIL" ELSE IF "PARTIAL" \in statuses THEN "PARTIAL" ELSE "PASS"

\* A mutant: an open integrity stays the status.
ReceiptOfWorst ==
  LET records   == {Record(p) : p \in RecordPaths}
      integrity == Worst({r.integrity : r \in records})
      internal  == IF \A r \in records : r.status = "PASS" THEN "PASS" ELSE "FAIL"
  IN  [records |-> records, integrity |-> integrity, internal |-> internal,
       status |-> Worst({integrity, internal})]

Receipt ==
  LET records   == {Record(p) : p \in RecordPaths}
      integrity == Worst({r.integrity : r \in records})
      internal  == IF \A r \in records : r.status = "PASS" THEN "PASS" ELSE "FAIL"
  IN  [records |-> records, integrity |-> integrity, internal |-> internal,
       status |-> IF integrity # "FAIL" /\ internal = "PASS" THEN "PASS" ELSE "FAIL"]

Verify ==
  /\ step = "loaded" /\ receipt = NoReceipt
  /\ receipt' = IF RecordPaths = {} THEN [status |-> "raised"] ELSE Receipt
  /\ UNCHANGED <<fileVars, walkVars, archive>>

-----------------------------------------------------------------------------
BundleInit == WalkInit /\ archive = <<>> /\ receipt = NoReceipt

BundleIdle == WalkIdle /\ archive = <<>> /\ receipt = NoReceipt

BundleEnded == step = "refused" \/ receipt # NoReceipt

BundleNext ==
  \/ WalkStep /\ UNCHANGED <<archive, receipt>>
  \/ (RecogniseArchive \/ NothingThere \/ CaptureArchive \/ InspectArchive) /\ UNCHANGED fileVars
  \/ EditStep /\ UNCHANGED <<archive, receipt>>
  \/ Verify

-----------------------------------------------------------------------------
\* Every variable of the verification has its type.
BundleTypeOK ==
  /\ WalkTypeOK
  /\ step \in {"idle", "start", "archive", "inspect-archive", "root", "open-root", "scan", "next",
               "open-directory", "open-file", "read", "check", "loaded", "refused"}
  /\ IsInfos(archive)
  /\ receipt = NoReceipt \/ receipt.status \in {"PASS", "FAIL", "raised"}

\* One story told by every document of a record.
Coherent(prefix) ==
  /\ \A f \in RequiredFiles : Reads(prefix, f)
  /\ LET meta == Doc(prefix, "metadata")   counts  == Doc(prefix, "counts")
         map  == Doc(prefix, "mapping")    circuit == Doc(prefix, "circuit")
     IN  /\ meta.sound /\ counts.legal /\ map.legal /\ map.activeLegal
         /\ {meta.shots, counts.sum, counts.total} = {meta.shots} /\ meta.shots > 0
         /\ counts.unique = counts.outcomes
         /\ Cardinality({counts.width, circuit.bits, map.bits, Len(map.measured)}) = 1
         /\ Cardinality({meta.device, map.device, circuit.qubits}) = 1
         /\ circuit.measured = map.measured /\ circuit.active = map.active
         /\ map.active \subseteq 0 .. map.device - 1
         /\ map.active \subseteq Doc(prefix, "calibration").qubits
         /\ meta.operations = circuit.operations
  /\ Has(prefix, "manifest") =>
       /\ Reads(prefix, "manifest")
       /\ \A row \in Doc(prefix, "manifest").rows :
            Has(prefix, row.file) /\ Raw(prefix, row.file) = row.digest

\* A receipt passes only a package whose every record tells one story: no comparison
\* between two documents was skipped because one of them was missing, malformed or of
\* no use to it, and no manifest row contradicts the bytes received.  Its integrity
\* passes only if whole digests of all required files, of every record, were supplied.
ReceiptIsEarned ==
  receipt # NoReceipt /\ receipt.status # "raised" =>
    /\ RecordPaths # {}
    /\ receipt.status = "PASS" => \A p \in RecordPaths : Coherent(p)
    /\ receipt.integrity = "PASS" =>
         \A p \in RecordPaths : Reads(p, "manifest") /\ \A f \in RequiredFiles :
           \E row \in Doc(p, "manifest").rows :
             row.file = f /\ row.full /\ Has(p, f) /\ Raw(p, f) = row.digest
=============================================================================
