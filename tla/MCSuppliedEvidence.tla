------------------------- MODULE MCSuppliedEvidence --------------------------
(***************************************************************************)
(* A root, two directories, three files, a link and a special file.  Some  *)
(* trees are inspected undisturbed, on either side of each limit; a few,   *)
(* with room in the limits, while two edits happen.  Archives hold a sound *)
(* record with a manifest, and every record one or two facts away from it. *)
(*                                                                         *)
(* The three files of an execution tell one story, or are one or two facts *)
(* away from it; some are replaced while they are read.  The graph made of *)
(* them is edited once, and a request is the right one or off by a fact.   *)
(***************************************************************************)
EXTENDS SuppliedEvidence, TLC

CONSTANTS root, sub, other, fileA, fileB, spare, link, special, src, src2

Blob(v) == [kind |-> "blob", value |-> v]

NoEntries == [n \in Nodes |-> <<>>]

Types0 == [n \in Nodes |->
             CASE n \in {root, sub, other} -> "dir" [] n = link -> "link"
               [] n = special -> "special" [] OTHER -> "file"]

Tree(rootEntries, subEntries, data) ==
  [type |-> Types0, mtime |-> [n \in Nodes |-> 0], root |-> root,
   data |-> [n \in Nodes |-> IF n \in DOMAIN data THEN data[n] ELSE <<Blob("s")>>],
   entry |-> [n \in Nodes |-> IF n = root THEN rootEntries ELSE IF n = sub THEN subEntries ELSE <<>>]]

Partial(D, R) == UNION {[S -> R] : S \in SUBSET D}
Injective(h) == \A x, y \in DOMAIN h : x # y => h[x] # h[y]

Blocks(n) == [i \in 1 .. n |-> Blob("a")]

QuietTrees ==
  {Tree(r, s, fileA :> Blocks(i) @@ fileB :> Blocks(j)) :
     r \in {h \in Partial({"a", "b", "evil"}, {fileA, sub, link, special}) : Injective(h)},
     s \in {h \in Partial({"a", "b"}, {fileB, other}) : Injective(h)},
     i \in 1 .. 2, j \in 1 .. 2}

MCDisturbed ==
  {Tree("a" :> fileA @@ "b" :> sub, "a" :> fileB, fileA :> Blocks(1) @@ fileB :> Blocks(2))}

-----------------------------------------------------------------------------
Meta == [kind |-> "metadata", sound |-> TRUE, shots |-> 2, times |-> {1}, done |-> TRUE,
         device |-> 2, operations |-> "ops", build |-> "stable"]
Counts == [kind |-> "counts", order |-> "supported", legal |-> TRUE, width |-> 1, sum |-> 2,
           outcomes |-> 2, total |-> 2, unique |-> 2, register |-> {"c"}]
Circuit == [kind |-> "circuit", qubits |-> 2, bits |-> 1, register |-> "c", operations |-> "ops",
            measured |-> <<1>>, active |-> {0, 1}, edges |-> {"e"}]
Mapping == [kind |-> "mapping", legal |-> TRUE, complete |-> TRUE, measured |-> <<1>>, bits |-> 1,
            activeLegal |-> TRUE, active |-> {0, 1}, activeCount |-> 2, device |-> 2, layouts |-> TRUE]
Calibration == [kind |-> "calibration", qubits |-> {0, 1}, edges |-> {"e"}]
Versions == [kind |-> "versions", build |-> "stable"]
Ir == [kind |-> "ir", counted |-> TRUE, destinations |-> TRUE, aligned |-> TRUE]

Package == [metadata |-> Meta, counts |-> Counts, circuit |-> Circuit, mapping |-> Mapping,
            calibration |-> Calibration, versions |-> Versions, ir |-> Ir]

\* What may be said instead in one document; "gone" and unreadable among it.
Variants(name) ==
  {Blob("x")} \cup
  (CASE name = "metadata" ->
          {[Meta EXCEPT !.sound = FALSE], [Meta EXCEPT !.shots = 0], [Meta EXCEPT !.shots = 1],
           [Meta EXCEPT !.times = {1, 2}], [Meta EXCEPT !.device = 3], [Meta EXCEPT !.operations = "more"],
           [Meta EXCEPT !.build = "absent"], [Meta EXCEPT !.times = {}, !.done = FALSE]}
     [] name = "counts" ->
          {[Counts EXCEPT !.legal = FALSE], [Counts EXCEPT !.sum = 1, !.total = 1],
           [Counts EXCEPT !.total = 1], [Counts EXCEPT !.width = 2], [Counts EXCEPT !.unique = 1],
           [Counts EXCEPT !.order = "unsupported"], [Counts EXCEPT !.register = {"d"}],
           [Counts EXCEPT !.register = {}, !.order = "absent"]}
     [] name = "circuit" ->
          {[Circuit EXCEPT !.qubits = 3], [Circuit EXCEPT !.bits = 2], [Circuit EXCEPT !.measured = <<0>>],
           [Circuit EXCEPT !.active = {0}], [Circuit EXCEPT !.operations = "more"], [Circuit EXCEPT !.edges = {"e", "h"}]}
     [] name = "mapping" ->
          {[Mapping EXCEPT !.legal = FALSE], [Mapping EXCEPT !.complete = FALSE], [Mapping EXCEPT !.bits = 2],
           [Mapping EXCEPT !.measured = <<0>>], [Mapping EXCEPT !.activeLegal = FALSE],
           [Mapping EXCEPT !.active = {1}], [Mapping EXCEPT !.active = {0, 5}],
           [Mapping EXCEPT !.device = 3], [Mapping EXCEPT !.device = 1], [Mapping EXCEPT !.activeCount = 1]}
     [] name = "calibration" -> {[Calibration EXCEPT !.qubits = {0}], [Calibration EXCEPT !.edges = {}]}
     [] name = "versions" -> {[Versions EXCEPT !.build = "local"]}
     [] name = "ir" -> {[Ir EXCEPT !.counted = FALSE], [Ir EXCEPT !.destinations = FALSE, !.aligned = FALSE]})

Row(file, full) == [file |-> file, digest |-> <<Package[file]>>, full |-> full]
Manifests ==
  {{}, {Row("counts", TRUE)}, {Row(n, TRUE) : n \in RequiredFiles},
   {Row(n, n # "mapping") : n \in RequiredFiles},
   {Row(n, TRUE) : n \in RequiredFiles} \cup {[Row("ir", TRUE) EXCEPT !.file = "evil"]}}

\* Packages: what each name holds.
Altered ==
  UNION {{[Package EXCEPT ![n] = v] : v \in Variants(n)} : n \in DOMAIN Package}
Twice ==
  UNION {{[p EXCEPT ![n] = v] : v \in Variants(n)} :
           p \in Altered, n \in {"counts", "circuit", "mapping"}}
Less == {[k \in DOMAIN Package \ {n} |-> Package[k]] : n \in DOMAIN Package}

WithManifest(p, rows) == p @@ "manifest" :> [kind |-> "manifest", rows |-> rows]

Info(path, type, data) ==
  [path |-> path, type |-> type, data |-> data, encrypted |-> FALSE, bomb |-> FALSE]

Order == <<"manifest", "metadata", "counts", "circuit", "mapping", "calibration", "versions", "ir">>

Infos(prefix, p) ==
  LET Held(n) == n \in DOMAIN p
      names == SelectSeq(Order, Held)
  IN  [i \in DOMAIN names |-> Info(Append(prefix, names[i]), "file", <<p[names[i]]>>)]

OddInfos ==
  {Infos(<<>>, Package) \o s :
     s \in {<<Info(<<"a", "evil">>, "dir", <<>>)>>, <<Info(<<"counts">>, "file", <<Meta>>)>>,
            <<Info(<<"a">>, "link", <<>>)>>, <<Info(<<"a">>, "dir", <<>>)>>,
            <<[Info(<<"a">>, "file", <<>>) EXCEPT !.encrypted = TRUE]>>,
            <<[Info(<<"a">>, "file", <<>>) EXCEPT !.bomb = TRUE]>>,
            <<Info(<<"a">>, "file", Blocks(3))>>,
            Infos(<<"a">>, Package), Infos(<<"a">>, [k \in {"metadata"} |-> Meta]),
            <<Info(<<"a">>, "file", Blocks(2)), Info(<<"b">>, "file", Blocks(2))>>}}

Packed(infos, size) ==
  [Tree(<<>>, <<>>, fileA :> <<[kind |-> "archive", infos |-> infos, size |-> size]>>) EXCEPT !.root = fileA]

Archives ==
  {Packed(Infos(<<>>, p), 1) :
     p \in {Package} \cup Altered \cup Twice \cup Less
           \cup {WithManifest(p, rows) : p \in {Package} \cup Altered \cup Less, rows \in Manifests}}
  \cup {Packed(i, 1) : i \in OddInfos}
  \cup {Packed(Infos(<<>>, Package), 2), Packed(<<>>, 1)}

Small == [entries |-> 4, depth |-> 1, files |-> 2, fileSize |-> 2, total |-> 2, archive |-> 1]
Roomy == [entries |-> 6, depth |-> 1, files |-> 13, fileSize |-> 2, total |-> 16, archive |-> 1]

Case(t, l, d) == [tree |-> t, limits |-> l, disturbed |-> d]

MCCases ==
  {Case(t, Small, FALSE) : t \in QuietTrees}
  \cup {Case(t, Roomy, TRUE) : t \in MCDisturbed}
  \cup {Case(t, Roomy, FALSE) : t \in Archives}
  \cup {Case([Tree(<<>>, <<>>, <<>>) EXCEPT !.root = n], Small, FALSE) : n \in {Nothing, link, special, fileA}}
  \cup {Case(Packed(Infos(<<>>, Package), 1), Roomy, TRUE)}

MCWritings == {Blocks(1), Blocks(3), <<Blob("b"), Blob("b")>>}

MCNodes == {root, sub, other, fileA, fileB, spare, link, special}
MCNames == {"a", "b", "evil", "metadata", "counts", "circuit", "mapping", "calibration", "versions", "ir", "manifest"}

-----------------------------------------------------------------------------
(* Executions.  A program is a number. *)

Bundle == [kind |-> "bundle", schema |-> "own", conforms |-> TRUE, ready |-> TRUE, source |-> src,
           declared |-> 1, program |-> 1, compiled |-> TRUE, target |-> "t", shots |-> 2]
Result(b) == [kind |-> "result", schema |-> "own", conforms |-> TRUE, complete |-> TRUE, typed |-> TRUE,
              bundle |-> b, target |-> "t", shots |-> [value |-> 2, integer |-> TRUE],
              counts |-> "0" :> 1 @@ "1" :> 1, legal |-> TRUE, order |-> Absent]
Repeats(b, r) == ExecutionReceipt(b, r) @@ "kind" :> "receipt" @@ "conforms" :> TRUE

Sound == [bundle |-> Bundle, result |-> Result(Bundle), receipt |-> Repeats(Bundle, Result(Bundle))]

\* A truth value where an integer is asked for.
OneShot == [value |-> 1, integer |-> FALSE]
NoShots == [value |-> 0, integer |-> TRUE]

Bundles ==
  {[Bundle EXCEPT !.schema = "other"], [Bundle EXCEPT !.conforms = FALSE], [Bundle EXCEPT !.ready = FALSE],
   [Bundle EXCEPT !.source = Malformed], [Bundle EXCEPT !.source = src2],
   [Bundle EXCEPT !.declared = 2], [Bundle EXCEPT !.compiled = FALSE],
   [Bundle EXCEPT !.target = "u"], [Bundle EXCEPT !.shots = 1], [Bundle EXCEPT !.shots = 0]}
Results(b) ==
  {[Result(b) EXCEPT !.bundle = Absent], [Result(b) EXCEPT !.bundle = Malformed],
   [Result(b) EXCEPT !.schema = "other"], [Result(b) EXCEPT !.complete = FALSE],
   [Result(b) EXCEPT !.typed = FALSE], [Result(b) EXCEPT !.target = "u"],
   [Result(b) EXCEPT !.shots = OneShot, !.counts = "0" :> 1], [Result(b) EXCEPT !.counts = "0" :> 1],
   [Result(b) EXCEPT !.shots = NoShots, !.counts = "0" :> 0],
   [Result(b) EXCEPT !.legal = FALSE], [Result(b) EXCEPT !.order = "big"], [Result(b) EXCEPT !.order = "odd"]}
Receipts(p) ==
  {[p EXCEPT !.schema = "other"], [p EXCEPT !.conforms = FALSE], [p EXCEPT !.result = Malformed],
   [p EXCEPT !.bundle = Malformed], [p EXCEPT !.target = "u"], [p EXCEPT !.counts = "0" :> 2],
   [p EXCEPT !.shots = 1], [p EXCEPT !.rest = "differs"], [p EXCEPT !.status = "odd"],
   [p EXCEPT !.status = "FAIL"], [p EXCEPT !.status = "NOT_ASSESSED"], [p EXCEPT !.status = Malformed]}

Garbage == [kind |-> "garbage"]
Oversized == [kind |-> "oversized"]

\* The receipt of a bundle and a result is one that was computed, or still the sound one.
Triples(b, r) == {[bundle |-> b, result |-> r, receipt |-> p] : p \in {Repeats(b, r), Sound.receipt}}

Executions ==
  {Sound}
  \cup {[Sound EXCEPT ![role] = raw] : role \in Roles, raw \in {Absent, Garbage, Oversized}}
  \cup UNION {Triples(b, Result(b)) : b \in Bundles}
  \cup UNION {Triples(Bundle, r) : r \in Results(Bundle)}
  \cup UNION {Triples(b, r) : b \in Bundles, r \in Results(Bundle)}
  \cup {[Sound EXCEPT !.receipt = p] : p \in Receipts(Sound.receipt)}
  \cup UNION {{[bundle |-> Bundle, result |-> r, receipt |-> p] : p \in Receipts(Repeats(Bundle, r))} : r \in Results(Bundle)}

Of(files, order, distinct, later) ==
  [files |-> files, order |-> order, distinct |-> distinct, later |-> later]

OtherBundle == [Bundle EXCEPT !.target = "u"]
OtherResult == [Result(Bundle) EXCEPT !.counts = "0" :> 2]
NoResult == [Result(Bundle) EXCEPT !.shots = NoShots, !.counts = "0" :> 0]
Undecided == [Sound.receipt EXCEPT !.status = Malformed]

MCSupplied ==
  {Of(x, "little", TRUE, {}) : x \in Executions}
  \cup {Of(Sound, "odd", TRUE, {}), Of(Sound, "little", FALSE, {})}
  \cup {Of(Sound, "big", TRUE, {OtherBundle, OtherResult, Repeats(Bundle, OtherResult)})}
  \cup {Of(Sound, "little", TRUE, {NoResult, Undecided})}

\* Requests of a graph: the right one, and each that is off by one fact.
Member == [source |-> src, bundle |-> Bundle, program |-> 1, target |-> "t"]
Plan == [outcome |-> "unique", replays |-> TRUE, linked |-> TRUE, retained |-> TRUE, source |-> src,
         member |-> Member]
Request(gr) ==
  [shape |-> "fine", supported |-> TRUE, source |-> src, graph |-> Identity(gr), bytes |-> src,
   withGraph |-> TRUE, fits |-> Roles \cup {"source", "graph"}, plan |-> Plan]

\* What a member commits itself to who takes a bundle at its word.
CommittedTo(b) ==
  IF b.kind # "bundle" THEN Member
  ELSE [source |-> b.source, bundle |-> b, program |-> b.declared, target |-> b.target]

Members ==
  {Absent, [Member EXCEPT !.source = Malformed], [Member EXCEPT !.source = src2],
   [Member EXCEPT !.bundle = OtherBundle], [Member EXCEPT !.program = 2], [Member EXCEPT !.target = "u"]}

Plans ==
  {[Plan EXCEPT !.outcome = o] : o \in {"ambiguous", "refused"}}
  \cup {[Plan EXCEPT !.replays = FALSE], [Plan EXCEPT !.linked = FALSE], [Plan EXCEPT !.retained = FALSE],
        [Plan EXCEPT !.source = src2]}
  \cup {[Plan EXCEPT !.member = m] : m \in Members}

Nothing2(q) == [q EXCEPT !.source = Absent, !.graph = Absent, !.bytes = Absent, !.withGraph = FALSE]

MCRequests(gr) ==
  LET q == Request(gr)
  IN  IF gr # EvidenceOf(Sound, "little") THEN {q, [q EXCEPT !.plan.member = CommittedTo(gr.sources["bundle"].digest)]}
      ELSE {q} \cup {[q EXCEPT !.shape = s] : s \in {"invalid_input", "resource_limit"}}
           \cup {[q EXCEPT !.supported = FALSE], [q EXCEPT !.source = src2], [q EXCEPT !.source = Absent],
                 [q EXCEPT !.bytes = src2], [q EXCEPT !.graph = Absent], [q EXCEPT !.withGraph = FALSE],
                 [q EXCEPT !.graph.claim = ~@], [q EXCEPT !.source = src2, !.bytes = src2]}
           \cup {[q EXCEPT !.fits = @ \ {x}] : x \in Roles \cup {"source", "graph"}}
           \cup {[q EXCEPT !.plan = p] : p \in Plans}
           \cup {[Nothing2(q) EXCEPT !.plan = p] : p \in Plans}
=============================================================================
