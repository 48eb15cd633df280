---------------------------- MODULE DirectoryWalk ----------------------------
(***************************************************************************)
(* The bounded inspection of a supplied directory by                       *)
(* e7q.external_bundles._load_directory, anchored at descriptors, while    *)
(* somebody else moves, replaces and rewrites what is inspected.           *)
(*                                                                         *)
(* Two accesses of the walk to the file system are never one step, but for *)
(* an open and the fstat of the descriptor it gave: the fstat adds only    *)
(* the size and time from which the reading is watched.                    *)
(***************************************************************************)
EXTENDS Integers, FiniteSets, SequencesExt, FiniteSetsExt

CONSTANTS
  Nodes,        \* the inodes
  Names,        \* names of directory entries
  Unsafe,       \* those _member_name refuses
  Nothing,      \* no node
  Cases,        \* a file system to begin with, the limits, and whether somebody edits it
  Placings,     \* names an editor gives
  Writings,     \* what an editor may write to a file
  MaxEdits      \* bound: edits of one behaviour

Types == {"file", "dir", "link", "special"}

\* The contents of a file: a block after the other.
IsBlocks(b) == b \in Seq(Range(b))

\* A file system: each inode's type, a file's blocks and modification time, a
\* directory's entries, and the inode the bundle's own path leads to.
IsTree(t) ==
  /\ DOMAIN t = {"type", "data", "mtime", "entry", "root"}
  /\ t.type \in [Nodes -> Types] /\ t.root \in Nodes \cup {Nothing}
  /\ DOMAIN t.data = Nodes /\ \A n \in Nodes : IsBlocks(t.data[n])
  /\ t.mtime \in [Nodes -> Nat]
  /\ DOMAIN t.entry = Nodes
  /\ \A n \in Nodes : /\ IsFiniteSet(DOMAIN t.entry[n]) /\ DOMAIN t.entry[n] \subseteq Names
                      /\ \A m \in DOMAIN t.entry[n] : t.entry[n][m] \in Nodes

\* The code's limits, of the size of an instance.
Limits == [entries : Nat, depth : Nat, files : Nat, fileSize : Nat, total : Nat, archive : Nat]

ASSUME WalkAssumption ==
  /\ Nothing \notin Nodes /\ Unsafe \cup Placings \subseteq Names
  /\ Cases # {} /\ MaxEdits \in Nat /\ \A w \in Writings : IsBlocks(w)
  /\ \A c \in Cases : IsTree(c.tree) /\ c.limits \in Limits /\ c.disturbed \in BOOLEAN

VARIABLES
  limits,       \* the limits in force
  disturbed,    \* somebody edits the tree
  tree,         \* the file system
  trees,        \* history: every file system there has been, in order
  step,         \* what the walk does next, or how it ended
  anchors,      \* the open directories: inode, path, and names not yet returned
  entry,        \* the entry under inspection
  reading,      \* the file being read: size and time at its opening, and the blocks so far
  entries,      \* entries met
  members       \* the accepted files: path to blocks

walkVars == <<step, anchors, entry, reading, entries, members>>
fileVars == <<limits, disturbed, tree, trees>>

-----------------------------------------------------------------------------
NoEntry == [path |-> <<>>, node |-> Nothing, type |-> "dir"]
NotReading == [node |-> Nothing, size |-> 0, mtime |-> 0, budget |-> 0, blocks |-> <<>>]

Anchor == Last(anchors)
Total == MapThenSumSet(LAMBDA p : Len(members[p]), DOMAIN members)
Lesser(a, b) == IF a < b THEN a ELSE b

\* A mutant: what the other files took is forgotten.
BudgetOfFile == limits.fileSize

\* What is read of a file at most: with one byte more than is left, to notice growth.
Budget == Lesser(limits.fileSize, limits.total - Total)

\* What name leads to in the open directory.
Found(name) == IF name \in DOMAIN tree.entry[Anchor.node] THEN tree.entry[Anchor.node][name] ELSE Nothing

TypeOf(node) == IF node = Nothing THEN "none" ELSE tree.type[node]

\* E7QError, and no descriptor stays open.
Refuse ==
  /\ step' = "refused" /\ anchors' = <<>> /\ reading' = NotReading /\ entry' = NoEntry
  /\ UNCHANGED <<entries, members>>

-----------------------------------------------------------------------------
WalkInit ==
  /\ \E c \in Cases : tree = c.tree /\ limits = c.limits /\ disturbed = c.disturbed
  /\ trees = <<tree>>
  /\ step = "start"
  /\ anchors = <<>> /\ entry = NoEntry /\ reading = NotReading
  /\ entries = 0 /\ members = <<>>

\* Nothing was handed over.
WalkIdle ==
  /\ LET c == CHOOSE c \in Cases : TRUE IN tree = c.tree /\ limits = c.limits
  /\ disturbed = FALSE /\ trees = <<tree>> /\ step = "idle"
  /\ anchors = <<>> /\ entry = NoEntry /\ reading = NotReading
  /\ entries = 0 /\ members = <<>>

\* _load_source: is_dir follows a link.
RecogniseDirectory ==
  /\ step = "start" /\ TypeOf(tree.root) \in {"dir", "link"}
  /\ step' = "root"
  /\ UNCHANGED <<anchors, entry, reading, entries, members>>

\* The bundle's own path, not following a link.
InspectRoot ==
  /\ step = "root"
  /\ \/ TypeOf(tree.root) \in {"none", "link"} /\ Refuse
     \/ /\ TypeOf(tree.root) \notin {"none", "link"}
        /\ entry' = [path |-> <<>>, node |-> tree.root, type |-> TypeOf(tree.root)]
        /\ step' = "open-root"
        /\ UNCHANGED <<anchors, reading, entries, members>>

\* _same_directory_entry.
Same(node) == node = entry.node /\ TypeOf(node) = entry.type

OpenDirectory(node) ==
  \/ ~(TypeOf(node) = "dir" /\ Same(node)) /\ Refuse
  \/ /\ TypeOf(node) = "dir" /\ Same(node)
     /\ anchors' = Append(anchors, [node |-> node, path |-> entry.path, left |-> {}])
     /\ step' = "scan"
     /\ UNCHANGED <<entry, reading, entries, members>>

OpenRoot == step = "open-root" /\ OpenDirectory(tree.root)
OpenChild == step = "open-directory" /\ OpenDirectory(Found(Last(entry.path)))

\* scandir returns the names there were when it was called, in any order.
Scan ==
  /\ step = "scan"
  /\ anchors' = [anchors EXCEPT ![Len(anchors)].left = DOMAIN tree.entry[Anchor.node]]
  /\ step' = "next" /\ entry' = NoEntry
  /\ UNCHANGED <<reading, entries, members>>

-----------------------------------------------------------------------------
\* An entry that is gone, or of no admissible kind, ends the inspection.
Inadmissible(name, node) ==
  \/ entries >= limits.entries
  \/ name \in Unsafe
  \/ TypeOf(node) \in {"none", "link", "special"}
  \/ TypeOf(node) = "dir" /\ Len(anchors) > limits.depth
  \/ TypeOf(node) = "file" /\ (Cardinality(DOMAIN members) >= limits.files
                                 \/ Len(tree.data[node]) > Budget)

\* The next name, inspected without following it.
Inspect ==
  /\ step = "next"
  /\ \E name \in Anchor.left :
       LET node == Found(name)
       IN  \/ Inadmissible(name, node) /\ Refuse
           \/ /\ ~Inadmissible(name, node)
              /\ anchors' = [anchors EXCEPT ![Len(anchors)].left = @ \ {name}]
              /\ entry' = [path |-> Append(Anchor.path, name), node |-> node, type |-> TypeOf(node)]
              /\ step' = IF TypeOf(node) = "dir" THEN "open-directory" ELSE "open-file"
              /\ entries' = entries + 1
              /\ UNCHANGED <<reading, members>>

OpenFile ==
  /\ step = "open-file"
  /\ LET node == Found(Last(entry.path))
     IN  \/ ~(TypeOf(node) = "file" /\ Same(node)) /\ Refuse
         \/ /\ TypeOf(node) = "file" /\ Same(node)
            /\ reading' = [node |-> node, size |-> Len(tree.data[node]),
                           mtime |-> tree.mtime[node], budget |-> Budget, blocks |-> <<>>]
            /\ step' = "read"
            /\ UNCHANGED <<anchors, entry, entries, members>>

\* One block at a time, to the end of the file or one block past the budget.
ReadBlock ==
  /\ step = "read"
  /\ LET next == Len(reading.blocks) + 1
     IN  IF next <= Len(tree.data[reading.node]) /\ next <= reading.budget + 1
         THEN /\ reading' = [reading EXCEPT !.blocks = Append(@, tree.data[reading.node][next])]
              /\ step' = "read"
         ELSE /\ step' = "check" /\ UNCHANGED reading
  /\ UNCHANGED <<anchors, entry, entries, members>>

\* A mutant: the size is taken for the whole of the identity.
UnchangedInSize(r) == Len(r.blocks) <= r.budget /\ r.size = Len(tree.data[r.node])

\* The file is as it was opened, and as long as what was read.
UnchangedSince(r) ==
  /\ Len(r.blocks) <= r.budget
  /\ r.size = Len(tree.data[r.node]) /\ r.mtime = tree.mtime[r.node]
  /\ Len(r.blocks) = Len(tree.data[r.node])

Accept ==
  /\ step = "check"
  /\ \/ ~UnchangedSince(reading) /\ Refuse
     \/ /\ UnchangedSince(reading)
        /\ members' = [p \in DOMAIN members \cup {entry.path} |->
                         IF p = entry.path THEN reading.blocks ELSE members[p]]
        /\ reading' = NotReading /\ entry' = NoEntry
        /\ step' = "next"
        /\ UNCHANGED <<anchors, entries>>

Leave ==
  /\ step = "next" /\ Anchor.left = {}
  /\ anchors' = Front(anchors)
  /\ step' = IF Len(anchors) = 1 THEN "loaded" ELSE "next"
  /\ UNCHANGED <<entry, reading, entries, members>>

WalkStep ==
  /\ \/ RecogniseDirectory \/ InspectRoot \/ OpenRoot \/ OpenChild \/ Scan
     \/ Inspect \/ OpenFile \/ ReadBlock \/ Accept \/ Leave
  /\ UNCHANGED fileVars

-----------------------------------------------------------------------------
Children(t, d) == {<<m, t.entry[d][m]>> : m \in DOMAIN t.entry[d]}

\* What is found in a file system under the bundle's path.
Everything(t) ==
  LET Level[k \in 0 .. limits.depth + 1] ==
        IF k = 0 THEN {<<<<>>, t.root>>}
        ELSE UNION {{<<Append(p[1], c[1]), c[2]>> : c \in Children(t, p[2])} :
                      p \in {q \in Level[k - 1] : t.type[q[2]] = "dir"}}
  IN  IF t.root = Nothing THEN {} ELSE UNION {Level[k] : k \in 1 .. limits.depth + 1}

(* The editor.  Every write moves the modification time; a directory moved *)
(* out of the tree keeps its entries; an inode number may come back as     *)
(* something else once nothing leads to it and nobody has it open.         *)

Inside == {tree.root} \cup {e[2] : e \in Everything(tree)}
Linked == {tree.root} \cup UNION {Range(tree.entry[d]) : d \in Nodes}
Opened == {anchors[i].node : i \in DOMAIN anchors} \cup {reading.node}

Edited(t) ==
  /\ disturbed /\ Len(trees) <= MaxEdits
  /\ step \notin {"start", "loaded", "refused"}
  /\ tree' = t /\ t # tree /\ trees' = Append(trees, t)
  /\ UNCHANGED <<limits, disturbed, walkVars>>

Write ==
  \E n \in {m \in Nodes : tree.type[m] = "file"}, w \in Writings :
    Edited([tree EXCEPT !.data[n] = w, !.mtime[n] = @ + 1])

Unlink ==
  \E d \in Nodes : \E m \in DOMAIN tree.entry[d] :
    Edited([tree EXCEPT !.entry[d] = [k \in DOMAIN @ \ {m} |-> @[k]]])

\* A rename, over what is there or not, or a new inode; a directory never lands below itself.
Place ==
  \E d \in {e \in Nodes : tree.type[e] = "dir"}, m \in Placings, n \in Nodes \ Linked :
    /\ tree.type[n] = "dir" => d \in Inside
    /\ Edited([tree EXCEPT !.entry[d] = [k \in DOMAIN @ \cup {m} |-> IF k = m THEN n ELSE @[k]]])

PlaceRoot == \E n \in (Nodes \ Linked) \cup {Nothing} : Edited([tree EXCEPT !.root = n])

Recycle ==
  \E n \in Nodes \ (Linked \cup Opened), type \in Types :
    /\ DOMAIN tree.entry[n] = {}
    /\ Edited([tree EXCEPT !.type[n] = type, !.mtime[n] = @ + 1])

EditStep == Write \/ Unlink \/ Place \/ PlaceRoot \/ Recycle

-----------------------------------------------------------------------------
Files(t) == {f \in Everything(t) : t.type[f[2]] = "file"}

\* A tree the limits and the rules admit, stated of the whole of it.
Admissible(t) ==
  /\ t.root # Nothing /\ t.type[t.root] = "dir"
  /\ Cardinality(Everything(t)) <= limits.entries
  /\ \A e \in Everything(t) :
       /\ Last(e[1]) \notin Unsafe /\ t.type[e[2]] \in {"file", "dir"}
       /\ t.type[e[2]] = "dir" => Len(e[1]) <= limits.depth
       /\ t.type[e[2]] = "file" => Len(t.data[e[2]]) <= limits.fileSize
  /\ Cardinality(Files(t)) <= limits.files
  /\ MapThenSumSet(LAMBDA f : Len(t.data[f[2]]), Files(t)) <= limits.total

\* Every variable has its type.
WalkTypeOK ==
  /\ limits \in Limits /\ disturbed \in BOOLEAN
  /\ IsTree(tree) /\ \A i \in DOMAIN trees : IsTree(trees[i])
  /\ \A i \in DOMAIN anchors : /\ anchors[i].node \in Nodes /\ anchors[i].path \in Seq(Names)
                               /\ anchors[i].left \subseteq Names
  /\ entry.path \in Seq(Names) /\ entry.node \in Nodes \cup {Nothing} /\ entry.type \in Types
  /\ reading.node \in Nodes \cup {Nothing}
  /\ {reading.size, reading.mtime, reading.budget} \subseteq Nat
  /\ entries \in 0 .. limits.entries
  /\ \A p \in DOMAIN members : p \in Seq(Names) /\ IsBlocks(members[p])

\* The nodes a path led to, its directories one after the other: each was in its
\* place at its moment, not before the directory above it.
Led(path) ==
  LET Reached[k \in 0 .. Len(path)] ==
        IF k = 0 THEN {[node |-> trees[i].root, at |-> i] : i \in {j \in DOMAIN trees : trees[j].root # Nothing}}
        ELSE UNION {{[node |-> trees[i].entry[r.node][path[k]], at |-> i] :
                       i \in {j \in r.at .. Len(trees) : /\ trees[j].type[r.node] = "dir"
                                                        /\ path[k] \in DOMAIN trees[j].entry[r.node]}} :
                    r \in Reached[k - 1]}
  IN  Reached[Len(path)]

\* Whatever an editor does meanwhile, every accepted member is the whole of one
\* regular file at one moment, a file that stood under its name in a directory that
\* stood under its own, up to the bundle: no link was followed, no replacement read
\* through, no two states of a file mixed, and no limit passed by a file that grew.
MembersWereThere ==
  /\ entries > 0 =>
       \A p \in DOMAIN members :
         /\ Len(p) <= limits.depth + 1
         /\ \E r \in Led(p), i \in DOMAIN trees :
              i >= r.at /\ trees[i].type[r.node] = "file" /\ trees[i].data[r.node] = members[p]
  /\ \A p \in DOMAIN members : Len(members[p]) <= limits.fileSize
  /\ Cardinality(DOMAIN members) <= limits.files /\ Total <= limits.total

\* If nobody edits it, whether a directory is accepted depends on the directory
\* alone, not on the order scandir returns its names in, and then its members are
\* all its files.
QuietWalkIsExact ==
  Len(trees) = 1 =>
    /\ step = "refused" => ~Admissible(tree)
    /\ step = "loaded" /\ tree.type[tree.root] = "dir" =>
         /\ Admissible(tree)
         /\ {<<p, members[p]>> : p \in DOMAIN members} = {<<f[1], tree.data[f[2]]>> : f \in Files(tree)}
=============================================================================
