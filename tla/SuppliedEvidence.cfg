SPECIFICATION Spec
CONSTANTS
  root = root
  sub = sub
  other = other
  fileA = fileA
  fileB = fileB
  spare = spare
  link = link
  special = special
  src = src
  src2 = src2
  Nothing = nothing
  NoReceipt = noreceipt
  Nodes <- MCNodes
  Names <- MCNames
  Placings = {"a", "b"}
  Unsafe = {"evil"}
  Cases <- MCCases
  Writings <- MCWritings
  MaxEdits = 2
  Supplied <- MCSupplied
  Requests <- MCRequests
  Orders = {"little", "big"}
  Absent = absent
  Malformed = malformed
  MaxTampering = 1
INVARIANTS
  TypeOK
  MembersWereThere
  QuietWalkIsExact
  ReceiptIsEarned
  LegacyClaimIsEarned
  BindingIsEarned
