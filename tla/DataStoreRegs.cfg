\* The registration workspace: two keys, a prefix that selects one and a prefix
\* that selects both, records with an empty field offered to persistReg.  No
\* symmetry: one of the properties is temporal.
CONSTANTS
  Thread = {t1, t2}
  Session = {}
  CallId = {}
  RegKey = {k1, k2}
  Prefix = {"one", "both"}
  KeysOf <- TwoPrefixes
  Aor = {a1}
  Contact = {b1}
  Nil = Nil
  Empty = Empty
  k1 = k1
  k2 = k2
  Calls <- RegCalls
SPECIFICATION FairSpec
INVARIANTS
  TypeOK
  ReadsAreRegular
PROPERTIES
  KeepsContract
  BulkCallsEnd
  BulkCallsAdvance
