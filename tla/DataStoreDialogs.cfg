\* The dialog workspace: two sessions that share or do not share a Call-ID, two
\* threads in bulk calls and any number of threads in single-record calls.
CONSTANTS
  Thread = {t1, t2}
  Session = {s1, s2}
  CallId = {c1, c2}
  RegKey = {}
  Prefix = {}
  KeysOf <- NoPrefix
  Aor = {}
  Contact = {}
  Nil = Nil
  Empty = Empty
  k1 = k1
  k2 = k2
  Calls <- DialogCalls
SPECIFICATION Spec
SYMMETRY DialogSymmetry
INVARIANTS
  RemovalIsComplete
  RemovalIsPrecise
  NewcomersSurvive
PROPERTIES
  KeepsContract
