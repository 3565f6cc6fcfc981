\* Three requests that share the script engine; no symmetry, the property is
\* temporal.
CONSTANTS
  Msg = {m1, m2, m3}
  Domain = {"d1"}
  Host = {"h1"}
  User = {}
  Method = {"REFER"}
  Header = {}
  Arrivals <- SmallArrivals
  Empty = Empty
  Nil = Nil
SPECIFICATION FairSpec
PROPERTY EveryRequestIsAnswered
