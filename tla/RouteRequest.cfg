\* Two requests inside the SBC at once, every combination of the users and
\* headers the scripts look at, with and without a target domain.
CONSTANTS
  Msg = {m1, m2}
  Domain = {"d1"}
  Host = {"h1"}
  User = {u1}
  Method = {"REFER", "INVITE"}
  Header = {"Remote-Party-Id", "Accept-Language", "Subject"}
  Arrivals <- SmallArrivals
  Empty = Empty
  Nil = Nil
SPECIFICATION Spec
SYMMETRY MsgSymmetry
INVARIANTS
  TypeOK
  RoutingIsAllOrNothing
  ReferIsRetargeted
  OffendingHeadersAreRemoved
PROPERTIES
  HandlersAreIsolated
  KeepsContract
