\* One request through the route script, against the comment of route.js:35.
CONSTANTS
  Msg = {m1}
  Domain = {"d1"}
  Host = {"h1"}
  User = {u1}
  Method = {"REFER", "INVITE"}
  Header = {"Remote-Party-Id", "Accept-Language", "Subject"}
  Arrivals <- SmallArrivals
  Empty = Empty
  Nil = Nil
SPECIFICATION Spec
INVARIANT RouteRemovesOffendingHeaders
