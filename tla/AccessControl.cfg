\* Profiles that fill their lists while they verify requests, again and again.  They
\* are alike, and none of the properties is a liveness property: symmetry is sound.
CONSTANTS
  Undefined = Undefined
  Other = Other
  Empty = Empty
  LogId = LogId
  Nil = Nil
  None = None
  register = register
  response = response
  stray = stray
  t1 = t1
  lan = lan
  phones = phones
  trunk = trunk
  Profile = {phones, trunk}
  Message = {register, response, stray}
  Transaction = {t1}
  Network = {lan}
  TrnOf <- MCTrnOf
  MethodOf <- MCMethodOf
  NetworksOf <- MCNetworksOf
  String <- MCString
  Property <- MCProperty
  MaxParams = 2
SPECIFICATION Spec
SYMMETRY ProfileSymmetry
INVARIANTS
  TypeOK
  AcceptedByItsOwnList
  OnlyAcceptedGetProperties
  LastEntryDecides
PROPERTY KeepsContract
