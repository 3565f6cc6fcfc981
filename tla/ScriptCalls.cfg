\* Properties of messages and of transactions, set through any message of a
\* transaction and through one without.  No call is possible after the last.
CONSTANTS
  Undefined = Undefined
  Other = Other
  Empty = Empty
  LogId = LogId
  Nil = Nil
  None = None
  register = register
  copy = copy
  response = response
  stray = stray
  t1 = t1
  t2 = t2
  Transaction = {t1, t2}
  TrnOf <- MCTrnOf
  MethodOf <- MCMethodOf
  String <- MCString
  ContentOf <- MCContentOf
  SipInterfaceAddress <- MCSipInterfaceAddress
  SipInterfacePort <- MCSipInterfacePort
  Dialled <- MCDialled
  GatewayArg <- MCGatewayArg
  Message = {register, copy, response, stray}
  Text = {"a", "c"}
  Method = {"REGISTER", "INVITE"}
  Alias = {"a", Other}
  OwnName <- MCOwnName
  OwnArg = {"0", "1", Undefined}
  RegArg = {"a", "b", Undefined}
  MsgArg = {"a", Undefined}
  Limits <- MCLimits
CHECK_DEADLOCK FALSE
SPECIFICATION Spec
INVARIANTS
  TypeOK
  FlagsAreShared
  LocalRegIsWhole
  GroupsAreOfOneCall
  BridgeHasItsEnd
  PrefixIsRemoved
