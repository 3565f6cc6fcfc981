\* What a setter tells the script that calls it.
CONSTANTS
  Undefined = Undefined
  Other = Other
  Empty = Empty
  LogId = LogId
  Nil = Nil
  None = None
  register = register
  copy = copy
  response = response
  stray = stray
  t1 = t1
  t2 = t2
  Transaction = {t1, t2}
  TrnOf <- MCTrnOf
  MethodOf <- MCMethodOf
  String <- MCString
  ContentOf <- MCContentOf
  SipInterfaceAddress <- MCSipInterfaceAddress
  SipInterfacePort <- MCSipInterfacePort
  Dialled <- MCDialled
  GatewayArg = {}
  Message = {register}
  Text = {"a", "c"}
  Method = {"REGISTER"}
  Alias = {"a"}
  OwnName = {}
  OwnArg = {}
  RegArg = {"a"}
  MsgArg = {"a"}
  Limits <- OneCall
CHECK_DEADLOCK FALSE
SPECIFICATION Spec
INVARIANT SettersReport
