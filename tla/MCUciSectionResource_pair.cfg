CONSTANTS
  wan = wan
  lan = lan
  network = network
  firewall = firewall
  iface = iface
  opt1 = opt1
  opt2 = opt2
  v1 = v1
  v2 = v2
  l1 = l1
  Unset = Unset
  Absent = Absent
  NoLists = NoLists
  NotInState = NotInState
  NotDeclared = NotDeclared
  Addresses = {wan, lan}
  PackageOf <- OnePackage
  Types = {iface}
  Options = {opt1, opt2}
  Scalars = {v1, v2}
  ListVals = {l1}
  Declarations <- PairDeclarations
  ForeignWrites <- PairForeign
  InitialDevice <- PairDevices
  Limit <- PairLimit
SPECIFICATION FairSpec
INVARIANTS TypeOK AppliedIsPublished
PROPERTIES StagedConverges ForgottenOnlyOnNotFound OnlyOwnedOptionsTouched
