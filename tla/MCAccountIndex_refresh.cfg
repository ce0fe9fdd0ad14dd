SPECIFICATION Spec
CONSTANTS
  custody = custody
  palisade = palisade
  a1 = a1
  a2 = a2
  main = main
  test = test
  Signers = {custody, palisade}
  Live = {custody}
  Records <- MCRecords
  Created = {b1}
  Networks = {main, test}
  Network = main
  Primary <- MCPrimary
  Calls = {c1, c2}
  MaxChanges = 2
  NoNetwork = NoNetwork
  NoRecord = NoRecord
  Local = Local
INVARIANTS RemovedIsGone NewIsAddressable RegisteredIsAddressable PrimaryIsAddressable NeverMisrouted
