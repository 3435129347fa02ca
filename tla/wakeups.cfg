SPECIFICATION Spec
CONSTANTS
  e1 = e1
  e2 = e2
  e3 = e3
  progress = progress
  outbox = outbox
  Event = {e1, e2}
  TypeOf <- MCTypeOf
  KeysOf <- MCKeysOf
  Separated = {}
  MaxNames = 9
  Foreign <- MCForeign
  Processor = {outbox}
  Others = {progress}
  Selection <- MCSelection
  Contended = {outbox}
  HubSize = 1
  BatchSize = 1
  MaxFaults = 1
INVARIANTS WakeUpOnItsWay NamesCommitted ConnectionIsShared
