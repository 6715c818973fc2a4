SPECIFICATION Spec
CONSTANTS
  a = a
  b = b
  verifier = verifier
  operator = operator
  kv = kv
  ko = ko
  kn = kn
  NoKey = NoKey
  Emitters = {a, b}
  Identities = {verifier, operator}
  Keys = {kv, ko, kn}
  Commands <- MCCommands
  MaxContents = 4
  MaxFaults = 1
SYMMETRY Symmetric
INVARIANTS
  ChainAuditable
  PlaceKept
PROPERTIES
  RefusedForCause
