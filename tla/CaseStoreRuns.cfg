SPECIFICATION FairSpec
CONSTANTS
  so1 = so1
  po1 = po1
  po2 = po2
  e1 = e1
  e2 = e2
  e3 = e3
  change = change
  Replicas = {p1, p2}
  Script = p2
  Cases = {c1, c2, c3, c4}
  NoCase = NoCase
  Events = {e1, e2, e3}
  NoEvent = NoEvent
  Keys <- MCKeys
  KeyRank <- MCKeyRank
  KeysOf <- MCKeysOf
  PoOf <- MCPoOf
  SupergroupOf <- MCSupergroupOf
  StatusOf <- MCStatusOf
  Legacy = {e3}
  Unreadable = {}
  Supergroups = {change, triage}
  NoSG = NoSG
  Triage = triage
  MaxUpdates = 1
  MaxFaults = 1
INVARIANTS CasesAreFound SupergroupsAreTraced
PROPERTY OrphansAreAdopted
CHECK_DEADLOCK FALSE
