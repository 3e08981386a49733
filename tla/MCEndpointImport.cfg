CONSTANTS
  g1 = g1
  g2 = g2
  p1 = p1
  m1 = m1
  m2 = m2
  NoName = NoName
  NoMac = NoMac
  Groups = {g1, g2}
  Profiles = {p1}
  Macs = {m1, m2}
  Bundles <- MCBundles
  MaxObjs = 3
  MaxEdits = 2
  MaxFaults = 1
  MaxRuns = 3
SPECIFICATION FairSpec
INVARIANTS TypeOK ReferencesByName CountsAddUp MissingIsReported RerunCreatesNothing
PROPERTIES CreatesOnly EveryRunEnds
CHECK_DEADLOCK FALSE
