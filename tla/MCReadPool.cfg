CONSTANTS
  N = 3
  Workers = {w1, w2}
  NoError = NoError
  a = a
  b = b
  c = c
  d = d
  p = p
  q = q
  m1 = m1
  m2 = m2
  m3 = m3
  m4 = m4
  NoName = NoName
  Names = {a, b, c, d}
  ProfileNames = {p, q}
  Macs = {m1, m2, m3, m4}
  Sources <- MCSources
  Requests <- MCRequests
  MaxEdits = 2
  MaxFaults = 2
SPECIFICATION ExportFairSpec
INVARIANTS ExportTypeOK NoHalfRead BundleResolves ExportedOrTold
PROPERTIES ExportEnds ImplementsFamilyRead
