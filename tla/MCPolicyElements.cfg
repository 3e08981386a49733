CONSTANTS
  ad1 = ad1
  ad2 = ad2
  d1 = d1
  g1 = g1
  g2 = g2
  c1 = c1
  preloaded = preloaded
  r1 = r1
  guest = guest
  staff = staff
  all = all
  None = None
  JoinPoints = {ad1, ad2}
  Domains = {d1}
  Sids = {g1, g2}
  SourceJps <- MCSourceJps
  Certs = {c1, preloaded}
  FactoryCert = preloaded
  RestStores = {r1}
  Ndgs <- MCNdgs
  FactoryNdgs <- MCFactoryNdgs
  Dacls = {"acl1"}
  Profiles <- MCProfiles
  Sequences <- MCSequences
  Conditions = {"cond1"}
  MayMiss <- MCMayMiss
  Starts <- MCStarts
  MaxEdits = 1
  MaxFaults = 1
SPECIFICATION FairSpec
INVARIANTS TypeOK OneJoinPointPerDomain VerdictsKept IncompleteIsReported
PROPERTIES MigrationCompletes
CHECK_DEADLOCK FALSE
