CONSTANTS
  None = None
  root = root
  sub = sub
  old = old
  own = own
  web = web
  eap = eap
  dead = dead
  zip = zip
  theirs = theirs
  foreign = foreign
  self = self
  a = a
  b = b
  n1 = n1
  n2 = n2
  psn = psn
  SourceTrusted <- MCSourceTrusted
  SourceSystem <- MCSourceSystem
  Zips <- MCZips
  CommonName <- MCCommonName
  Short <- MCShort
  NodeCerts = {own}
  Dead = {old}
  PickedTrusted = {"root", "sub", "old", "own", "inner"}
  PickedSystem = {web, eap, dead}
  MayMiss <- MCMayMiss
  MayHide <- MCMayHide
  Purposes = {"infrastructure", "endpoints"}
  Nodes = {n1, n2, psn}
  AdminNodes = {n1, n2}
  Connected = n1
  Forms <- MCForms
  Strangers = {theirs, root}
  Starts <- MCStarts
  MaxEdits = 1
  MaxFaults = 1
SPECIFICATION FairSpec
INVARIANTS TypeOK TrustKept IncompleteIsReported
PROPERTIES StrangersUntouched CertificatesArrive
CHECK_DEADLOCK FALSE
