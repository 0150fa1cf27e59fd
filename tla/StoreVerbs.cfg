SPECIFICATION ReadersFairSpec
CONSTANTS
  k1 = k1
  k2 = k2
  kBad = kBad
  s1 = s1
  s2 = s2
  sEmpty = sEmpty
  me = me
  other = other
  Absent = Absent
  None = None
  Me = me
  Identities = {me, other}
  Names = {k1, k2, kBad}
  ValidNames = {k1, k2}
  Secrets = {s1, s2, sEmpty}
  ValidSecrets = {s1, s2}
  Procs = {p1, p2}
  LockFiles = {l1}
  Requests <- AllRequests
  RecipientFiles <- AnyRecipients
  MaxVersion = 1
  Faults = {"io", "kill"}
INVARIANTS
  StoredDataIsClean
  VaultStaysReadable
PROPERTIES
  WritersReturn
  ReadersNeverWait
