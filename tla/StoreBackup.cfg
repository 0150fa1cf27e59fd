SPECIFICATION Spec
CONSTANTS
  k1 = k1
  k2 = k2
  kBad = kBad
  s1 = s1
  s2 = s2
  sEmpty = sEmpty
  me = me
  other = other
  Absent = Absent
  None = None
  Me = me
  Identities = {me, other}
  Names = {k1, k2}
  ValidNames = {k1, k2}
  Secrets = {s1, s2}
  ValidSecrets = {s1, s2}
  Procs = {p1, p2}
  LockFiles = {l1}
  Requests <- CoreRequests
  RecipientFiles <- OwnKeyOnly
  MaxVersion = 2
  Faults = {"io"}
INVARIANTS
  BackupHeldUntilNextWrite
SYMMETRY ProcSymmetry
