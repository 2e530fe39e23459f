\* Two administrators, two databases; one fault and one change at any point; no
\* symmetry (liveness).
SPECIFICATION FairSpec
CONSTANTS
  Admin = {a1, a2}
  Ip = {ip1, ip2}
  Port = {1}
  Db = {d1, d2}
  NoIp = NoIp
  DetectTables = TRUE
  MaxServers = 1
  MaxInstances = 2
  MaxRequests = 2
  MaxChanges = 1
  MaxFaults = 1
INVARIANTS TypeOK StoredWasDetected DuplicatesNeedARace
PROPERTIES NothingDroppedUnseen Converges
