\* No fault, no change: deleting a server leaves the databases of its instances.
SPECIFICATION Spec
CONSTANTS
  Admin = {a1}
  Ip = {ip1, ip2}
  Port = {1}
  Db = {d1, d2}
  NoIp = NoIp
  DetectTables = FALSE
  MaxServers = 1
  MaxInstances = 2
  MaxRequests = 2
  MaxChanges = 0
  MaxFaults = 0
PROPERTIES DeleteTakesDatabases
