\* Two threads and two orders for one database, two addresses.
SPECIFICATION Spec
CONSTANTS
  Thread = {t1, t2}
  OrderId <- MCOrders
  d1 = d1
  Db = {d1}
  u1 = u1
  User = {u1}
  chosen = chosen
  Password <- MCPassword
  Ip = {ip1, ip2}
  NoIp = NoIp
  UserOf <- MCUserOf
  GenPass <- MCGenPass
  SpecAccount <- MCSpec
  AutoGen = AutoGen
  NoOrder = NoOrder
  NoAccount = NoAccount
  NoPass = NoPass
  NoRequest = NoRequest
  MaxRequests = 5
  MaxFaults = 1
INVARIANTS TypeOK SuccessIsComplete ShownAccountOpens WaitingGaveNothing
\* Users owe nobody a request, and the bound on requests stops them.
CHECK_DEADLOCK FALSE
