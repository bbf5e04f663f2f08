\* A client with four connections and a limit of two: two run, two are refused.
CONSTANTS
  r1 = r1  r2 = r2  r3 = r3  r4 = r4  r5 = r5
  busy = busy  other = other
  Requests <- MCRequests
  Clients <- MCClients
  ClientOf <- MCClientOf
  MaxConcurrentPerIp = 2
SPECIFICATION FairSpec
INVARIANTS
  CountExact
PROPERTIES
  RejectedAtLimit
  QuietClientForgotten
