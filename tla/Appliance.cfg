SPECIFICATION ApplianceSpec
CONSTANTS
  Runs = {r1, r2}
  SvcPids = {1, 2}
  MaxDeaths = 1
  AdbStarts = {s1, s2}
  LockTries = 2
  Attempts = 2
  MaxAdbFaults = 2
  DogTimeouts = {0, 4, 9, 39}
  LeaseSecs = 12
  DriverTimeout = 10
  RootTimeout = 12
  RootInterval = 7
  LastNetRun = 2
  LastPhone = 2
  pa = pa
  pb = pb
  vi = vi
  no = no
  Names <- MCNames
  Indexes <- MCIndexes
  Requests <- MCRequests
  MaxBuilds = 2
INVARIANT TypesOK
INVARIANT DaemonsSingle
INVARIANT LockExcludes
INVARIANT FedInTime
INVARIANT CancelHolds
INVARIANT SshComesBack
INVARIANT SecretsWhole
INVARIANT CallsThePhoneThere
INVARIANT SelectionClosed
INVARIANT ImageIsSelection
PROPERTY AdbComesUp
PROPERTY FiredReboots
CHECK_DEADLOCK FALSE
