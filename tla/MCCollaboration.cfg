SPECIFICATION LiveSpec
CONSTANTS
  t1 = t1
  r1 = r1
  d1 = d1
  a1 = a1
  Thread = {t1}
  Repo = {r1}
  Device = {d1}
  Worker = {w1}
  User = {u1}
  Asg = {a1, a2}
  First = a1
  Instr = {i1}
  None = None
  DeviceOf <- MCDeviceOf
  Repos <- MCRepos
  Slots = 1
  UserOps = {"create", "retry", "cancel", "revoke", "apply", "reject", "instruct"}
  MaxCalls = 1
  FaultKinds = {"prepare", "start", "renew", "close", "lapse", "offline", "window"}
  MaxFaults = 1
INVARIANTS
    ClaimsSound
    
PROPERTIES
    EndedStaysEnded
    OrphanedRunEnds
CHECK_DEADLOCK FALSE
