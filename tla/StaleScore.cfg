SPECIFICATION SpecScored
CONSTANTS
  Absent = Absent Genesis = Genesis
  c1 = c1 c2 = c2 t1 = t1 t2 = t2 r1 = r1 r2 = r2 p1 = p1 p2 = p2 e1 = e1
  Cand = {c1, c2} Tx = {t1} Recon = {r1}
  Path = {p1} Edit = {e1} Verdicts = {"VALID"}
  MaxReq = 0 MaxWrites = 0 MaxCrashes = 0 MaxFaults = 0
CHECK_DEADLOCK FALSE
PROPERTIES WorldsFollowKernel
