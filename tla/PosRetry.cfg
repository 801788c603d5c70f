SPECIFICATION FairSpec
CONSTANTS
  belt = belt
  plug = plug
  labor = labor
  custom = custom
  job = job
  Products = {belt, plug}
  Services = {labor}
  Extras = {custom}
  Jobs = {job}
  Assigned = {job}
  NoJob = NoJob
  Requests = {r1, r2, r3}
  Keys = {k1, k2}
  Free = Free
  NoReply = NoReply
  Keep = Keep
  Menu = "forms"
  Recounts = {5}
  Patient = TRUE
  MaxFaults = 2
  FaultSteps <- BeforeSaving
  Bodies <- MCBodies
  Opening <- MCOpening
INVARIANT TypeOK OneSalePerKey
PROPERTY EventuallyAnswered
