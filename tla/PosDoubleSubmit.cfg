SPECIFICATION Spec
CONSTANTS
  belt = belt
  plug = plug
  labor = labor
  custom = custom
  job = job
  Products = {belt, plug}
  Services = {labor}
  Extras = {custom}
  Jobs = {job}
  Assigned = {job}
  NoJob = NoJob
  Requests = {r1, r2}
  Keys = {k1, k2}
  Free = Free
  NoReply = NoReply
  Keep = Keep
  Menu = "all"
  Recounts = {}
  Patient = FALSE
  MaxFaults = 0
  FaultSteps <- AnyStep
  Bodies <- MCBodies
  Opening <- MCOpening
INVARIANT OneSalePerKey
