SPECIFICATION FairGangSpec
CONSTANTS
  gang = gang
  m1 = m1
  main = main
  Replicas = {main}
  Sched = main
  Recon = main
  Gangs = {gang}
  Pods = {m1}
  GangOf <- mcGangOf
  MinMember <- mcMinMember
  ScheduleTO <- mcScheduleTO
  ReadyTO <- mcReadyTO
  MaxLag = 1
  Faults = {}
PROPERTY FailedHoldsNothing
