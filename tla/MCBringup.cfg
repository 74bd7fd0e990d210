SPECIFICATION Spec
CONSTANTS
  SMP = 3
  Platforms = {"x86_pc", "riscv64", "aarch64", "raspi", "loongarch64"}
  TimerPlatforms = {"x86_pc", "riscv64", "aarch64", "loongarch64"}
  PERIODIC_INTERVAL_NANOS = 7
  NANOS_PER_TICK = 2
  Buses <- MCBuses
  Features <- MCFeatures
  RangeBase = 4
  RangeSize = 8
  Subsystems = {"net", "block"}
  k0 = k0
  k1 = k1
  main = main
  t1 = t1
  SchedCpus = {k0, k1}
  SchedTasks = {main, t1}
  Main = main
  BootCpu = k0
  NoTask = NoTask
INVARIANTS  DevicesSound
PROPERTIES   ReadyRuns
CHECK_DEADLOCK FALSE
