CONSTANTS
  c0 = c0
  c1 = c1
  Cpus = {c0, c1}
  main = main
  t1 = t1
  t2 = t2
  Tasks = {main, t1, t2}
  Main = main
  BootCpu = c0
  NoTask = NoTask
  d1 = d1
  d2 = d2
  u1 = u1
  u2 = u2
  NoStack = NoStack
  Archs = {"x86_64", "riscv64", "aarch64", "loongarch64"}
SPECIFICATION MCSpec
SYMMETRY Symmetry
INVARIANTS Exclusive  PrevNotDropped 
