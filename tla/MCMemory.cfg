CONSTANTS
  t0 = t0
  t1 = t1
  t2 = t2
  s0 = s0
  s1 = s1
  s2 = s2
  c1 = c1
  c2 = c2
  Threads = {t1, t2}
  Spaces = {s1, s2}
  NPages = 2
  NFrames = 3
  Lengths = {1}
  Prots <- OneProt
  Image <- MCImage
  NoSpace = NoSpace
  NoPerm = NoPerm
  Cpus = {c1, c2}
  UserPages = 1
  Nobody = Nobody
  NoCpu = NoCpu
  Machines = {"x86_pc", "two_banks"}
  PhysEnd = 8
  MaxRuns = 2
  Sizes = {3}
  MaxObjects = 1
SPECIFICATION MCSpec
SYMMETRY Symmetry
INVARIANTS  AreasExact FramesOwned  PagesAccounted
PROPERTIES ImplementsPageMap
CHECK_DEADLOCK FALSE
