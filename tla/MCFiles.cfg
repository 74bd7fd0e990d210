CONSTANTS
  Tasks = {t1, t2}
  First = t1
  Tables = {1, 2}
  AX_FILE_LIMIT = 5
  RING_BUFFER_SIZE = 2
  Bytes = {0, 1}
  Counts = {1, 2}
  IoVecs <- MCIoVecs
  Watched = {0, 4}
  FdSets <- MCFdSets
  FileObjs = {"F1", "F2"}
  Names = {"d", "f", "df", "tmp", "tmpf", "ff", "dff"}
  Glue <- MCGlue
  Mounts <- MCMounts
  MaxSize = 2
  InitTree <- MCInitTree
  Renames <- MCRenames
  Seeks = {0, 1}
  MaxDepth = 1
  BufEntries = 2
  Workloads <- MCWorkloads
  BLOCK_SIZE = 2
  NumBlocks = 2
  Buffers <- MCBuffers
  Reads = {1, 3}
SPECIFICATION MCSpec
 
PROPERTIES PipeSpec   FlatDiskSpec
CHECK_DEADLOCK FALSE
