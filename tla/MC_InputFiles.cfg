SPECIFICATION MCSpec
CONSTANTS
  HTTPSize = 6
  BufferAllocSize = 2
  HTTPCounts = {1, 3}
  MaxSize = 5
  MaxTypes = 2
  ChunkSize = 2
  ReadCounts = {1, 3}
INVARIANTS
  HTTPReadsTrue
  ChecksumsFollow
