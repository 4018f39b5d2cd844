SPECIFICATION Spec
CONSTANTS
  Window = 6
  MaxBody = 6
  MaxChunks = 2
INVARIANTS
  UploadsSomething
  PlainIsKept
  LooksLikeGzip
