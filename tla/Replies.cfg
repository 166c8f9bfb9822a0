SPECIFICATION Spec
CONSTANTS
    u1 = u1  u2 = u2  u3 = u3  u4 = u4  u5 = u5  c1 = c1  c2 = c2
    s1 = s1  s2 = s2  r1 = r1  r2 = r2  f1 = f1  f2 = f2
    None = None  NotYoutube = NotYoutube  NoLmt = NoLmt
    Urls = {u1, u2, u3, u4}
    Chunks = {c1, c2}
    ChunkOf <- MCChunkOf
    LmtLen <- Lmt16
    Methods = {"GET"}
    Replies = {"data", "gone", "private", "notfound", "servererror"}
    Requests = {r1}
    Entries = {s1, s2}
    Files = {f1}
    Dirs = {1}
    Dir0 = 1
    DirOf <- OneDir
    Reload = TRUE
    TempClean = TRUE
    MaxRows = 2
    MaxKills = 0
SYMMETRY Symmetry
CHECK_DEADLOCK FALSE
INVARIANTS TypeOK AnswerSameChunk
