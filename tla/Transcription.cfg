CONSTANTS
  u1 = u1
  u2 = u2
  s1 = s1
  Uploads = {u1, u2}
  Reporters = {u1, u2}
  Prober = Prober
  UploadIds = {id}
  Streams = {s1}
  Items = {i1, i2}
  Texts = {t1, t2}
  None = None
  MaxSequence = 2
  MaxRoots = 3
  MaxChunks = 2
  MaxEvents = 2
  MaxTries = 2
  MaxFaults = 2
  Mixes <- Together
SPECIFICATION Spec
CHECK_DEADLOCK FALSE
INVARIANTS TypeOK StreamKeepsBytes NothingLeft AudioWhileRunning RecordSettles SavedCurrent
PROPERTIES ItemsStand
