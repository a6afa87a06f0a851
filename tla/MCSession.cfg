SPECIFICATION SessionSpec
CONSTANTS
  Stoppers = {s1, s2}
  Waiters = {w1, w2}
  Writable = TRUE
  HasTimeout = TRUE
  Codes = {0, 1, 7}
  MaxDisks = 2
  UserTags = {"work", "ctl", "rootfs"}
  Execs = {"e1"}
  Waits = {"t1", "t2"}
  MaxJobs = 2
  BufSize = 1
  MaxOut = 2
INVARIANTS
  OneVerdict
  SuccessIsReal
  GuestAgrees
  LeavesNothing
  JobsSound
PROPERTIES
  TimeoutNotMasked
  EndsWait
  JobAnswered
