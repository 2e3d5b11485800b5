\* One pusher, two fair workers, three slots: every interleaving.
CONSTANTS
  Task = {t1, t2}
  Size = 3
  Garbage = Garbage
  NULL = NULL
  Worker = {w1, w2}
SPECIFICATION FairSpec
INVARIANTS TypeOK NeverPopsGarbage
PROPERTIES FifoUnlessOvertaken OnlyResetWakesForNothing AnnouncedWorkIsDone
