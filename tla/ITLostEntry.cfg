SPECIFICATION Spec
CONSTANTS
  t1 = t1
  t2 = t2
  Nil = Nil
  Nobody = Nobody
  Root = 0
  Names = {1, 2}
  Threads <- OneThread
  LookupWidth = 8
  Loads <- LostEntryLoads
PROPERTY EntriesKept
