SPECIFICATION Spec
CONSTANTS
  t1 = t1
  t2 = t2
  e1 = e1
  e2 = e2
  e3 = e3
  Threads = {t1, t2}
  Records = {1, 2, 3, 4}
  Owners <- MCOwners
  Elements = {e1, e2, e3}
  StartSets <- SomeSets
INVARIANTS CountsConserved PoolIsReferenced MembersShareEntry SoloMergeSafe
