\* Two of four processes may die at any system call; the renders of one mortal and of one other are governed.
SPECIFICATION FairLeaseSpec
CONSTANTS
  Proc = {p1, p2, p3, p4}
  Mortal = {p1, p2}
  Governed = {p2, p3}
  NoHolder = NoHolder
INVARIANTS MutualExclusion
PROPERTIES DeadLockIsReclaimed
