SPECIFICATION ConsiderateSpec
CONSTANTS
  Driver = {c1, d1, d2}
  VzPid = {v1, v2}
  LoopbackPid = {}
  NoPid = NoPid
  Inode = {1, 2, 3, 4, 5, 6, 7, 8, 9, 10}
  NoInode = 0
  MaxFaults = 0
  Creator = {c1}
SYMMETRY Symmetry
INVARIANT DriversSerialize
