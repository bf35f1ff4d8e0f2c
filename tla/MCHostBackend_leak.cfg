SPECIFICATION Spec
CONSTANTS
  Driver = {d1}
  VzPid = {v1}
  LoopbackPid = {}
  NoPid = NoPid
  Inode = {1, 2, 3, 4, 5, 6, 7, 8, 9}
  NoInode = 0
  MaxFaults = 1
SYMMETRY Symmetry
INVARIANT TeardownRemovesVm
