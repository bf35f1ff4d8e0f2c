SPECIFICATION CreateSpec
CONSTANTS
  Driver = {c1, d1}
  VzPid = {v1, v2}
  LoopbackPid = {l1}
  NoPid = NoPid
  Inode = {1, 2, 3, 4, 5, 6, 7, 8, 9, 10}
  NoInode = 0
  MaxFaults = 1
  Creator = {c1}
SYMMETRY Symmetry
CONSTRAINT OneTransport SecondAlone
INVARIANT CreateTypeOK
INVARIANT ReadyOnlyAfterBoot
