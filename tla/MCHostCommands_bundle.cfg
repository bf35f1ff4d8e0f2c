SPECIFICATION HostCommandsSpec
CONSTANTS
    Driver = {}
    VzPid = {v1}
    LoopbackPid = {l1}
    NoPid = NoPid
    Inode = {1, 2, 3, 4, 5, 6, 7, 8, 9}
    NoInode = 0
    MaxFaults = 0
    Images = {"a"}
    Boxes = {}
    Tags = {"t", "u"}
    Contents = {"x", "y"}
    MaxDepth = 3
    Inodes = {1, 2, 3, 4, 5, 6}
    Pids = {1}
    MaxCommands = 0
    MaxAborts = 0
CHECK_DEADLOCK FALSE
INVARIANT BundleInPlace
