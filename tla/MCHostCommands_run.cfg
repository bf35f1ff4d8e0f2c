SPECIFICATION HostCommandsSpec
CONSTANTS
    Driver = {d1, d2}
    VzPid = {v1}
    LoopbackPid = {l1}
    NoPid = NoPid
    Inode = {1, 2, 3, 4, 5, 6, 7, 8, 9}
    NoInode = 0
    MaxFaults = 2
    Images = {"a", "r", "s"}
    Boxes = {"r", "s"}
    Tags = {"t"}
    Contents = {"x"}
    MaxDepth = 2
    Inodes = {1, 2, 3, 4, 5, 6, 7, 8, 9, 10}
    Pids = {1, 2}
    MaxCommands = 4
    MaxAborts = 1
CHECK_DEADLOCK FALSE
INVARIANTS
    TypeOK
    DriversSerialize
    NoLostUpdate
    TeardownAlwaysPossible
    NoLeakedVm
    DiskTypeOK
    ChainsStored
    DaemonsExclusive
    DaemonsAccounted
    ServedScratchKept
    PublishedFinished
    BootsDetached
    BuildVmGone
    OutputWhole
PROPERTIES
    ImplementsStateRecord
    CallsReturn
    CommandsReturn
