SPECIFICATION Spec
CONSTANTS
    Word = 256
    PageSize = 4
    Kilo = 4
    IntWord = 128
    MaxCpuId = 4
    ChunkBits = 2
    NCPUWORDS = 3
    NSIG = 32
    NULL = NULL
    Machines <- MCMachines
    SegNames <- MCSegNames
    Children <- MCChildren
    MaxNames = 3
    OnlineCpus <- MCOnlineCpus
    SizeWords <- MCSizeWords
    SecondWords <- MCSecondWords
    SignalWords <- MCSignalWords
    RangeArgs <- MCRangeArgs
    ShareArgs <- MCShareArgs
    AccessArgs <- MCAccessArgs
    OptionArgs <- MCOptionArgs
    ProtArgs <- MCProtArgs
    PolicyArgs <- MCPolicyArgs
    NodeArgs <- MCNodeArgs
    CpuArgs <- MCCpuArgs
    MemArgs <- MCMemArgs
INVARIANTS TypeOK NodesAsTyped CpuMaskIsNumber AllowedFresh PolicyRoundTrip MbindAsTyped 
PROPERTY RemovePartial
\* A fault ends the program.
CHECK_DEADLOCK FALSE
