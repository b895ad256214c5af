CONSTANTS
    Word32 = 512
    Word64 = 262144
    IntMax = 255
    Failed = Failed
    Requests <- MCRequests
    Codes <- MCBadCode
    Lengths = {6}
    EdgeCounts = {}
    EdgeSizes = {}
    EdgeNodes = {}
SPECIFICATION Spec
INVARIANTS
    ComesBackIffKSurvive
