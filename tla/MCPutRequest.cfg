CONSTANTS
    Word32 = 512
    Word64 = 262144
    IntMax = 255
    Failed = Failed
    Requests <- MCRequests
    Codes <- MCCodes
    Lengths = {1, 2, 5, 8}
    EdgeCounts = {0, 1, 2, 255, 510, 511, 513}
    EdgeSizes = {0, 1, 255, 256, 131072, 262143, 262144}
    EdgeNodes = {2, 3, 256}
SPECIFICATION Spec
INVARIANTS
    ComesBackIffKSurvive
    AdmittedSpecsAreSound
