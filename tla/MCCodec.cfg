SPECIFICATION Spec
CONSTANTS
    Keys = {"k", "l"}
    MaxDepth = 3
    Characters = {10, 65, 127, 128, 2047, 2048, 65535, 65536, 1114111}
    Units = {10, 34, 65, 233, 8364, 55296, 56319, 56320, 57343}
    Bytes = {0, 1, 63, 64, 128, 255}
    MaxAnyTokens = 4
    MaxTokens = 11
    MaxText = 4
    MaxBytes = 6
INVARIANTS ParsesGrammar DocumentsSurvive NamesSurvive PayloadDecodes ChecksumVerifies
CHECK_DEADLOCK FALSE
