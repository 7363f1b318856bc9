SPECIFICATION Spec
VIEW Seen
CONSTANTS
    Data <- Numbers
    Kinds = {"B"}
    MaxB = 14
    MaxList = 14
    MaxFile = 14
    Entries = 4
    MaxData = 11
    MaxListData = 9
    MaxFileData = 6
    BatchCalls = 2
INVARIANTS SortedTester
