SPECIFICATION Spec
VIEW Seen
CONSTANTS
    Data <- Numbers
    Kinds = {"B", "List", "File"}
    MaxB = 14
    MaxList = 16
    MaxFile = 14
    Entries = 4
    MaxData = 7
    MaxListData = 10
    MaxFileData = 7
    BatchCalls = 2
INVARIANTS WellFormed FileAgrees
PROPERTIES IsSortedSet CrashKeeps
