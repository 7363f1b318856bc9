SPECIFICATION MCSpec
VIEW Seen
CONSTANTS
    Data <- Numbers
    MaxNodes = 14
INVARIANTS LinksAgree VerifyProperties Balanced VisitsInOrder
PROPERTIES IsSortedSet
