SPECIFICATION ScanSpec
CONSTANTS
    t1 = t1
    t2 = t2
    o1 = o1
    o2 = o2
    o3 = o3
    b1 = b1
    b2 = b2
    b3 = b3
    b4 = b4
    b5 = b5
    NoBlock = NoBlock
    NoCall = NoCall
    Threads = {t1, t2}
    Objects = {o1, o2}
    Blocks = {b1, b2, b3}
    Chars <- Letters
    Lower <- Small
    Texts <- TwoTexts
    Names <- Scans
    Widths = {1}
    Slack = 0
    MaxLen = 2
SYMMETRY Same
INVARIANTS ScanIsConst
