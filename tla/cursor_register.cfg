SPECIFICATION Spec
CONSTANTS
    short = short
    long = long
    loop = loop
    check = check
    i1 = i1
    i2 = i2
    i3 = i3
    i4 = i4
    Pollers = {loop, check}
    Savers = {loop}
    Values = {short, long}
    Size <- MCSize
    Inodes = {i1, i2, i3, i4}
    NoInode = NoInode
    ColdStart = ColdStart
    Corrupt = Corrupt
INVARIANT TypeOK
PROPERTY ImplementsRegister
