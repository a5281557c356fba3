SPECIFICATION Spec
CONSTANTS
    hdr1 = hdr1
    hdr2 = hdr2
    Chunk = {hdr1, hdr2}
    Wanted = {hdr1}
    MinLen = 1
    MaxLen = 1
    Unread = 1
    Size = 5
    Wrap = 256
    Word = 65536
PROPERTIES
    ImplementsQueue
CHECK_DEADLOCK FALSE
