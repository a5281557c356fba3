SPECIFICATION Spec
CONSTANTS
    hdr1 = hdr1
    hdr2 = hdr2
    Chunk = {hdr1, hdr2}
    Wanted = {hdr1}
    MinLen = 2
    MaxLen = 2
    Unread = 1
    Size = 5
    Wrap = 16
    Word = 256
PROPERTIES
    QueueButForWraps
CHECK_DEADLOCK FALSE
