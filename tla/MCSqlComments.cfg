\* Every script of up to four pieces: text, blanks, ends of lines, quotes, comments.
CONSTANTS
    MaxPieces = 4
    Contents <- MCContents
SPECIFICATION Spec
INVARIANTS
    StripsExactlyComments
CHECK_DEADLOCK FALSE
