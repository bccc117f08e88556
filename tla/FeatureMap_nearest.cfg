\* The GBF formats, and BF16 converted by two threads, on a padded-row column of two pixels and on a pixel of
\* two channels, with values whose exponents lie 0, 1 and 8 binades apart.
CONSTANTS
    Formats = {"GBF80", "GBF80_ROW", "BF16"}
    ConvertThreads = 2
    Undef = Undef
    Shapes <- MCShapesRow
    Values <- MCValuesNearest
SPECIFICATION Spec
INVARIANT GetDataAsSpecified
CHECK_DEADLOCK FALSE
