\* Five rows with five values of created_at, pages of one to three rows,
\* offsets of four bits.
CONSTANTS
    Ids = {v1, v2, v3, v4, v5}
    Stamps = {1, 2, 3, 4, 5}
    PageTexts <- MCPageTexts
    SizeTexts <- MCSizeTexts
    DefaultSize = 2
    MaxSize = 3
    Width = 4
SYMMETRY RowSymmetry
SPECIFICATION Spec
INVARIANTS
    TypeOK
    WalkFindsAll
    OffsetsAreExact
