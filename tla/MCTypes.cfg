SPECIFICATION BindSpec
CONSTANTS
    DIType <- MCDIType
    Null = Null
    Tag <- MCTag
    Base <- MCBase
    Elements <- MCElements
    Offset <- MCOffset
    LType <- MCLType
    PointsTo <- MCPointsTo
    Layout <- MCLayout
    Fields <- MCFields
    Lowered <- MCLowered
    Unknown = Unknown
    Programs <- MCPrograms
INVARIANTS
    BoundTypesTrue
    FieldsFound
    Settled
CHECK_DEADLOCK FALSE
