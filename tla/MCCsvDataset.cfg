SPECIFICATION Spec
CONSTANTS
    x = x
    Letter = {x}
    Comma = Comma
    Space = Space
    CR = CR
    LF = LF
    MaxLength = 8
INVARIANTS
    TypeOK
    AgentKnowsColumns
    RowsFollowHeader
CHECK_DEADLOCK FALSE
