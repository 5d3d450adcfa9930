SPECIFICATION Spec
CONSTANTS
    MaxDigits = 15
    MaxLength = 4096
    Column = 15
    Lengths = {1, 2, 14, 15, 16}
    Typed <- MCTyped
    Texts <- MCTexts
CHECK_DEADLOCK FALSE
INVARIANTS
    TypeOK
    RepliesFollowTheJid
    AcceptedIsPersonal
