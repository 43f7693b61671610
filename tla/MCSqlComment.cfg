SPECIFICATION CommentSpec
CONSTANTS
    c1 = c1
    c2 = c2
    e1 = e1
    Ctx = {c1, c2}
    None = None
    Encoded = {e1}
    Decode <- MCDecode
    BadEscape = BadEscape
    Statements <- MCStatements
    OTEL_SQLCOMMENTER_SCAN_BUDGET = 17
INVARIANT
    RootContextIsTheSetting
PROPERTIES
    ClientContextWins QuietRequestKeepsContext CommentIsRead
