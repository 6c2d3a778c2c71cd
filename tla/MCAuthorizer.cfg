CONSTANTS
    Types <- MCTypes
    StringTypes <- MCStringTypes
    Values <- MCValues
    Names <- MCNames
    Services = {"svc"}
    FileNames = {"f1"}
    Literals <- MCLiterals
    ParseLiteral <- MCParseLiteral
    InitFile <- MCInitFile
    EditContents <- MCEditContents
    MaxTags = 2
    MaxEdits = 2
SPECIFICATION Spec
INVARIANTS TypeOK DecisionMatchesPolicy
