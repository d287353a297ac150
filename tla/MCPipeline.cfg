SPECIFICATION Spec
CONSTANTS
    ROMethods = {"GET", "OPTIONS"}
    RWMethods = {"GET", "OPTIONS", "PUT"}
    RawPermissions <- RawLists
    AuthConfigs <- AuthChoices
    Requests <- AllRequests
    MaxRequests = 1
INVARIANTS TypeOK PromptsOnlyForLogin PreflightIsAnswered CaseInsensitive
PROPERTY LongestPrefixWins
CHECK_DEADLOCK FALSE
