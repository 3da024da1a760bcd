SPECIFICATION LiveSpec
CONSTANTS
    Tabs = {t1, t2}
    DefaultTheme = "system"
    Foreign <- MCForeign
    Tokens <- MCTokens
    SetItemMayFail = TRUE
    t1 = t1
    t2 = t2
INVARIANTS OneScheme CheckedIsApplied
PROPERTIES TabMovesToStored PageOpens
