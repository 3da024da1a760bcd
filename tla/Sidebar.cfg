SPECIFICATION LiveSpec
CONSTANTS
    MdBreakpoint = 768
    Widths <- MCWidths
    Collapsible = "icon"
    DefaultOpen = FALSE
    HasSetter = TRUE
    PropValues <- MCControlled
    Accepts = {TRUE, FALSE}
    OnClicks <- MCHandlers
    HasRail = TRUE
    Strict = FALSE
    MayReload = TRUE
PROPERTIES ChangeIsRecorded LayoutFollowsWidth
