SPECIFICATION AppSpec
CONSTANTS
    MdBreakpoint = 768
    Widths <- MCWidths
    Collapsible = "offcanvas"
    DefaultOpen = TRUE
    HasSetter = FALSE
    PropValues <- MCUncontrolled
    Accepts = {TRUE}
    OnClicks <- MCHandlers
    HasRail = FALSE
    Strict = TRUE
    MayReload = TRUE
    SetItemMayFail = TRUE
INVARIANTS OneListener SettledFits OpenMenuIsTrue
PROPERTIES TogglesWhatIsShown ImplementsPanel
