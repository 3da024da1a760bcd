------------------------------ MODULE MCSidebar ------------------------------
\* Values for the constants of SidebarProvider.
EXTENDS SidebarProvider

\* Both sides of the breakpoint, at it and away from it.
MCWidths == {600, 767, 768, 1280}

MCControlled == {"true", "false"}
MCHandlers == {"none", "toggle"}
=============================================================================
