---------------------------- MODULE MCAppSidebar ----------------------------
\* Values for the constants of AppSidebar: the ones the application renders.
EXTENDS AppSidebar

MCWidths == {600, 767, 768, 1280}
MCUncontrolled == {"undefined"}
MCHandlers == {"none", "toggle"}
=============================================================================
