----------------------------- MODULE SidebarView -----------------------------
(***************************************************************************)
(* What the components of ui/src/components/ui/sidebar.tsx put on the      *)
(* screen, as a function of the values they are rendered with.  A view is  *)
(* a record                                                                *)
(*   collapsible  the prop of Sidebar: "offcanvas", "icon" or "none"       *)
(*   isMobile, open, openMobile   from the context of SidebarProvider      *)
(*   leaving      the sheet has been closed and its exit transition runs   *)
(*   width        the width of the window in CSS pixels                    *)
(* React computes all but the last; the style sheet reads the width        *)
(* itself, at once, through the media queries of the classes sm: and md:.  *)
(***************************************************************************)
EXTENDS Naturals

CONSTANT
    MdBreakpoint   \* the pixels of the style sheet's md: (48rem, 768 at 16px a rem)

ASSUME MdBreakpointIsNat == MdBreakpoint \in Nat

MOBILE_BREAKPOINT == 768
SmBreakpoint == 640

Collapsibles == {"offcanvas", "icon", "none"}

-----------------------------------------------------------------------------
(* Sidebar                                                                 *)

\* Which of its three elements Sidebar returns.
Rendering(v) ==
    IF v.collapsible = "none" THEN "static"
    ELSE IF v.isMobile THEN "sheet" ELSE "panel"

\* The attribute data-collapsible of the panel, which the rules
\* group-data-[collapsible=...] of the panel and of its parts select on.
DataCollapsible(v) == IF v.open THEN "" ELSE v.collapsible

SheetOpen(v) == Rendering(v) = "sheet" /\ v.openMobile

\* The sheet and its backdrop are in a portal, which a closed sheet keeps until
\* its exit transition (sheet.tsx:54) has ended.
SheetMounted(v) == Rendering(v) = "sheet" /\ (v.openMobile \/ v.leaving)

\* The children of Sidebar are mounted: inside the sheet only while it is.
ChildrenMounted(v) == Rendering(v) = "sheet" => SheetMounted(v)

\* How much of the sidebar a user sees.  The panel is "hidden md:block"; closed,
\* it is moved off the screen or narrowed to its icons.  A sheet that is on its
\* way out counts as gone.
Shown(v) ==
    CASE Rendering(v) = "static" -> "full"
      [] Rendering(v) = "sheet"  -> IF SheetOpen(v) THEN "full" ELSE "nothing"
      [] OTHER -> IF v.width < MdBreakpoint \/ DataCollapsible(v) = "offcanvas"
                  THEN "nothing"
                  ELSE IF DataCollapsible(v) = "icon" THEN "icons" ELSE "full"

-----------------------------------------------------------------------------
(* What is placed in a sidebar                                             *)

\* A menu button can be clicked: narrowed to its icon it still is one, and it is
\* while the sheet goes out.
MenuButtonVisible(v) == SheetMounted(v) \/ Shown(v) # "nothing"

\* The rail is "hidden sm:flex" and stays at the edge of a closed panel.
RailVisible(v) ==
    /\ v.width >= SmBreakpoint
    /\ ChildrenMounted(v)
    /\ Rendering(v) = "panel" => v.width >= MdBreakpoint

=============================================================================
