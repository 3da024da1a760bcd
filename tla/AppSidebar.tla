------------------------------ MODULE AppSidebar ------------------------------
(***************************************************************************)
(* The application in one tab: the sidebar of ui/src/components/sidebar.tsx*)
(* in its layout.  It composes SidebarProvider, the theme and the two      *)
(* dropdown menus that AppSidebar renders as children of Sidebar: the menu *)
(* of the header, and the menu of the user with the submenu of the theme.  *)
(*                                                                         *)
(* A menu keeps its state in the component tree.  Sidebar returns another  *)
(* element when the layout changes and mounts its children in the sheet,   *)
(* as long as that is open or on its way out, so the menus come and go     *)
(* with it; what they show is drawn in a portal, outside of the panel.     *)
(***************************************************************************)
EXTENDS SidebarProvider

CONSTANTS SetItemMayFail

VARIABLES
    store, os, status, theme, class, orphan,  \* of Theme
    menu     \* what is open: "none", "header", "user", or "theme" (user and submenu)

Tab == "tab"

\* What is foreign to this tab is what the other tabs store.
AllThemes == {"light", "dark", "system"}
T == INSTANCE Theme WITH Tabs <- {Tab}, DefaultTheme <- "system",
                         Foreign <- AllThemes, Tokens <- AllThemes

themeVars == <<store, os, status, theme, class, orphan>>
appVars == <<vars, themeVars, menu>>

\* ThemeProvider and SidebarProvider are rendered together.
AppInit ==
    /\ Init
    /\ store \in T!Themes \cup {"none"}
    /\ os \in T!Schemes
    /\ status = [t \in {Tab} |-> "rendered"]
    /\ theme = [t \in {Tab} |-> T!Stored(store)]
    /\ class = [t \in {Tab} |-> {}]
    /\ orphan = [t \in {Tab} |-> "unmounted"]
    /\ menu = "none"

-----------------------------------------------------------------------------
(* What a step of the sidebar does to the rest of the tree                 *)

SameTreeInClosedSheet == Rendering(View)' = Rendering(View)

\* The children of Sidebar are in the same place of the tree as before.
SameTree == Rendering(View)' = Rendering(View) /\ ChildrenMounted(View)'

\* The menu m, if its component lives on; its state is lost with it otherwise.
Kept(m) == IF SameTree THEN m ELSE "none"

\* The first effects of the two providers run together.
FirstEffects ==
    IF mounted' /\ ~mounted THEN T!ApplyEffect(Tab) ELSE UNCHANGED themeVars

\* An event whose updates are in the menus only: React renders them with what
\* else is pending.
Rerender == Flush([NewBatch EXCEPT !.updated = TRUE])

-----------------------------------------------------------------------------
(* What the menus draw, each popup in a portal of its own                  *)

DropdownMenuContent(m) == menu = m \/ (m = "user" /\ menu = "theme")
DropdownMenuSubContent == DropdownMenuContent("user") /\ menu = "theme"

\* The checkbox items drawn with their mark.
MarkedItems == {item \in AllThemes : DropdownMenuSubContent /\ T!Checked(Tab, item)}

-----------------------------------------------------------------------------
(* The menus                                                               *)

\* The two menus that AppSidebar renders.
Menus == {"header", "user"}

\* A click on the trigger of a menu, a button in the sidebar.
OpenMenu(m) ==
    /\ menu = "none"
    /\ MenuButtonVisible(View)
    /\ Rerender
    /\ FirstEffects
    /\ menu' = Kept(m)

\* An item is clicked, or Escape or a press outside closes the menu.
CloseMenu ==
    /\ menu # "none"
    /\ Rerender
    /\ menu' = "none"
    /\ UNCHANGED themeVars

\* The trigger of the submenu is clicked, or hovered for a while: a timer opens
\* it then, and pending effects are not run for that.
OpenSubmenu ==
    /\ menu = "user"
    /\ Rerender \/ UNCHANGED vars
    /\ menu' = Kept("theme")
    /\ UNCHANGED themeVars

\* Escape or the left arrow closes the submenu alone.
CloseSubmenu ==
    /\ menu = "theme"
    /\ Rerender
    /\ menu' = Kept("user")
    /\ UNCHANGED themeVars

\* A checkbox item is clicked, checked or not: setTheme, and the menu stays.
ChooseTheme(th) ==
    /\ menu = "theme"
    /\ T!Choose(Tab, th)
    /\ Flush([NewBatch EXCEPT !.updated = (theme' # theme)])
    /\ menu' = Kept(menu)

-----------------------------------------------------------------------------
(* The sidebar and the page                                                *)

\* An open menu is modal: the pointer reaches nothing outside, and Escape
\* closes it first.  The shortcut still works.
SidebarStep ==
    /\ \/ menu = "none" /\ \/ \E accept \in Accepts, onClick \in OnClicks :
                                TriggerClick(onClick, accept)
                           \/ SheetDismiss
       \/ \E accept \in Accepts : Shortcut(accept)
       \/ \E w \in Widths : Resize(w)
       \/ MediaChange \/ MountEffects \/ RunEffects \/ Commit \/ SheetLeft
    /\ FirstEffects
    /\ menu' = Kept(menu)

ReloadPage ==
    /\ Reload
    /\ T!Load(Tab)
    /\ menu' = "none"

\* The system's color scheme changes, or another tab stores a theme.
Elsewhere ==
    /\ T!SchemeChanges
       \/ \E th \in AllThemes : T!StoreChanges(th)
    /\ UNCHANGED <<vars, menu>>

AppNext ==
    \/ \E m \in Menus : OpenMenu(m)
    \/ CloseMenu \/ OpenSubmenu \/ CloseSubmenu
    \/ \E th \in T!Themes : ChooseTheme(th)
    \/ SidebarStep \/ ReloadPage \/ Elsewhere

AppSpec == AppInit /\ [][AppNext]_appVars

-----------------------------------------------------------------------------
(* Properties                                                              *)

\* No menu outlives the tree it is part of.  The shortcut closes the sheet under
\* an open menu, which stays until the sheet has left and is open again if the
\* sheet is before that; once the sheet has left, or the window has another
\* layout, it is closed, and it is not open when the sidebar comes back.
MenuInMountedSidebar ==
    \A m \in Menus : DropdownMenuContent(m) => ChildrenMounted(View)

\* A menu is open only once the first effects have run, whatever was clicked
\* first: a theme is never chosen before the stored one was applied.
MenuAfterEffects == menu # "none" => mounted /\ status[Tab] = "ready"

\* While the submenu is drawn one item of it is marked, and it is the one whose
\* colors the page has, whatever was stored and chosen in this and other tabs.
MarkIsTheme ==
    DropdownMenuSubContent =>
        \E item \in AllThemes :
            /\ MarkedItems = {item}
            /\ item # "system" => class[Tab] = {item}

\* What is open is part of the page as it is, and true of it.
OpenMenuIsTrue == MenuInMountedSidebar /\ MenuAfterEffects /\ MarkIsTheme

=============================================================================
