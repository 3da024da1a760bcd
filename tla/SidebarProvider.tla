--------------------------- MODULE SidebarProvider ---------------------------
(***************************************************************************)
(* The state of the sidebar: SidebarProvider and the components that       *)
(* change it (ui/src/components/ui/sidebar.tsx) with the hook useIsMobile  *)
(* (ui/src/hooks/use-mobile.ts), in one page of the browser.               *)
(*                                                                         *)
(* React is modelled by what the code relies on.  A handler calls the      *)
(* closures of the render it was made in.  The updates a click or a key    *)
(* asks for are rendered, and their effects run, before the next event     *)
(* (Flush); those of a media query or of an effect are rendered later      *)
(* (Commit) and the effects of that render later still (RunEffects), so    *)
(* that events come in between.  Effects of a render run before the next.  *)
(***************************************************************************)
EXTENDS SidebarView, Sequences

CONSTANTS
    Widths,       \* the widths the window is given
    Collapsible,  \* the prop collapsible of Sidebar
    DefaultOpen,  \* the prop defaultOpen of SidebarProvider
    HasSetter,    \* its owner passes onOpenChange
    PropValues,   \* the values its owner passes for open
    Accepts,      \* whether the owner passes on as open what onOpenChange is told
    OnClicks,     \* what the onClick given to SidebarTrigger does first
    HasRail,      \* a SidebarRail is rendered in the sidebar
    Strict,       \* the development build: StrictMode runs the first effects twice
    MayReload     \* the user may load the page again

ASSUME SidebarAssumption ==
    /\ Widths \subseteq Nat
    /\ Collapsible \in Collapsibles
    /\ {DefaultOpen, HasSetter, HasRail, Strict, MayReload} \subseteq BOOLEAN
    /\ PropValues \subseteq {"undefined", "true", "false"} /\ PropValues # {}
    /\ Accepts \subseteq BOOLEAN /\ Accepts # {}
    /\ OnClicks \subseteq {"none", "toggle"}

VARIABLES
    width,       \* window.innerWidth
    mqlMatches,  \* the last value the media query list has reported
    mounted,     \* the effects of the first render have run
    nextMobile,  \* the value of a setIsMobile not rendered yet, or none
    isMobile,    \* !!isMobile of useIsMobile
    openMobile,
    leaving,     \* the sheet is closed, and mounted until its transition has ended
    innerOpen,   \* _open
    openProp,    \* the prop open, in the last render
    listeners,   \* the closures of the installed keydown listeners
    cookie       \* sidebar_state, "none" when there is none

page == <<mqlMatches, mounted, nextMobile, isMobile, leaving>>
vars == <<width, mqlMatches, mounted, nextMobile, isMobile, openMobile, leaving,
          innerOpen, openProp, listeners, cookie>>

\* A boolean in a template literal.
AsString(b) == IF b THEN "true" ELSE "false"

\* openProp ?? _open
OpenOf(prop, inner) == IF prop = "undefined" THEN inner ELSE prop = "true"
open == OpenOf(openProp, innerOpen)

\* What a toggleSidebar made in the last render has closed over.
Closure == [isMobile |-> isMobile, open |-> open]

\* What Sidebar and its parts are rendered with.
View == [collapsible |-> Collapsible, isMobile |-> isMobile, open |-> open,
         openMobile |-> openMobile, leaving |-> leaving, width |-> width]

-----------------------------------------------------------------------------
(* useIsMobile                                                             *)

MatchesOffByOne(w) == w <= MOBILE_BREAKPOINT

\* The media query max-width: MOBILE_BREAKPOINT - 1.
Matches(w) == w <= MOBILE_BREAKPOINT - 1

\* The test of its listener, on window.innerWidth.
Narrow(w) == w < MOBILE_BREAKPOINT

MediaChangeDropped ==
    /\ mounted
    /\ mqlMatches # Matches(width)
    /\ mqlMatches' = Matches(width)
    /\ nextMobile' = IF Matches(width) THEN <<Narrow(width)>> ELSE nextMobile
    /\ UNCHANGED <<width, mounted, isMobile, openMobile, leaving, innerOpen, openProp,
                   listeners, cookie>>

\* The query changed side and tells its listener: setIsMobile, rendered later.
\* The last of several calls wins.
MediaChange ==
    /\ mounted
    /\ mqlMatches # Matches(width)
    /\ mqlMatches' = Matches(width)
    /\ nextMobile' = <<Narrow(width)>>
    /\ UNCHANGED <<width, mounted, isMobile, openMobile, leaving, innerOpen, openProp,
                   listeners, cookie>>

-----------------------------------------------------------------------------
(* setOpen and toggleSidebar.  A batch s is what the calls of one event    *)
(* have asked for so far; accept is the owner's answer to onOpenChange.    *)

NewBatch == [sheet |-> openMobile, inner |-> innerOpen, prop |-> openProp,
             saved |-> cookie, updated |-> FALSE]

SetOpenUnsaved(value, accept, s) ==
    IF HasSetter
    THEN [s EXCEPT !.prop = IF accept THEN AsString(value) ELSE @,
                   !.updated = @ \/ accept]
    ELSE [s EXCEPT !.inner = value, !.updated = TRUE]

\* setOpen tells the owner, or else sets its own state, and writes the cookie.
SetOpen(value, accept, s) ==
    IF HasSetter
    THEN [s EXCEPT !.prop = IF accept THEN AsString(value) ELSE @,
                   !.updated = @ \/ accept, !.saved = AsString(value)]
    ELSE [s EXCEPT !.inner = value, !.updated = TRUE, !.saved = AsString(value)]

ToggleSidebarBoth(c, accept, s) ==
    LET t == SetOpen(~c.open, accept, s)
    IN IF c.isMobile THEN [t EXCEPT !.sheet = ~@, !.updated = TRUE] ELSE t

ToggleSidebarBlind(c, accept, s) == SetOpen(~c.open, accept, s)

\* The sheet is toggled by an updater that React applies to the latest state,
\* the panel by the value open had in the render of the closure c.
ToggleSidebar(c, accept, s) ==
    IF c.isMobile THEN [s EXCEPT !.sheet = ~@, !.updated = TRUE]
    ELSE SetOpen(~c.open, accept, s)

-----------------------------------------------------------------------------
(* The keydown effect                                                      *)

Cleanup(ls) == IF ls = <<>> THEN ls ELSE SubSeq(ls, 1, Len(ls) - 1)

ReinstallLeaky(ls, c) == Append(ls, c)

\* The effect after a render: cleanup, if it ran before, then addEventListener.
Reinstall(ls, c) == Append(Cleanup(ls), c)

EffectsDue == ~mounted \/ listeners # <<Closure>>

\* The listeners once the first effects have run: StrictMode runs them, cleans
\* up and runs them again.
MountedListeners ==
    IF mounted THEN listeners
    ELSE IF Strict THEN Reinstall(Reinstall(listeners, Closure), Closure)
    ELSE Reinstall(listeners, Closure)

\* The effects of the first render: the media query list is made and listened
\* to, setIsMobile is called and the keydown listener is installed.
MountEffects ==
    /\ ~mounted
    /\ mounted' = TRUE
    /\ mqlMatches' = Matches(width)
    /\ nextMobile' = <<Narrow(width)>>
    /\ listeners' = MountedListeners
    /\ UNCHANGED <<width, isMobile, openMobile, leaving, innerOpen, openProp, cookie>>

\* The keydown effect of a later render, whose toggleSidebar is a new one.
RunEffects ==
    /\ mounted
    /\ listeners # <<Closure>>
    /\ listeners' = Reinstall(listeners, Closure)
    /\ UNCHANGED <<width, page, openMobile, innerOpen, openProp, cookie>>

-----------------------------------------------------------------------------
(* Rendering                                                               *)

\* What a render makes of the sheet: closed in a Sidebar that still is a sheet it
\* leaves, opened again it stays; another element is mounted in its place at once.
RenderSheet == leaving' = (SheetMounted(View) /\ isMobile' /\ ~openMobile')

\* A setIsMobile is rendered in a task of its own.
Commit ==
    /\ nextMobile # <<>>
    /\ ~EffectsDue
    /\ isMobile' = nextMobile[1]
    /\ nextMobile' = <<>>
    /\ UNCHANGED <<width, mqlMatches, mounted, openMobile, innerOpen, openProp,
                   listeners, cookie>>
    /\ RenderSheet

\* The end of a click or a key: what it asked for is rendered, with a pending
\* setIsMobile, and the effects have run.
Flush(s) ==
    /\ cookie' = s.saved
    /\ openMobile' = s.sheet
    /\ innerOpen' = s.inner
    /\ openProp' = s.prop
    /\ IF s.updated
       THEN /\ isMobile' = IF ~mounted THEN Narrow(width)
                           ELSE IF nextMobile # <<>> THEN nextMobile[1] ELSE isMobile
            /\ nextMobile' = <<>>
            /\ mounted' = TRUE
            /\ mqlMatches' = IF mounted THEN mqlMatches ELSE Matches(width)
            /\ listeners' = Reinstall(MountedListeners,
                                      [isMobile |-> isMobile',
                                       open |-> OpenOf(openProp', innerOpen')])
            /\ RenderSheet
       ELSE UNCHANGED <<page, listeners>>
    /\ UNCHANGED width

-----------------------------------------------------------------------------
(* What the user, the owner and the browser do                             *)

\* A click on SidebarTrigger: the handler given to it, then toggleSidebar.
\* The trigger is outside the sheet, which is modal while it is open.
TriggerClick(onClick, accept) ==
    LET before == IF onClick = "toggle"
                  THEN ToggleSidebar(Closure, accept, NewBatch) ELSE NewBatch
    IN /\ ~SheetOpen(View)
       /\ Flush(ToggleSidebar(Closure, accept, before))

RailClick(accept) ==
    /\ HasRail
    /\ RailVisible(View)
    /\ Flush(ToggleSidebar(Closure, accept, NewBatch))

\* Ctrl+B or Cmd+B, wherever the focus is, with the closure of the listener.
Shortcut(accept) ==
    \E i \in DOMAIN listeners :
        Flush(ToggleSidebar(listeners[i], accept, NewBatch))

\* Escape or a press on the backdrop: Sheet calls setOpenMobile(false).
SheetDismiss ==
    /\ SheetOpen(View)
    /\ Flush([NewBatch EXCEPT !.sheet = FALSE, !.updated = TRUE])

\* The exit transition has ended: the sheet is rendered without its portal.
SheetLeft ==
    /\ leaving
    /\ ~EffectsDue
    /\ leaving' = FALSE
    /\ UNCHANGED <<width, mqlMatches, mounted, nextMobile, isMobile, openMobile,
                   innerOpen, openProp, listeners, cookie>>

Resize(w) ==
    /\ w # width
    /\ width' = w
    /\ UNCHANGED <<page, openMobile, innerOpen, openProp, listeners, cookie>>

\* The owner renders SidebarProvider with another open.
OwnerSets(v) ==
    /\ ~EffectsDue
    /\ v # openProp
    /\ openProp' = v
    /\ isMobile' = IF nextMobile # <<>> THEN nextMobile[1] ELSE isMobile
    /\ nextMobile' = <<>>
    /\ UNCHANGED <<width, mqlMatches, mounted, openMobile, innerOpen, listeners, cookie>>
    /\ RenderSheet

\* The cookie is older than SIDEBAR_COOKIE_MAX_AGE.
CookieExpires ==
    /\ cookie # "none"
    /\ cookie' = "none"
    /\ UNCHANGED <<width, page, openMobile, innerOpen, openProp, listeners>>

\* The first render of a page.  Nothing reads the cookie.
FirstRender(w, prop) ==
    [width |-> w, prop |-> prop, mobile |-> FALSE, sheet |-> FALSE,
     inner |-> DefaultOpen]

Init ==
    \E w \in Widths, prop \in PropValues :
        LET f == FirstRender(w, prop)
        IN /\ width = f.width /\ openProp = f.prop /\ isMobile = f.mobile
           /\ openMobile = f.sheet /\ innerOpen = f.inner /\ leaving = FALSE
           /\ mounted = FALSE /\ mqlMatches = FALSE /\ nextMobile = <<>>
           /\ listeners = <<>>
           /\ cookie = "none"

Reload ==
    /\ MayReload
    /\ \E prop \in PropValues :
         LET f == FirstRender(width, prop)
         IN /\ openProp' = f.prop /\ isMobile' = f.mobile
            /\ openMobile' = f.sheet /\ innerOpen' = f.inner
    /\ mounted' = FALSE /\ mqlMatches' = FALSE /\ nextMobile' = <<>>
    /\ listeners' = <<>> /\ leaving' = FALSE
    /\ UNCHANGED <<width, cookie>>

UserToggles == \E accept \in Accepts :
    \/ \E onClick \in OnClicks : TriggerClick(onClick, accept)
    \/ RailClick(accept)
    \/ Shortcut(accept)

Next ==
    \/ UserToggles
    \/ SheetDismiss \/ SheetLeft
    \/ \E w \in Widths : Resize(w)
    \/ \E v \in PropValues : OwnerSets(v)
    \/ MediaChange \/ MountEffects \/ RunEffects \/ Commit
    \/ CookieExpires \/ Reload

Spec == Init /\ [][Next]_vars

\* The browser reports its media queries and React renders and runs effects:
\* each of them happens in the end.  Nobody has to click.
Fairness == WF_vars(MountEffects) /\ WF_vars(RunEffects) /\ WF_vars(Commit)
            /\ WF_vars(MediaChange)

LiveSpec == Spec /\ Fairness

-----------------------------------------------------------------------------
(* Properties                                                              *)

\* Every variable keeps its type; the cookie holds nothing but what a template
\* literal makes of a boolean.
TypeOK ==
    /\ width \in Widths
    /\ {mqlMatches, mounted, isMobile, openMobile, leaving, innerOpen} \subseteq BOOLEAN
    /\ nextMobile \in {<<>>, <<TRUE>>, <<FALSE>>}
    /\ openProp \in {"undefined", "true", "false"}
    /\ listeners \in Seq([isMobile : BOOLEAN, open : BOOLEAN])
    /\ cookie \in {"none", "true", "false"}

\* No event, media query or effect is left to be dealt with.
Settled ==
    /\ ~EffectsDue
    /\ nextMobile = <<>>
    /\ mqlMatches = Matches(width)

\* However often the effect runs, in StrictMode too, one listener answers the
\* shortcut once the page is mounted and none before: the cleanup (109) takes
\* away what the effect before it installed.
OneListener == Len(listeners) = IF mounted THEN 1 ELSE 0

\* When nothing is pending the sheet is rendered in the windows for which the
\* style sheet hides the panel, and in no other: the hook's two tests and the
\* class md: agree at the boundary.
SettledFits ==
    Settled /\ Collapsible # "none"
        => (Rendering(View) = "sheet" <=> width < MdBreakpoint)

\* A trigger or a shortcut used when nothing is pending changes what is on the
\* screen: it never toggles the panel while the sheet is the one shown, nor
\* something that is hidden.
TogglesWhatIsShown ==
    [][Settled /\ (TriggerClick("none", TRUE) \/ Shortcut(TRUE))
        => Shown(View)' # Shown(View)]_vars

\* Whatever a user does that opens or closes the panel is in the cookie at the
\* end of the same event, in the controlled sidebar too.
ChangeIsRecorded ==
    [][UserToggles /\ open' # open => cookie' = AsString(open')]_vars

\* With onOpenChange the owner alone decides: the internal state never
\* departs from the default, so a later uncontrolled render is not a surprise.
OwnerDecides == HasSetter => innerOpen = DefaultOpen

\* When the window keeps its width, and the user does not load the page over
\* and over, the page settles on the layout for that width.
LayoutFollowsWidth ==
    \A w \in Widths : <>[](width = w /\ mounted) => <>[](isMobile = Narrow(w))

\* An uncontrolled sidebar is a panel and a sheet that only whole events flip.
PanelSpec == INSTANCE Panel WITH panel <- innerOpen, sheet <- openMobile,
                                 saved <- cookie

ImplementsPanel == PanelSpec!Spec

=============================================================================
