---------------------------- MODULE SidebarProofs ----------------------------
(***************************************************************************)
(* Theorems about SidebarProvider and about AppSidebar, which composes it  *)
(* with the theme and the menus, for every set of window widths, every way *)
(* the owner of the sidebar may control it and both builds.                *)
(*                                                                         *)
(* The inductive invariant IInv adds to the types that one closure is      *)
(* installed as soon as the page is mounted, and that a setIsMobile not    *)
(* rendered yet carries the last report of the media query: it is what     *)
(* remains of an event when renders and effects come later.  AppInv adds   *)
(* what the menus rest on: the theme is applied as soon as the page is     *)
(* mounted, and an open menu is in a tree that is, if only while the sheet *)
(* goes out.                                                               *)
(***************************************************************************)
EXTENDS AppSidebar, TLAPS

Closures == [isMobile : BOOLEAN, open : BOOLEAN]
Props == {"undefined", "true", "false"}
Cookies == {"none", "true", "false"}
Batches == [sheet : BOOLEAN, inner : BOOLEAN, prop : Props, saved : Cookies,
            updated : BOOLEAN]

Types ==
    /\ width \in Widths
    /\ mqlMatches \in BOOLEAN /\ mounted \in BOOLEAN /\ isMobile \in BOOLEAN
    /\ openMobile \in BOOLEAN /\ leaving \in BOOLEAN /\ innerOpen \in BOOLEAN
    /\ openProp \in Props
    /\ cookie \in Cookies

\* One closure is installed, from the first effects on.
Installed ==
    \/ ~mounted /\ listeners = <<>>
    \/ mounted /\ \E c \in Closures : listeners = <<c>>

\* What the state of useIsMobile is or is about to be.
MobileKnown ==
    /\ ~mounted => nextMobile = <<>>
    /\ mounted => \/ nextMobile = <<>> /\ isMobile = mqlMatches
                  \/ nextMobile = <<mqlMatches>>

IInv == Types /\ Installed /\ MobileKnown

-----------------------------------------------------------------------------
(* The operators                                                           *)

LEMMA StringOfBoolean ==
    ASSUME NEW b \in BOOLEAN
    PROVE  AsString(b) \in {"true", "false"} /\ (AsString(b) = "true" <=> b)
  BY DEF AsString

\* Whatever was installed before, one closure is after the effect has run.
LEMMA ReinstallOne ==
    ASSUME NEW c, NEW ls, ls = <<>> \/ \E d : ls = <<d>>
    PROVE  Reinstall(ls, c) = <<c>>
  <1>1. CASE ls = <<>>
    BY <1>1 DEF Reinstall, Cleanup
  <1>2. CASE \E d : ls = <<d>>
    <2>1. PICK d : ls = <<d>>
      BY <1>2
    <2>2. Len(ls) = 1 /\ ls # <<>>
      BY <2>1
    <2>3. SubSeq(ls, 1, 0) = <<>>
      BY <2>1
    <2>4. Cleanup(ls) = <<>>
      BY <2>2, <2>3 DEF Cleanup
    <2>5. QED
      BY <2>4 DEF Reinstall
  <1>3. QED
    BY <1>1, <1>2

\* At the first effects too, with StrictMode or without.
LEMMA MountedOne ==
    ASSUME IInv
    PROVE  \E d : MountedListeners = <<d>>
  <1>1. CASE mounted
    BY <1>1 DEF IInv, Installed, MountedListeners
  <1>2. CASE ~mounted
    <2>1. Reinstall(listeners, Closure) = <<Closure>>
      BY <1>2, ReinstallOne DEF IInv, Installed
    <2>2. Reinstall(<<Closure>>, Closure) = <<Closure>>
      BY ReinstallOne
    <2>3. QED
      BY <1>2, <2>1, <2>2 DEF MountedListeners
  <1>3. QED
    BY <1>1, <1>2

LEMMA OpenIsBoolean ==
    ASSUME NEW p \in Props, NEW b \in BOOLEAN
    PROVE  OpenOf(p, b) \in BOOLEAN
  BY DEF OpenOf

LEMMA ClosureIsClosure ==
    ASSUME IInv
    PROVE  Closure \in Closures
  BY OpenIsBoolean DEF IInv, Types, Closure, Closures, open

LEMMA NewBatchIsBatch ==
    ASSUME IInv
    PROVE  NewBatch \in Batches
  BY DEF IInv, Types, NewBatch, Batches

LEMMA ToggleIsBatch ==
    ASSUME NEW c \in Closures, NEW accept \in BOOLEAN, NEW s \in Batches
    PROVE  ToggleSidebar(c, accept, s) \in Batches
  <1>1. c.open \in BOOLEAN /\ c.isMobile \in BOOLEAN
    BY DEF Closures
  <1>2. AsString(~c.open) \in {"true", "false"}
    BY <1>1, StringOfBoolean
  <1>3. QED
    BY <1>1, <1>2 DEF ToggleSidebar, SetOpen, Batches, Props, Cookies

\* The query of the media query list and the test of its listener are one.
LEMMA TestsAgree ==
    ASSUME NEW w \in Nat
    PROVE  /\ Matches(w) \in BOOLEAN /\ Narrow(w) \in BOOLEAN
           /\ Matches(w) <=> Narrow(w)
           /\ Matches(w) = Narrow(w)
  BY DEF Matches, Narrow, MOBILE_BREAKPOINT

LEMMA WidthIsNat ==
    ASSUME IInv
    PROVE  width \in Nat
  BY SidebarAssumption DEF IInv, Types

-----------------------------------------------------------------------------
(* The invariant                                                           *)

LEMMA InitIInv == Init => IInv
  <1> SUFFICES ASSUME Init PROVE IInv
    OBVIOUS
  <1>1. PICK w \in Widths, prop \in PropValues :
            /\ width = w /\ openProp = prop /\ isMobile = FALSE
            /\ openMobile = FALSE /\ leaving = FALSE /\ innerOpen = DefaultOpen
            /\ mounted = FALSE /\ mqlMatches = FALSE /\ nextMobile = <<>>
            /\ listeners = <<>> /\ cookie = "none"
    BY DEF Init, FirstRender
  <1>2. QED
    BY <1>1, SidebarAssumption
       DEF IInv, Types, Installed, MobileKnown, Props, Cookies

\* A batch that is flushed leaves one listener, with the closure of the new
\* render, and no setIsMobile pending.
LEMMA FlushKeeps ==
    ASSUME IInv, NEW s \in Batches, Flush(s)
    PROVE  IInv'
  <1>1. /\ s.sheet \in BOOLEAN /\ s.inner \in BOOLEAN /\ s.prop \in Props
        /\ s.saved \in Cookies /\ s.updated \in BOOLEAN
    BY DEF Batches
  <1>2. /\ cookie' = s.saved /\ openMobile' = s.sheet /\ innerOpen' = s.inner
        /\ openProp' = s.prop /\ width' = width
    BY DEF Flush
  <1>3. CASE ~s.updated
    <2>1. UNCHANGED <<mqlMatches, mounted, nextMobile, isMobile, leaving, listeners>>
      BY <1>3 DEF Flush, page
    <2>2. QED
      BY <1>1, <1>2, <2>1 DEF IInv, Types, Installed, MobileKnown
  <1>4. CASE s.updated
    <2>1. /\ isMobile' = IF ~mounted THEN Narrow(width)
                         ELSE IF nextMobile # <<>> THEN nextMobile[1] ELSE isMobile
          /\ nextMobile' = <<>>
          /\ mounted' = TRUE
          /\ mqlMatches' = IF mounted THEN mqlMatches ELSE Matches(width)
          /\ listeners' = Reinstall(MountedListeners,
                                    [isMobile |-> isMobile',
                                     open |-> OpenOf(openProp', innerOpen')])
          /\ leaving' \in BOOLEAN
      BY <1>4 DEF Flush, RenderSheet
    <2>2. Narrow(width) \in BOOLEAN /\ Matches(width) = Narrow(width)
      BY WidthIsNat, TestsAgree
    <2>3. isMobile' = mqlMatches' /\ mqlMatches' \in BOOLEAN
      <3>1. CASE ~mounted
        BY <2>1, <2>2, <3>1
      <3>2. CASE mounted /\ nextMobile = <<>>
        BY <2>1, <3>2 DEF IInv, MobileKnown, Types
      <3>3. CASE mounted /\ nextMobile # <<>>
        BY <2>1, <3>3 DEF IInv, MobileKnown, Types
      <3>4. QED
        BY <3>1, <3>2, <3>3
    <2>4. OpenOf(openProp', innerOpen') \in BOOLEAN
      BY <1>1, <1>2, OpenIsBoolean
    <2>5. [isMobile |-> isMobile', open |-> OpenOf(openProp', innerOpen')] \in Closures
      BY <2>3, <2>4 DEF Closures
    <2>6. \E c \in Closures : listeners' = <<c>>
      <3>1. \E d : MountedListeners = <<d>>
        BY MountedOne
      <3>2. listeners' = <<[isMobile |-> isMobile',
                            open |-> OpenOf(openProp', innerOpen')]>>
        BY <2>1, <3>1, ReinstallOne
      <3>3. QED
        BY <2>5, <3>2
    <2>7. Types'
      BY <1>1, <1>2, <2>1, <2>3 DEF IInv, Types
    <2>8. Installed'
      BY <2>1, <2>6 DEF Installed
    <2>9. MobileKnown'
      BY <2>1, <2>3 DEF MobileKnown
    <2>10. QED
      BY <2>7, <2>8, <2>9 DEF IInv
  <1>5. QED
    BY <1>1, <1>3, <1>4

LEMMA TogglesKeep ==
    ASSUME IInv, UserToggles
    PROVE  IInv'
  <1>1. PICK accept \in Accepts :
            \/ \E onClick \in OnClicks : TriggerClick(onClick, accept)
            \/ RailClick(accept)
            \/ Shortcut(accept)
    BY DEF UserToggles
  <1>2. accept \in BOOLEAN
    BY SidebarAssumption
  <1>3. NewBatch \in Batches /\ Closure \in Closures
    BY NewBatchIsBatch, ClosureIsClosure
  <1>4. ASSUME NEW onClick \in OnClicks, TriggerClick(onClick, accept)
        PROVE  IInv'
    <2> DEFINE before == IF onClick = "toggle"
                         THEN ToggleSidebar(Closure, accept, NewBatch) ELSE NewBatch
    <2>1. before \in Batches
      BY <1>2, <1>3, ToggleIsBatch
    <2>2. Flush(ToggleSidebar(Closure, accept, before))
      BY <1>4 DEF TriggerClick
    <2>3. ToggleSidebar(Closure, accept, before) \in Batches
      BY <1>2, <1>3, <2>1, ToggleIsBatch
    <2>4. QED
      BY <2>2, <2>3, FlushKeeps
  <1>5. CASE RailClick(accept)
    BY <1>2, <1>3, <1>5, ToggleIsBatch, FlushKeeps DEF RailClick
  <1>6. CASE Shortcut(accept)
    <2>1. PICK i \in DOMAIN listeners :
              Flush(ToggleSidebar(listeners[i], accept, NewBatch))
      BY <1>6 DEF Shortcut
    <2>2. listeners[i] \in Closures
      BY DEF IInv, Installed
    <2>3. QED
      BY <1>2, <1>3, <2>1, <2>2, ToggleIsBatch, FlushKeeps
  <1>7. QED
    BY <1>1, <1>4, <1>5, <1>6

LEMMA NextKeeps == IInv /\ [Next]_vars => IInv'
  <1> SUFFICES ASSUME IInv, [Next]_vars PROVE IInv'
    OBVIOUS
  <1>1. CASE UserToggles
    BY <1>1, TogglesKeep
  <1>2. CASE SheetDismiss
    <2>1. [NewBatch EXCEPT !.sheet = FALSE, !.updated = TRUE] \in Batches
      BY NewBatchIsBatch DEF Batches
    <2>2. QED
      BY <1>2, <2>1, FlushKeeps DEF SheetDismiss
  <1>3. ASSUME NEW w \in Widths, Resize(w) PROVE IInv'
    BY <1>3 DEF Resize, page, IInv, Types, Installed, MobileKnown
  <1>4. ASSUME NEW v \in PropValues, OwnerSets(v) PROVE IInv'
    <2>1. /\ mounted /\ mounted' = mounted /\ openProp' = v
          /\ isMobile' = IF nextMobile # <<>> THEN nextMobile[1] ELSE isMobile
          /\ nextMobile' = <<>>
          /\ leaving' \in BOOLEAN
          /\ UNCHANGED <<width, mqlMatches, openMobile, innerOpen, listeners, cookie>>
      BY <1>4 DEF OwnerSets, EffectsDue, RenderSheet
    <2>2. isMobile' = mqlMatches
      <3>1. CASE nextMobile = <<>>
        BY <2>1, <3>1 DEF IInv, MobileKnown
      <3>2. CASE nextMobile # <<>>
        BY <2>1, <3>2 DEF IInv, MobileKnown
      <3>3. QED
        BY <3>1, <3>2
    <2>3. v \in Props
      BY SidebarAssumption DEF Props
    <2>4. QED
      BY <2>1, <2>2, <2>3 DEF IInv, Types, Installed, MobileKnown
  <1>5. CASE MediaChange
    <2>1. Narrow(width) = Matches(width) /\ Matches(width) \in BOOLEAN
      BY WidthIsNat, TestsAgree
    <2>2. QED
      BY <1>5, <2>1 DEF MediaChange, IInv, Types, Installed, MobileKnown
  <1>6. CASE MountEffects
    <2>1. Narrow(width) = Matches(width) /\ Matches(width) \in BOOLEAN
      BY WidthIsNat, TestsAgree
    <2>2. /\ ~mounted /\ mounted' = TRUE /\ mqlMatches' = Matches(width)
          /\ nextMobile' = <<Narrow(width)>> /\ listeners' = MountedListeners
          /\ UNCHANGED <<width, isMobile, openMobile, leaving, innerOpen, openProp, cookie>>
      BY <1>6 DEF MountEffects
    <2>3. MountedListeners = <<Closure>>
      <3>1. Reinstall(listeners, Closure) = <<Closure>>
        BY <2>2, ReinstallOne DEF IInv, Installed
      <3>2. Reinstall(<<Closure>>, Closure) = <<Closure>>
        BY ReinstallOne
      <3>3. QED
        BY <2>2, <3>1, <3>2 DEF MountedListeners
    <2>4. Types'
      BY <2>1, <2>2 DEF IInv, Types
    <2>5. Installed'
      BY <2>2, <2>3, ClosureIsClosure DEF Installed
    <2>6. MobileKnown'
      BY <2>1, <2>2 DEF MobileKnown
    <2>7. QED
      BY <2>4, <2>5, <2>6 DEF IInv
  <1>7. CASE RunEffects
    <2>1. /\ mounted
          /\ listeners' = Reinstall(listeners, Closure)
          /\ UNCHANGED <<width, mqlMatches, mounted, nextMobile, isMobile,
                         openMobile, leaving, innerOpen, openProp, cookie>>
      BY <1>7 DEF RunEffects, page
    <2>2. listeners' = <<Closure>>
      BY <2>1, ReinstallOne DEF IInv, Installed
    <2>3. QED
      BY <2>1, <2>2, ClosureIsClosure DEF IInv, Types, Installed, MobileKnown
  <1>8. CASE Commit
    <2>1. leaving' \in BOOLEAN
      BY <1>8 DEF Commit, RenderSheet
    <2>2. QED
      BY <1>8, <2>1 DEF Commit, EffectsDue, IInv, Types, Installed, MobileKnown
  <1>9. CASE CookieExpires
    BY <1>9 DEF CookieExpires, page, IInv, Types, Installed, MobileKnown, Cookies
  <1>10. CASE Reload
    <2>1. /\ \E prop \in PropValues : openProp' = prop
          /\ isMobile' = FALSE /\ openMobile' = FALSE /\ innerOpen' = DefaultOpen
          /\ mounted' = FALSE /\ mqlMatches' = FALSE /\ nextMobile' = <<>>
          /\ listeners' = <<>> /\ leaving' = FALSE /\ UNCHANGED <<width, cookie>>
      BY <1>10 DEF Reload, FirstRender
    <2>2. QED
      BY <2>1, SidebarAssumption DEF IInv, Types, Installed, MobileKnown, Props
  <1>11. CASE SheetLeft
    BY <1>11 DEF SheetLeft, IInv, Types, Installed, MobileKnown
  <1>12. CASE UNCHANGED vars
    BY <1>12 DEF vars, IInv, Types, Installed, MobileKnown
  <1>13. QED
    BY <1>1, <1>2, <1>3, <1>4, <1>5, <1>6, <1>7, <1>8, <1>9, <1>10, <1>11, <1>12 DEF Next

LEMMA IInvHolds == Spec => []IInv
  BY InitIInv, NextKeeps, PTL DEF Spec

-----------------------------------------------------------------------------
(* What the calls of one event ask for                                     *)

\* s is what toggleSidebar may have asked for, if the owner answers accept:
\* the state that is not the panel's is untouched, and a panel that changes
\* is the one that is saved.
Asked(s, accept) ==
    /\ HasSetter => s.inner = innerOpen
    /\ ~HasSetter \/ ~accept => s.prop = openProp
    /\ OpenOf(s.prop, s.inner) # open => s.saved = AsString(OpenOf(s.prop, s.inner))

LEMMA NothingAsked ==
    ASSUME NEW accept
    PROVE  Asked(NewBatch, accept)
  BY DEF Asked, NewBatch, open

LEMMA OneMoreAsked ==
    ASSUME IInv, NEW c \in Closures, NEW accept \in BOOLEAN, NEW s \in Batches,
           Asked(s, accept)
    PROVE  Asked(ToggleSidebar(c, accept, s), accept)
  <1> DEFINE t == ToggleSidebar(c, accept, s)
  <1>1. c.open \in BOOLEAN
    BY DEF Closures
  <1>2. AsString(~c.open) \in {"true", "false"} /\ (AsString(~c.open) = "true" <=> ~c.open)
    BY <1>1, StringOfBoolean
  <1>3. CASE c.isMobile
    <2>1. t.inner = s.inner /\ t.prop = s.prop /\ t.saved = s.saved
      BY <1>3 DEF ToggleSidebar, Batches
    <2>2. QED
      BY <2>1 DEF Asked
  <1>4. CASE ~c.isMobile /\ HasSetter
    <2>1. /\ t.inner = s.inner /\ t.saved = AsString(~c.open)
          /\ t.prop = IF accept THEN AsString(~c.open) ELSE s.prop
      BY <1>4 DEF ToggleSidebar, SetOpen, Batches
    <2>2. CASE accept
      <3>1. OpenOf(t.prop, t.inner) = (AsString(~c.open) = "true")
        BY <1>2, <2>1, <2>2 DEF OpenOf
      <3>2. OpenOf(t.prop, t.inner) = ~c.open
        BY <1>1, <1>2, <3>1
      <3>3. QED
        BY <1>4, <2>1, <2>2, <3>2 DEF Asked
    <2>3. CASE ~accept
      <3>1. t.prop = openProp /\ t.inner = innerOpen
        BY <1>4, <2>1, <2>3 DEF Asked
      <3>2. QED
        BY <3>1 DEF Asked, open
    <2>4. QED
      BY <2>2, <2>3
  <1>5. CASE ~c.isMobile /\ ~HasSetter
    <2>1. t.inner = ~c.open /\ t.saved = AsString(~c.open) /\ t.prop = s.prop
      BY <1>5 DEF ToggleSidebar, SetOpen, Batches
    <2>2. t.prop = openProp
      BY <1>5, <2>1 DEF Asked
    <2>3. CASE openProp = "undefined"
      BY <1>5, <2>1, <2>2, <2>3 DEF Asked, OpenOf
    <2>4. CASE openProp # "undefined"
      BY <1>5, <2>2, <2>4 DEF Asked, OpenOf, open
    <2>5. QED
      BY <2>3, <2>4
  <1>6. QED
    BY <1>3, <1>4, <1>5

\* Everything a user does to the sidebar ends in one flush of such a batch.
LEMMA UserAsks ==
    ASSUME IInv, UserToggles
    PROVE  \E s \in Batches, accept \in BOOLEAN : Flush(s) /\ Asked(s, accept)
  <1>1. PICK accept \in Accepts :
            \/ \E onClick \in OnClicks : TriggerClick(onClick, accept)
            \/ RailClick(accept)
            \/ Shortcut(accept)
    BY DEF UserToggles
  <1>2. accept \in BOOLEAN
    BY SidebarAssumption
  <1>3. /\ NewBatch \in Batches /\ Closure \in Closures
        /\ Asked(NewBatch, accept)
    BY NewBatchIsBatch, ClosureIsClosure, NothingAsked
  <1>4. ASSUME NEW c \in Closures, NEW s \in Batches, Asked(s, accept)
        PROVE  /\ ToggleSidebar(c, accept, s) \in Batches
               /\ Asked(ToggleSidebar(c, accept, s), accept)
    BY <1>2, <1>4, ToggleIsBatch, OneMoreAsked
  <1>5. ASSUME NEW onClick \in OnClicks, TriggerClick(onClick, accept)
        PROVE  \E s \in Batches : Flush(s) /\ Asked(s, accept)
    <2> DEFINE before == IF onClick = "toggle"
                         THEN ToggleSidebar(Closure, accept, NewBatch) ELSE NewBatch
    <2>1. before \in Batches /\ Asked(before, accept)
      BY <1>3, <1>4
    <2>2. Flush(ToggleSidebar(Closure, accept, before))
      BY <1>5 DEF TriggerClick
    <2>3. QED
      BY <1>3, <1>4, <2>1, <2>2
  <1>6. ASSUME RailClick(accept)
        PROVE  \E s \in Batches : Flush(s) /\ Asked(s, accept)
    BY <1>3, <1>4, <1>6 DEF RailClick
  <1>7. ASSUME Shortcut(accept)
        PROVE  \E s \in Batches : Flush(s) /\ Asked(s, accept)
    <2>1. PICK i \in DOMAIN listeners :
              Flush(ToggleSidebar(listeners[i], accept, NewBatch))
      BY <1>7 DEF Shortcut
    <2>2. listeners[i] \in Closures
      BY DEF IInv, Installed
    <2>3. QED
      BY <1>3, <1>4, <2>1, <2>2
  <1>8. QED
    BY <1>1, <1>2, <1>5, <1>6, <1>7

-----------------------------------------------------------------------------
(* Safety                                                                  *)

\* Every variable keeps its type: a batch stores in the cookie and in the
\* props nothing but the strings a boolean is written as.
THEOREM TypeCorrect == Spec => []TypeOK
  <1>1. IInv => TypeOK
    <2> SUFFICES ASSUME IInv PROVE TypeOK
      OBVIOUS
    <2>1. listeners \in Seq([isMobile : BOOLEAN, open : BOOLEAN])
      <3>1. CASE listeners = <<>>
        BY <3>1
      <3>2. CASE \E c \in Closures : listeners = <<c>>
        <4>1. PICK c \in Closures : listeners = <<c>>
          BY <3>2
        <4> HIDE DEF Closures
        <4>2. <<c>> \in Seq(Closures)
          OBVIOUS
        <4>3. QED
          BY <4>1, <4>2 DEF Closures
      <3>3. QED
        BY <3>1, <3>2 DEF IInv, Installed
    <2>2. nextMobile \in {<<>>, <<TRUE>>, <<FALSE>>}
      BY DEF IInv, Types, MobileKnown
    <2>3. QED
      BY <2>1, <2>2 DEF IInv, Types, TypeOK, Props, Cookies
  <1>2. QED
    BY <1>1, IInvHolds, PTL

\* The shortcut has one listener from the first effects on, whatever was
\* rendered, batched or run twice by StrictMode: the cleanup of the keydown
\* effect (109) leaves none behind.
THEOREM ListenerIsSingle == Spec => []OneListener
  <1>1. IInv => OneListener
    BY DEF IInv, Types, Installed, OneListener
  <1>2. QED
    BY <1>1, IInvHolds, PTL

LEMMA SettledPageFits ==
    ASSUME MdBreakpoint = MOBILE_BREAKPOINT, IInv
    PROVE  SettledFits
  <1> SUFFICES ASSUME Settled, Collapsible # "none"
               PROVE  Rendering(View) = "sheet" <=> width < MdBreakpoint
    BY DEF SettledFits
  <1>1. isMobile = mqlMatches /\ mqlMatches = Matches(width)
    BY DEF Settled, EffectsDue, IInv, MobileKnown
  <1>2. Matches(width) <=> width < MdBreakpoint
    BY WidthIsNat, TestsAgree DEF Narrow
  <1>3. Rendering(View) = "sheet" <=> isMobile
    BY DEF Rendering, View
  <1>4. QED
    BY <1>1, <1>2, <1>3

\* With the md: of 16 pixels a rem, a page with nothing pending renders the
\* sheet for the widths at which the style sheet hides the panel and for no
\* other, at every width the window may be given.
THEOREM LayoutFits ==
    ASSUME MdBreakpoint = MOBILE_BREAKPOINT
    PROVE  Spec => []SettledFits
  BY SettledPageFits, IInvHolds, PTL

\* An owner that passes onOpenChange is the only one to move the panel: the
\* internal state stays at defaultOpen in every run, so a render that passes
\* no open again shows the default and nothing left over.
THEOREM OwnerRules == Spec => []OwnerDecides
  <1>1. Init => OwnerDecides
    BY DEF Init, FirstRender, OwnerDecides
  <1>2. ASSUME IInv, OwnerDecides, [Next]_vars
        PROVE  OwnerDecides'
    <2> SUFFICES ASSUME HasSetter, innerOpen = DefaultOpen
                 PROVE  innerOpen' = DefaultOpen
      BY <1>2 DEF OwnerDecides
    <2>1. CASE UserToggles
      <3>1. PICK s \in Batches, accept \in BOOLEAN : Flush(s) /\ Asked(s, accept)
        BY <1>2, <2>1, UserAsks
      <3>2. QED
        BY <3>1 DEF Flush, Asked
    <2>2. CASE SheetDismiss
      BY <2>2 DEF SheetDismiss, Flush, NewBatch
    <2>3. CASE \E w \in Widths : Resize(w)
      BY <2>3 DEF Resize
    <2>4. CASE \E v \in PropValues : OwnerSets(v)
      BY <2>4 DEF OwnerSets
    <2>5. CASE \/ MediaChange \/ MountEffects \/ RunEffects \/ Commit \/ CookieExpires
               \/ SheetLeft
      BY <2>5 DEF MediaChange, MountEffects, RunEffects, Commit, CookieExpires, SheetLeft
    <2>6. CASE Reload
      BY <2>6 DEF Reload, FirstRender
    <2>7. CASE UNCHANGED vars
      BY <2>7 DEF vars
    <2>8. QED
      BY <1>2, <2>1, <2>2, <2>3, <2>4, <2>5, <2>6, <2>7 DEF Next
  <1>3. QED
    BY <1>1, <1>2, IInvHolds, PTL DEF Spec

\* A panel that an event opens or closes is in the cookie when the event is
\* over, controlled or not and however many calls the event made.
THEOREM ChangesAreRecorded == Spec => ChangeIsRecorded
  <1>1. ASSUME IInv, UserToggles, open' # open
        PROVE  cookie' = AsString(open')
    <2>1. PICK s \in Batches, accept \in BOOLEAN : Flush(s) /\ Asked(s, accept)
      BY <1>1, UserAsks
    <2>2. openProp' = s.prop /\ innerOpen' = s.inner /\ cookie' = s.saved
      BY <2>1 DEF Flush
    <2>3. open' = OpenOf(s.prop, s.inner)
      BY <2>2 DEF open, OpenOf
    <2>4. QED
      BY <1>1, <2>1, <2>2, <2>3 DEF Asked
  <1>2. IInv /\ [Next]_vars =>
            [UserToggles /\ open' # open => cookie' = AsString(open')]_vars
    BY <1>1
  <1>3. QED
    BY <1>2, IInvHolds, PTL DEF Spec, ChangeIsRecorded

-----------------------------------------------------------------------------
(* The sidebar nobody controls                                             *)

LEMMA FlushInstalls ==
    ASSUME IInv, NEW s \in Batches, Flush(s), s.updated
    PROVE  listeners' = <<[isMobile |-> isMobile', open |-> OpenOf(s.prop, s.inner)]>>
  <1>1. listeners' = Reinstall(MountedListeners,
                               [isMobile |-> isMobile',
                                open |-> OpenOf(openProp', innerOpen')])
    BY DEF Flush
  <1>2. openProp' = s.prop /\ innerOpen' = s.inner
    BY DEF Flush
  <1>3. \E d : MountedListeners = <<d>>
    BY MountedOne
  <1>4. QED
    BY <1>1, <1>2, <1>3, ReinstallOne

\* Without a prop every installed closure knows the state of the panel: a
\* change of it is rendered, and the effect has run, when its event is over.
UInv ==
    /\ openProp = "undefined"
    /\ \A i \in DOMAIN listeners : listeners[i].open = innerOpen

\* The batch s leaves everything as it is, or flips the sheet, or flips the
\* panel and saves it.
OneFlip(s) ==
    \/ s.sheet = openMobile /\ s.inner = innerOpen /\ s.saved = cookie
    \/ s.sheet = ~openMobile /\ s.inner = innerOpen /\ s.saved = cookie
    \/ /\ s.sheet = openMobile /\ s.inner = ~innerOpen
       /\ s.saved = AsString(~innerOpen)

LEMMA ToggleIs ==
    ASSUME ~HasSetter, NEW c \in Closures, NEW accept \in BOOLEAN, NEW s \in Batches
    PROVE  LET t == ToggleSidebar(c, accept, s) IN
           /\ t.updated /\ t.prop = s.prop
           /\ c.isMobile => t.sheet = ~s.sheet /\ t.inner = s.inner /\ t.saved = s.saved
           /\ ~c.isMobile => /\ t.sheet = s.sheet /\ t.inner = ~c.open
                             /\ t.saved = AsString(~c.open)
  BY DEF ToggleSidebar, SetOpen, Batches

LEMMA UserFlips ==
    ASSUME ~HasSetter, IInv, UInv, UserToggles
    PROVE  \E s \in Batches : Flush(s) /\ s.updated /\ s.prop = openProp /\ OneFlip(s)
  <1>1. PICK accept \in Accepts :
            \/ \E onClick \in OnClicks : TriggerClick(onClick, accept)
            \/ RailClick(accept)
            \/ Shortcut(accept)
    BY DEF UserToggles
  <1>2. accept \in BOOLEAN
    BY SidebarAssumption
  <1>3. NewBatch \in Batches /\ Closure \in Closures
    BY NewBatchIsBatch, ClosureIsClosure
  <1>4. Closure.open = innerOpen
    BY DEF UInv, Closure, open, OpenOf
  <1>5. /\ NewBatch.sheet = openMobile /\ NewBatch.inner = innerOpen
        /\ NewBatch.saved = cookie /\ NewBatch.prop = openProp
    BY DEF NewBatch
  <1>6. openMobile \in BOOLEAN /\ innerOpen \in BOOLEAN
    BY DEF IInv, Types
  <1>7. ASSUME NEW c \in Closures, c.open = innerOpen
        PROVE  LET t == ToggleSidebar(c, accept, NewBatch)
               IN t \in Batches /\ t.updated /\ t.prop = openProp /\ OneFlip(t)
    <2>1. ToggleSidebar(c, accept, NewBatch) \in Batches
      BY <1>2, <1>3, ToggleIsBatch
    <2>2. QED
      BY <1>2, <1>3, <1>5, <1>7, <2>1, ToggleIs DEF OneFlip
  <1>8. ASSUME NEW onClick \in OnClicks, TriggerClick(onClick, accept)
        PROVE  \E s \in Batches : Flush(s) /\ s.updated /\ s.prop = openProp /\ OneFlip(s)
    <2> DEFINE once == ToggleSidebar(Closure, accept, NewBatch)
               twice == ToggleSidebar(Closure, accept, once)
    <2>1. CASE onClick = "toggle"
      <3>1. Flush(twice)
        BY <1>8, <2>1 DEF TriggerClick
      <3>2. once \in Batches /\ twice \in Batches
        BY <1>2, <1>3, ToggleIsBatch
      <3>3. /\ once.prop = openProp
            /\ Closure.isMobile => /\ once.sheet = ~openMobile /\ once.inner = innerOpen
                                   /\ once.saved = cookie
            /\ ~Closure.isMobile => once.sheet = openMobile
        BY <1>2, <1>3, <1>5, ToggleIs
      <3> HIDE DEF once
      <3>4. /\ twice.updated /\ twice.prop = once.prop
            /\ Closure.isMobile => /\ twice.sheet = ~once.sheet /\ twice.inner = once.inner
                                   /\ twice.saved = once.saved
            /\ ~Closure.isMobile => /\ twice.sheet = once.sheet
                                    /\ twice.inner = ~Closure.open
                                    /\ twice.saved = AsString(~Closure.open)
        BY <1>2, <1>3, <3>2, ToggleIs
      <3> HIDE DEF twice
      <3>5. OneFlip(twice)
        <4>1. CASE Closure.isMobile
          <5>1. twice.sheet = openMobile
            BY <1>6, <3>3, <3>4, <4>1
          <5>2. QED
            BY <3>3, <3>4, <4>1, <5>1 DEF OneFlip
        <4>2. CASE ~Closure.isMobile
          BY <1>4, <3>3, <3>4, <4>2 DEF OneFlip
        <4>3. QED
          BY <4>1, <4>2
      <3>6. QED
        BY <3>1, <3>2, <3>3, <3>4, <3>5
    <2>2. CASE onClick # "toggle"
      <3>1. Flush(once)
        BY <1>8, <2>2 DEF TriggerClick
      <3>2. QED
        BY <1>3, <1>4, <1>7, <3>1
    <2>3. QED
      BY <2>1, <2>2
  <1>9. ASSUME RailClick(accept)
        PROVE  \E s \in Batches : Flush(s) /\ s.updated /\ s.prop = openProp /\ OneFlip(s)
    <2>1. Flush(ToggleSidebar(Closure, accept, NewBatch))
      BY <1>9 DEF RailClick
    <2>2. QED
      BY <1>3, <1>4, <1>7, <2>1
  <1>10. ASSUME Shortcut(accept)
         PROVE  \E s \in Batches : Flush(s) /\ s.updated /\ s.prop = openProp /\ OneFlip(s)
    <2>1. PICK i \in DOMAIN listeners :
              Flush(ToggleSidebar(listeners[i], accept, NewBatch))
      BY <1>10 DEF Shortcut
    <2>2. listeners[i] \in Closures
      BY DEF IInv, Installed
    <2>3. listeners[i].open = innerOpen
      BY <2>1 DEF UInv
    <2>4. QED
      BY <1>7, <2>1, <2>2, <2>3
  <1>11. QED
    BY <1>1, <1>8, <1>9, <1>10

\* A flush of such a batch is a step of Panel, and installs a closure that
\* knows the panel.
LEMMA FlipIsPanelStep ==
    ASSUME IInv, UInv, NEW s \in Batches, Flush(s), s.updated, s.prop = openProp,
           OneFlip(s)
    PROVE  UInv' /\ [PanelSpec!Next]_(PanelSpec!panelVars)
  <1>1. /\ cookie' = s.saved /\ openMobile' = s.sheet /\ innerOpen' = s.inner
        /\ openProp' = s.prop
    BY DEF Flush
  <1>2. listeners' = <<[isMobile |-> isMobile', open |-> OpenOf(s.prop, s.inner)]>>
    BY FlushInstalls
  <1>3. OpenOf(s.prop, s.inner) = s.inner
    BY DEF UInv, OpenOf
  <1>4. UInv'
    BY <1>1, <1>2, <1>3 DEF UInv
  <1>5. AsString(~innerOpen) = PanelSpec!AsString(~innerOpen)
    BY DEF AsString, PanelSpec!AsString
  <1>6. [PanelSpec!Next]_(PanelSpec!panelVars)
    BY <1>1, <1>5 DEF OneFlip, PanelSpec!Next, PanelSpec!FlipPanel, PanelSpec!FlipSheet,
                      PanelSpec!panelVars
  <1>7. QED
    BY <1>4, <1>6

LEMMA UncontrolledStep ==
    ASSUME ~HasSetter, PropValues = {"undefined"}, IInv, UInv, [Next]_vars
    PROVE  UInv' /\ [PanelSpec!Next]_(PanelSpec!panelVars)
  <1>1. CASE UserToggles
    BY <1>1, UserFlips, FlipIsPanelStep
  <1>2. CASE SheetDismiss
    <2> DEFINE s == [NewBatch EXCEPT !.sheet = FALSE, !.updated = TRUE]
    <2>1. s \in Batches
      BY NewBatchIsBatch DEF Batches
    <2>2. openMobile = TRUE
      BY <1>2 DEF SheetDismiss, SheetOpen, View, IInv, Types
    <2>3. Flush(s)
      BY <1>2 DEF SheetDismiss
    <2>4. /\ s.updated /\ s.prop = openProp /\ s.sheet = ~openMobile
          /\ s.inner = innerOpen /\ s.saved = cookie
      BY <2>2 DEF NewBatch
    <2> HIDE DEF s
    <2>5. QED
      BY <2>1, <2>3, <2>4, FlipIsPanelStep DEF OneFlip
  <1>3. CASE \/ \E w \in Widths : Resize(w)
             \/ MediaChange \/ Commit \/ SheetLeft \/ UNCHANGED vars
    BY <1>3 DEF Resize, MediaChange, Commit, SheetLeft, page, vars, UInv, PanelSpec!panelVars
  <1>4. CASE \E v \in PropValues : OwnerSets(v)
    BY <1>4 DEF OwnerSets, UInv
  <1>5. CASE MountEffects \/ RunEffects
    <2>1. listeners' = <<Closure>>
      <3>1. CASE RunEffects
        BY <3>1, ReinstallOne DEF RunEffects, IInv, Installed
      <3>2. CASE MountEffects
        <4>1. Reinstall(listeners, Closure) = <<Closure>>
          BY <3>2, ReinstallOne DEF MountEffects, IInv, Installed
        <4>2. Reinstall(<<Closure>>, Closure) = <<Closure>>
          BY ReinstallOne
        <4>3. QED
          BY <3>2, <4>1, <4>2 DEF MountEffects, MountedListeners
      <3>3. QED
        BY <1>5, <3>1, <3>2
    <2>2. Closure.open = innerOpen
      BY DEF UInv, Closure, open, OpenOf
    <2>3. UNCHANGED <<openProp, innerOpen, openMobile, cookie>>
      BY <1>5 DEF MountEffects, RunEffects
    <2>4. QED
      BY <2>1, <2>2, <2>3 DEF UInv, PanelSpec!panelVars
  <1>6. CASE CookieExpires
    BY <1>6 DEF CookieExpires, UInv, PanelSpec!Next, PanelSpec!Expire
  <1>7. CASE Reload
    <2>1. /\ openProp' = "undefined" /\ listeners' = <<>>
          /\ openMobile' = FALSE /\ innerOpen' = DefaultOpen /\ cookie' = cookie
      BY <1>7 DEF Reload, FirstRender
    <2>2. QED
      BY <2>1 DEF UInv, PanelSpec!Next, PanelSpec!Reload
  <1>8. QED
    BY <1>1, <1>2, <1>3, <1>4, <1>5, <1>6, <1>7 DEF Next

\* An uncontrolled sidebar implements Panel: stale closures, calls made twice
\* in one event, renders and effects that come late, StrictMode and reloads
\* never open or close more than one of the panel and the sheet in a step,
\* and never the panel without saving it.
THEOREM SidebarImplementsPanel ==
    ASSUME ~HasSetter, PropValues = {"undefined"}
    PROVE  Spec => ImplementsPanel
  <1>1. Init => UInv /\ PanelSpec!Init
    BY DEF Init, FirstRender, UInv, PanelSpec!Init
  <1>2. IInv /\ UInv /\ [Next]_vars => UInv' /\ [PanelSpec!Next]_(PanelSpec!panelVars)
    BY UncontrolledStep
  <1>3. QED
    BY <1>1, <1>2, IInvHolds, PTL DEF Spec, ImplementsPanel, PanelSpec!Spec

-----------------------------------------------------------------------------
(* What a user sees of a toggle                                            *)

LEMMA SheetShown ==
    ASSUME Collapsible # "none", NEW v, v.collapsible = Collapsible, v.isMobile
    PROVE  Shown(v) = IF v.openMobile THEN "full" ELSE "nothing"
  BY DEF Shown, SheetOpen, Rendering

LEMMA PanelShown ==
    ASSUME Collapsible # "none", NEW v, v.collapsible = Collapsible, ~v.isMobile,
           v.width \in Nat, v.width >= MdBreakpoint
    PROVE  Shown(v) = "full" <=> v.open
  <1>1. Rendering(v) = "panel"
    BY DEF Rendering
  <1>2. DataCollapsible(v) = IF v.open THEN "" ELSE Collapsible
    BY DEF DataCollapsible
  <1>3. ~(v.width < MdBreakpoint)
    BY MdBreakpointIsNat
  <1>4. Collapsible \in {"offcanvas", "icon"}
    BY SidebarAssumption DEF Collapsibles
  <1>5. Shown(v) = IF ~v.open /\ Collapsible = "offcanvas" THEN "nothing"
                   ELSE IF ~v.open THEN "icons" ELSE "full"
    BY <1>1, <1>2, <1>3, <1>4 DEF Shown
  <1>6. QED
    BY <1>4, <1>5

\* Nobody but onOpenChange moves an open that is passed, and without it none is.
Free == ~HasSetter => openProp = "undefined"

LEMMA ToggleShows ==
    ASSUME MdBreakpoint = MOBILE_BREAKPOINT, Collapsible # "none", IInv, Free, Settled,
           TriggerClick("none", TRUE) \/ Shortcut(TRUE)
    PROVE  Shown(View)' # Shown(View)
  <1> DEFINE t == ToggleSidebar(Closure, TRUE, NewBatch)
  <1>1. Flush(t)
    <2>1. CASE TriggerClick("none", TRUE)
      BY <2>1 DEF TriggerClick
    <2>2. CASE Shortcut(TRUE)
      <3>1. listeners = <<Closure>>
        BY DEF Settled, EffectsDue
      <3>2. PICK i \in DOMAIN listeners :
                Flush(ToggleSidebar(listeners[i], TRUE, NewBatch))
        BY <2>2 DEF Shortcut
      <3>3. listeners[i] = Closure
        BY <3>1
      <3>4. QED
        BY <3>2, <3>3
    <2>3. QED
      BY <2>1, <2>2
  <1>2. QED
    <2>1. /\ mounted /\ nextMobile = <<>> /\ mqlMatches = Matches(width)
          /\ isMobile = mqlMatches
      BY DEF Settled, EffectsDue, IInv, MobileKnown
    <2>2. /\ isMobile \in BOOLEAN /\ openMobile \in BOOLEAN /\ innerOpen \in BOOLEAN
          /\ open \in BOOLEAN /\ width \in Nat
      BY OpenIsBoolean, WidthIsNat DEF IInv, Types, open
    <2>3. AsString(~open) \in {"true", "false"} /\ (AsString(~open) = "true" <=> ~open)
      BY <2>2, StringOfBoolean
    <2>4. /\ isMobile => /\ t.sheet = ~openMobile /\ t.prop = openProp
                         /\ t.inner = innerOpen
          /\ ~isMobile => /\ t.sheet = openMobile
                          /\ HasSetter => t.prop = AsString(~open)
                          /\ ~HasSetter => t.inner = ~open /\ t.prop = openProp
          /\ t.updated
      BY DEF ToggleSidebar, SetOpen, NewBatch, Closure
    <2>5. ~isMobile => OpenOf(t.prop, t.inner) = ~open
      <3>1. CASE ~isMobile /\ HasSetter
        <4>1. OpenOf(t.prop, t.inner) = (AsString(~open) = "true")
          BY <2>3, <2>4, <3>1 DEF OpenOf
        <4>2. QED
          BY <2>2, <2>3, <4>1
      <3>2. CASE ~isMobile /\ ~HasSetter
        BY <2>4, <3>2 DEF Free, OpenOf
      <3>3. QED
        BY <3>1, <3>2
    <2> HIDE DEF t
    <2>6. /\ openMobile' = t.sheet /\ innerOpen' = t.inner /\ openProp' = t.prop
          /\ width' = width /\ isMobile' = isMobile
      BY <1>1, <2>1, <2>4 DEF Flush
    <2>7. open' = OpenOf(t.prop, t.inner)
      BY <2>6 DEF open, OpenOf
    <2>8. isMobile <=> width < MdBreakpoint
      BY <2>1, <2>2, TestsAgree DEF Narrow
    <2>9. /\ View.collapsible = Collapsible /\ View.isMobile = isMobile
          /\ View.open = open /\ View.openMobile = openMobile /\ View.width = width
      BY DEF View
    <2>10. /\ View'.collapsible = Collapsible /\ View'.isMobile = isMobile
           /\ View'.open = OpenOf(t.prop, t.inner) /\ View'.openMobile = t.sheet
           /\ View'.width = width
      BY <2>6, <2>7 DEF View
    <2>11. Shown(View)' = Shown(View')
      BY DEF Shown, SheetOpen, Rendering, DataCollapsible
    <2>12. CASE isMobile
      <3>1. Shown(View) = IF openMobile THEN "full" ELSE "nothing"
        BY <2>9, <2>12, SheetShown
      <3>2. Shown(View') = IF t.sheet THEN "full" ELSE "nothing"
        BY <2>10, <2>12, SheetShown
      <3>3. QED
        BY <2>2, <2>4, <2>11, <2>12, <3>1, <3>2
    <2>13. CASE ~isMobile
      <3>1. width >= MdBreakpoint
        BY <2>2, <2>8, <2>13, MdBreakpointIsNat
      <3>2. Shown(View) = "full" <=> open
        BY <2>2, <2>9, <2>13, <3>1, PanelShown
      <3>3. Shown(View') = "full" <=> OpenOf(t.prop, t.inner)
        BY <2>2, <2>10, <2>13, <3>1, PanelShown
      <3>4. QED
        BY <2>2, <2>5, <2>11, <2>13, <3>2, <3>3
    <2>14. QED
      BY <2>2, <2>12, <2>13

LEMMA FreeKeeps ==
    ASSUME HasSetter \/ PropValues = {"undefined"}, IInv, Free, [Next]_vars
    PROVE  Free'
  <1> SUFFICES ASSUME ~HasSetter, openProp = "undefined"
               PROVE  openProp' = "undefined"
    BY DEF Free
  <1>1. CASE UserToggles
    BY <1>1, UserAsks DEF Flush, Asked
  <1>2. CASE SheetDismiss
    BY <1>2 DEF SheetDismiss, Flush, NewBatch
  <1>3. CASE ~UserToggles /\ ~SheetDismiss
    BY <1>3 DEF Next, Resize, OwnerSets, MediaChange, MountEffects, RunEffects, Commit,
                CookieExpires, SheetLeft, Reload, FirstRender, vars
  <1>4. QED
    BY <1>1, <1>2, <1>3

\* A toggle of a settled page shows: the panel while the panel is what the
\* style sheet shows, the sheet otherwise.  (A sidebar whose owner passes open
\* and no onOpenChange is not toggled by anything, and is left out.)
THEOREM TogglesShow ==
    ASSUME MdBreakpoint = MOBILE_BREAKPOINT, Collapsible # "none",
           HasSetter \/ PropValues = {"undefined"}
    PROVE  Spec => TogglesWhatIsShown
  <1>1. Init => Free
    BY DEF Init, FirstRender, Free
  <1>2. IInv /\ Free /\ [Next]_vars => Free'
    BY FreeKeeps
  <1>3. IInv /\ Free =>
            [Settled /\ (TriggerClick("none", TRUE) \/ Shortcut(TRUE))
                => Shown(View)' # Shown(View)]_vars
    BY ToggleShows
  <1>4. QED
    BY <1>1, <1>2, <1>3, IInvHolds, PTL DEF Spec, TogglesWhatIsShown

-----------------------------------------------------------------------------
(* The application: the sidebar, the theme and the menus together          *)

\* The effects of the theme run with those of the sidebar, and from then on the
\* page has the colors of the theme.
ThemeApplied ==
    /\ os \in T!Schemes /\ store \in AllThemes \cup {"none"}
    /\ theme \in [{Tab} -> AllThemes] /\ class \in [{Tab} -> SUBSET T!Schemes]
    /\ status = [t \in {Tab} |-> IF mounted THEN "ready" ELSE "rendered"]
    /\ mounted /\ theme[Tab] # "system" => class[Tab] = {theme[Tab]}

\* A menu is open in a tree that is mounted, after the first effects.
MenuMounted ==
    /\ menu \in {"none", "header", "user", "theme"}
    /\ menu # "none" => mounted /\ ChildrenMounted(View)

AppInv == IInv /\ ThemeApplied /\ MenuMounted

\* A render that the menus or the theme ask for changes nothing the user has
\* done to the sidebar.
LEMMA Rerenders ==
    ASSUME IInv, NEW b \in BOOLEAN, Flush([NewBatch EXCEPT !.updated = b])
    PROVE  /\ IInv'
           /\ UNCHANGED <<width, openMobile, innerOpen, openProp, cookie>>
           /\ mounted' = (b \/ mounted)
  <1> DEFINE s == [NewBatch EXCEPT !.updated = b]
  <1>1. s \in Batches
    BY NewBatchIsBatch DEF Batches
  <1>2. /\ s.sheet = openMobile /\ s.inner = innerOpen /\ s.prop = openProp
        /\ s.saved = cookie /\ s.updated = b
    BY DEF NewBatch
  <1>3. Flush(s)
    OBVIOUS
  <1> HIDE DEF s
  <1>4. mounted \in BOOLEAN
    BY DEF IInv, Types
  <1>5. mounted' = (b \/ mounted)
    BY <1>2, <1>3, <1>4 DEF Flush, page
  <1>6. QED
    BY <1>1, <1>2, <1>3, <1>5, FlushKeeps DEF Flush

\* What a step of the application does to the sidebar.
LEMMA SidebarPart ==
    ASSUME [AppNext]_appVars
    PROVE  \/ [Next]_vars
           \/ \E b \in BOOLEAN : Flush([NewBatch EXCEPT !.updated = b])
  <1>1. CASE UNCHANGED appVars
    BY <1>1 DEF appVars
  <1>2. CASE \/ \E m \in Menus : OpenMenu(m)
             \/ CloseMenu \/ OpenSubmenu \/ CloseSubmenu
    BY <1>2 DEF OpenMenu, CloseMenu, OpenSubmenu, CloseSubmenu, Rerender
  <1>3. CASE \E th \in T!Themes : ChooseTheme(th)
    BY <1>3 DEF ChooseTheme
  <1>4. CASE SidebarStep
    BY <1>4 DEF SidebarStep, Next, UserToggles
  <1>5. CASE ReloadPage
    BY <1>5 DEF ReloadPage, Next
  <1>6. CASE Elsewhere
    BY <1>6 DEF Elsewhere
  <1>7. QED
    BY <1>1, <1>2, <1>3, <1>4, <1>5, <1>6 DEF AppNext

LEMMA AppKeepsIInv ==
    ASSUME IInv, [AppNext]_appVars
    PROVE  IInv'
  BY SidebarPart, NextKeeps, Rerenders

\* Once mounted, a page stays mounted until it is loaded again.
LEMMA StaysMounted ==
    ASSUME IInv, SidebarStep, mounted
    PROVE  mounted'
  <1>1. CASE UserToggles
    <2>1. PICK s \in Batches, accept \in BOOLEAN : Flush(s) /\ Asked(s, accept)
      BY <1>1, UserAsks
    <2>2. QED
      BY <2>1 DEF Flush, page
  <1>2. CASE SheetDismiss
    BY <1>2 DEF SheetDismiss, Flush, page
  <1>3. CASE \/ \E w \in Widths : Resize(w)
             \/ MediaChange \/ MountEffects \/ RunEffects \/ Commit \/ SheetLeft
    BY <1>3 DEF Resize, MediaChange, MountEffects, RunEffects, Commit, SheetLeft, page
  <1>4. QED
    BY <1>1, <1>2, <1>3 DEF SidebarStep, UserToggles

-----------------------------------------------------------------------------
(* The theme in the application                                            *)

\* The first effects apply the theme; every other step of the sidebar leaves
\* it alone.
LEMMA FirstEffectsApply ==
    ASSUME IInv, ThemeApplied, FirstEffects, mounted => mounted', mounted' \in BOOLEAN
    PROVE  ThemeApplied'
  <1>1. mounted \in BOOLEAN
    BY DEF IInv, Types
  <1>2. CASE mounted' /\ ~mounted
    <2>1. T!ApplyEffect(Tab)
      BY <1>2 DEF FirstEffects
    <2>2. T!SystemClass(theme[Tab]) \in AllThemes
      BY DEF ThemeApplied, T!SystemClass, T!Schemes, AllThemes
    <2>3. /\ class' = [class EXCEPT ![Tab] = T!Apply(@, theme[Tab])]
          /\ status' = [status EXCEPT ![Tab] = "ready"]
          /\ UNCHANGED <<store, os, theme, orphan>>
      BY <2>1, <2>2 DEF T!ApplyEffect
    <2>4. T!SystemClass(theme[Tab]) \in T!Schemes
      BY DEF ThemeApplied, T!SystemClass, T!Schemes, AllThemes
    <2>5. class[Tab] \in SUBSET T!Schemes
      BY DEF ThemeApplied
    <2>6. T!Apply(class[Tab], theme[Tab]) = {T!SystemClass(theme[Tab])}
      BY <2>5 DEF T!Apply
    <2>7. class'[Tab] = {T!SystemClass(theme[Tab])}
      BY <2>3, <2>6 DEF ThemeApplied
    <2>8. class' \in [{Tab} -> SUBSET T!Schemes]
      BY <2>3, <2>4, <2>6 DEF ThemeApplied
    <2>9. status' = [t \in {Tab} |-> IF mounted' THEN "ready" ELSE "rendered"]
      BY <1>2, <2>3 DEF ThemeApplied
    <2>10. theme'[Tab] # "system" => class'[Tab] = {theme'[Tab]}
      BY <2>3, <2>7 DEF T!SystemClass
    <2>11. QED
      BY <2>3, <2>8, <2>9, <2>10 DEF ThemeApplied
  <1>3. CASE ~(mounted' /\ ~mounted)
    <2>1. UNCHANGED themeVars
      BY <1>3 DEF FirstEffects
    <2>2. mounted' = mounted
      BY <1>1, <1>3
    <2>3. QED
      BY <2>1, <2>2 DEF ThemeApplied, themeVars
  <1>4. QED
    BY <1>2, <1>3

\* A choice shows at once, and the theme that is shown already needs nothing.
LEMMA ChoiceShows ==
    ASSUME ThemeApplied, mounted, mounted', NEW th \in T!Themes, T!Choose(Tab, th)
    PROVE  ThemeApplied'
  <1>1. UNCHANGED <<os, status, orphan>>
    BY DEF T!Choose
  <1>2. th \in AllThemes
    BY DEF T!Themes, T!Schemes, AllThemes
  <1>3. status' = [t \in {Tab} |-> IF mounted' THEN "ready" ELSE "rendered"]
    <2>1. status = [t \in {Tab} |-> "ready"]
      BY DEF ThemeApplied
    <2>2. [t \in {Tab} |-> IF mounted' THEN "ready" ELSE "rendered"] = [t \in {Tab} |-> "ready"]
      OBVIOUS
    <2>3. QED
      BY <1>1, <2>1, <2>2
  <1>4. CASE UNCHANGED <<store, theme, class>>
    BY <1>1, <1>3, <1>4 DEF ThemeApplied
  <1>5. CASE store' = th /\ T!Show(Tab, th)
    <2>1. theme' = [theme EXCEPT ![Tab] = th]
      BY <1>5 DEF T!Show
    <2>2. CASE th = theme[Tab]
      BY <1>1, <1>2, <1>3, <1>5, <2>1, <2>2 DEF T!Show, ThemeApplied
    <2>3. CASE th # theme[Tab]
      <3>1. class' = [class EXCEPT ![Tab] = T!Apply(@, th)]
        BY <1>5, <2>3 DEF T!Show
      <3>2. T!SystemClass(th) \in T!Schemes
        BY <1>2 DEF ThemeApplied, T!SystemClass, T!Schemes, AllThemes
      <3>3. T!Apply(class[Tab], th) = {T!SystemClass(th)}
        BY DEF T!Apply, ThemeApplied
      <3>4. class' \in [{Tab} -> SUBSET T!Schemes] /\ class'[Tab] = {T!SystemClass(th)}
        BY <3>1, <3>2, <3>3 DEF ThemeApplied
      <3>5. theme' \in [{Tab} -> AllThemes] /\ theme'[Tab] = th
        BY <1>2, <2>1 DEF ThemeApplied
      <3>6. theme'[Tab] # "system" => class'[Tab] = {theme'[Tab]}
        BY <3>4, <3>5 DEF T!SystemClass
      <3>7. QED
        BY <1>1, <1>2, <1>3, <1>5, <3>4, <3>5, <3>6 DEF ThemeApplied
    <2>4. QED
      BY <2>2, <2>3
  <1>6. QED
    BY <1>4, <1>5 DEF T!Choose, T!SetTheme

LEMMA ThemePart ==
    ASSUME AppInv, [AppNext]_appVars
    PROVE  ThemeApplied'
  <1>1. IInv /\ IInv' /\ ThemeApplied /\ mounted \in BOOLEAN /\ mounted' \in BOOLEAN
    BY AppKeepsIInv DEF AppInv, IInv, Types
  <1>2. menu # "none" => mounted
    BY DEF AppInv, MenuMounted
  <1>3. Rerender => mounted'
    BY <1>1, Rerenders DEF Rerender
  <1>4. CASE UNCHANGED appVars
    BY <1>1, <1>4 DEF appVars, vars, themeVars, ThemeApplied
  <1>5. CASE \E m \in Menus : OpenMenu(m)
    BY <1>1, <1>3, <1>5, FirstEffectsApply DEF OpenMenu
  <1>6. CASE CloseMenu \/ OpenSubmenu \/ CloseSubmenu
    <2>1. mounted
      BY <1>2, <1>6 DEF CloseMenu, OpenSubmenu, CloseSubmenu
    <2>2. mounted'
      BY <1>3, <1>6, <2>1 DEF CloseMenu, OpenSubmenu, CloseSubmenu, vars
    <2>3. UNCHANGED themeVars
      BY <1>6 DEF CloseMenu, OpenSubmenu, CloseSubmenu
    <2>4. QED
      BY <1>1, <2>1, <2>2, <2>3 DEF ThemeApplied, themeVars
  <1>7. ASSUME NEW th \in T!Themes, ChooseTheme(th)
        PROVE  ThemeApplied'
    <2>1. mounted /\ T!Choose(Tab, th)
      BY <1>2, <1>7 DEF ChooseTheme
    <2>2. mounted'
      <3> DEFINE b == (theme' # theme)
      <3>1. b \in BOOLEAN /\ Flush([NewBatch EXCEPT !.updated = b])
        BY <1>7 DEF ChooseTheme
      <3> HIDE DEF b
      <3>2. mounted' = (b \/ mounted)
        BY <1>1, <3>1, Rerenders
      <3>3. QED
        BY <2>1, <3>2
    <2>3. QED
      BY <1>1, <2>1, <2>2, ChoiceShows
  <1>8. CASE SidebarStep
    <2>1. FirstEffects
      BY <1>8 DEF SidebarStep
    <2>2. mounted => mounted'
      BY <1>1, <1>8, StaysMounted
    <2>3. QED
      BY <1>1, <2>1, <2>2, FirstEffectsApply
  <1>9. CASE ReloadPage
    <2>1. /\ T!Load(Tab) /\ mounted' = FALSE
      BY <1>9 DEF ReloadPage, Reload
    <2>2. T!Stored(store) \in AllThemes
      BY <1>1 DEF ThemeApplied, T!Stored, AllThemes
    <2>3. QED
      BY <1>1, <2>1, <2>2 DEF T!Load, ThemeApplied
  <1>10. CASE Elsewhere
    <2>1. mounted' = mounted
      BY <1>10 DEF Elsewhere, vars
    <2>2. QED
      BY <1>1, <1>10, <2>1 DEF Elsewhere, T!SchemeChanges, T!StoreChanges, ThemeApplied
  <1>11. QED
    BY <1>4, <1>5, <1>6, <1>7, <1>8, <1>9, <1>10 DEF AppNext

-----------------------------------------------------------------------------
(* The menus in the application                                            *)

LEMMA KeptIsMounted ==
    ASSUME NEW m, menu' = Kept(m), menu' # "none"
    PROVE  menu' = m /\ ChildrenMounted(View)'
  BY DEF Kept, SameTree

LEMMA MenuPart ==
    ASSUME AppInv, [AppNext]_appVars
    PROVE  MenuMounted'
  <1>1. IInv /\ (menu # "none" => mounted)
    BY DEF AppInv, MenuMounted
  <1>2. Rerender => mounted'
    BY <1>1, Rerenders DEF Rerender
  <1>3. ASSUME NEW m \in {"none", "header", "user", "theme"}, menu' = Kept(m),
               m # "none" => mounted'
        PROVE  MenuMounted'
    <2>1. menu' # "none" => menu' = m /\ ChildrenMounted(View)'
      BY <1>3, KeptIsMounted
    <2>2. menu' = m \/ menu' = "none"
      BY <1>3 DEF Kept
    <2>3. QED
      BY <1>3, <2>1, <2>2 DEF MenuMounted
  <1>4. menu \in {"none", "header", "user", "theme"}
    BY DEF AppInv, MenuMounted
  <1>5. CASE UNCHANGED <<vars, menu>>
    <2>1. View' = View
      BY <1>5 DEF vars, View, open, OpenOf
    <2>2. ChildrenMounted(View)' <=> ChildrenMounted(View)
      BY <2>1 DEF ChildrenMounted, SheetMounted, Rendering
    <2>3. UNCHANGED <<mounted, menu>>
      BY <1>5 DEF vars
    <2>4. QED
      BY <2>2, <2>3 DEF AppInv, MenuMounted
  <1>6. CASE UNCHANGED appVars
    BY <1>5, <1>6 DEF appVars
  <1>7. ASSUME NEW m \in Menus, OpenMenu(m) PROVE MenuMounted'
    <2>1. menu' = Kept(m) /\ mounted'
      BY <1>2, <1>7 DEF OpenMenu
    <2>2. QED
      BY <1>3, <2>1 DEF Menus
  <1>8. CASE CloseMenu \/ ReloadPage
    BY <1>8 DEF CloseMenu, ReloadPage, MenuMounted
  <1>9. CASE OpenSubmenu
    <2>1. menu' = Kept("theme") /\ mounted'
      BY <1>1, <1>2, <1>9 DEF OpenSubmenu, vars
    <2>2. QED
      BY <1>3, <2>1
  <1>10. CASE CloseSubmenu
    <2>1. menu' = Kept("user") /\ mounted'
      BY <1>2, <1>10 DEF CloseSubmenu
    <2>2. QED
      BY <1>3, <2>1
  <1>11. ASSUME NEW th \in T!Themes, ChooseTheme(th) PROVE MenuMounted'
    <2> DEFINE b == (theme' # theme)
    <2>1. b \in BOOLEAN /\ Flush([NewBatch EXCEPT !.updated = b])
      BY <1>11 DEF ChooseTheme
    <2>2. mounted /\ menu' = Kept(menu)
      BY <1>1, <1>11 DEF ChooseTheme
    <2> HIDE DEF b
    <2>3. mounted' = (b \/ mounted)
      BY <1>1, <2>1, Rerenders
    <2>4. QED
      BY <1>3, <1>4, <2>2, <2>3
  <1>12. CASE SidebarStep
    <2>1. menu' = Kept(menu)
      BY <1>12 DEF SidebarStep
    <2>2. menu # "none" => mounted'
      BY <1>1, <1>12, StaysMounted
    <2>3. QED
      BY <1>3, <1>4, <2>1, <2>2
  <1>13. CASE Elsewhere
    BY <1>5, <1>13 DEF Elsewhere
  <1>14. QED
    BY <1>6, <1>7, <1>8, <1>9, <1>10, <1>11, <1>12, <1>13 DEF AppNext

LEMMA AppInvHolds == AppSpec => []AppInv
  <1>1. AppInit => AppInv
    <2> SUFFICES ASSUME AppInit PROVE AppInv
      OBVIOUS
    <2>1. IInv
      BY InitIInv DEF AppInit
    <2>2. ~mounted
      BY DEF AppInit, Init
    <2>3. ThemeApplied
      <3>1. T!Stored(store) \in AllThemes
        BY DEF AppInit, T!Stored, T!Themes, T!Schemes, AllThemes
      <3>2. QED
        BY <2>2, <3>1 DEF AppInit, ThemeApplied, T!Themes, T!Schemes, AllThemes
    <2>4. MenuMounted
      BY DEF AppInit, MenuMounted
    <2>5. QED
      BY <2>1, <2>3, <2>4 DEF AppInv
  <1>2. AppInv /\ [AppNext]_appVars => AppInv'
    BY AppKeepsIInv, ThemePart, MenuPart DEF AppInv
  <1>3. QED
    BY <1>1, <1>2, PTL DEF AppSpec

\* A menu that is open is part of the page and true of it: its component is
\* mounted, in a sheet that is open or still going out, the first effects have
\* run, and the item it marks is the theme whose colors the page has, through
\* every order of clicks, shortcuts, ends of transitions, layout changes and
\* reloads.
THEOREM OpenMenusAreTrue == AppSpec => []OpenMenuIsTrue
  <1>1. ASSUME AppInv
        PROVE  OpenMenuIsTrue
    <2>1. MenuInMountedSidebar
      BY <1>1 DEF AppInv, MenuMounted, MenuInMountedSidebar, DropdownMenuContent, Menus
    <2>2. MenuAfterEffects
      BY <1>1 DEF AppInv, MenuMounted, ThemeApplied, MenuAfterEffects
    <2>3. MarkIsTheme
      <3> SUFFICES ASSUME DropdownMenuSubContent
                   PROVE  \E item \in AllThemes :
                              /\ MarkedItems = {item}
                              /\ item # "system" => class[Tab] = {item}
        BY DEF MarkIsTheme
      <3>1. mounted /\ theme[Tab] \in AllThemes
        BY <1>1 DEF AppInv, MenuMounted, ThemeApplied, DropdownMenuSubContent
      <3>2. MarkedItems = {theme[Tab]}
        BY <3>1 DEF MarkedItems, T!Checked
      <3>3. theme[Tab] # "system" => class[Tab] = {theme[Tab]}
        BY <1>1, <3>1 DEF AppInv, ThemeApplied
      <3>4. QED
        BY <3>1, <3>2, <3>3
    <2>4. QED
      BY <2>1, <2>2, <2>3 DEF OpenMenuIsTrue
  <1>2. QED
    BY <1>1, AppInvHolds, PTL

\* Menus and choices render the sidebar too, and still one listener is left.
THEOREM AppListenerIsSingle == AppSpec => []OneListener
  <1>1. AppInv => OneListener
    BY DEF AppInv, IInv, Types, Installed, OneListener
  <1>2. QED
    BY <1>1, AppInvHolds, PTL

\* The layout fits the window under the menus as well, once nothing is pending.
THEOREM AppLayoutFits ==
    ASSUME MdBreakpoint = MOBILE_BREAKPOINT
    PROVE  AppSpec => []SettledFits
  <1>1. AppInv => SettledFits
    BY SettledPageFits DEF AppInv
  <1>2. QED
    BY <1>1, AppInvHolds, PTL

\* A toggle shows in the application too: what the menus and the theme ask for
\* never takes the place of it.
THEOREM AppTogglesShow ==
    ASSUME MdBreakpoint = MOBILE_BREAKPOINT, Collapsible # "none",
           HasSetter \/ PropValues = {"undefined"}
    PROVE  AppSpec => TogglesWhatIsShown
  <1>1. AppInit => Free
    BY DEF AppInit, Init, FirstRender, Free
  <1>2. AppInv /\ Free /\ [AppNext]_appVars => Free'
    BY SidebarPart, FreeKeeps, Rerenders DEF AppInv, Free
  <1>3. AppInv /\ Free =>
            [Settled /\ (TriggerClick("none", TRUE) \/ Shortcut(TRUE))
                => Shown(View)' # Shown(View)]_vars
    BY ToggleShows DEF AppInv
  <1>4. QED
    BY <1>1, <1>2, <1>3, AppInvHolds, PTL DEF AppSpec, TogglesWhatIsShown

\* The uncontrolled sidebar still implements Panel when the application around
\* it renders it for the menus: no menu and no theme moves the panel.
THEOREM AppImplementsPanel ==
    ASSUME ~HasSetter, PropValues = {"undefined"}
    PROVE  AppSpec => ImplementsPanel
  <1>1. AppInit => UInv /\ PanelSpec!Init
    BY DEF AppInit, Init, FirstRender, UInv, PanelSpec!Init
  <1>2. ASSUME IInv, UInv, NEW b \in BOOLEAN, Flush([NewBatch EXCEPT !.updated = b])
        PROVE  UInv' /\ [PanelSpec!Next]_(PanelSpec!panelVars)
    <2> DEFINE s == [NewBatch EXCEPT !.updated = b]
    <2>1. s \in Batches
      BY <1>2, NewBatchIsBatch DEF Batches
    <2>2. /\ s.updated = b /\ s.prop = openProp /\ s.sheet = openMobile
          /\ s.inner = innerOpen /\ s.saved = cookie
      BY DEF NewBatch
    <2>3. Flush(s)
      BY <1>2
    <2> HIDE DEF s
    <2>4. CASE b
      BY <1>2, <2>1, <2>2, <2>3, <2>4, FlipIsPanelStep DEF OneFlip
    <2>5. CASE ~b
      BY <1>2, <2>2, <2>3, <2>5 DEF Flush, UInv, PanelSpec!panelVars
    <2>6. QED
      BY <2>4, <2>5
  <1>3. AppInv /\ UInv /\ [AppNext]_appVars
            => UInv' /\ [PanelSpec!Next]_(PanelSpec!panelVars)
    BY <1>2, SidebarPart, UncontrolledStep DEF AppInv
  <1>4. QED
    BY <1>1, <1>3, AppInvHolds, PTL DEF AppSpec, ImplementsPanel, PanelSpec!Spec

=============================================================================
