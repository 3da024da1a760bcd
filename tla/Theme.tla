-------------------------------- MODULE Theme --------------------------------
(***************************************************************************)
(* The theme: ThemeProvider (ui/src/components/theme-provider.tsx) and     *)
(* useTheme (ui/src/hooks/theme.ts), in the tabs of one browser.  Local    *)
(* storage belongs to the origin: its tabs share it, and so does any other *)
(* program served from it.  The React state and the class of the document  *)
(* belong to a tab.                                                        *)
(*                                                                         *)
(* The effect of a first render runs in a task of its own, after the       *)
(* render; that of a choice runs within the event (see SidebarProvider).   *)
(***************************************************************************)
EXTENDS Naturals, FiniteSets

CONSTANTS
    Tabs,
    DefaultTheme,    \* the prop defaultTheme
    Foreign,         \* what other programs of the origin write under storageKey
    Tokens,          \* the strings classList.add accepts
    SetItemMayFail   \* localStorage.setItem may throw: the quota is exceeded

Schemes == {"light", "dark"}
Themes == Schemes \cup {"system"}
Values == Themes \cup Foreign

ASSUME ThemeAssumption ==
    /\ DefaultTheme \in Themes
    /\ Themes \subseteq Tokens
    /\ "none" \notin Values
    /\ SetItemMayFail \in BOOLEAN

VARIABLES
    store,    \* the value under storageKey, "none" when there is none
    os,       \* the color scheme the system prefers
    status,   \* of a tab: "closed", "rendered" (effect to run), "ready", "broken"
    theme,    \* the state theme of a tab
    class,    \* the class list of its document's root
    orphan    \* of a tab: a component outside the provider that calls useTheme

vars == <<store, os, status, theme, class, orphan>>

Init ==
    /\ store \in Values \cup {"none"}
    /\ os \in Schemes
    /\ status = [t \in Tabs |-> "closed"]
    /\ theme = [t \in Tabs |-> DefaultTheme]
    /\ class = [t \in Tabs |-> {}]
    /\ orphan = [t \in Tabs |-> "unmounted"]

\* localStorage.getItem(storageKey) || defaultTheme, whatever string it is.
Stored(s) == IF s = "none" THEN DefaultTheme ELSE s

-----------------------------------------------------------------------------
(* The effect                                                              *)

SystemClassOrEmpty(th) ==
    IF th # "system" THEN th ELSE IF os = "dark" THEN os ELSE ""

\* "system" stands for what the system prefers when the effect runs.
SystemClass(th) == IF th = "system" THEN os ELSE th

ApplyOnTop(classes, th) == classes \cup {SystemClass(th)}

\* classList.remove("light", "dark") and classList.add of the theme's class.
Apply(classes, th) == (classes \ Schemes) \cup {SystemClass(th)}

\* The effect of the first render.  classList.add throws on a string with a
\* space in it, and React then takes the whole page down.
ApplyEffect(t) ==
    /\ status[t] = "rendered"
    /\ \/ /\ SystemClass(theme[t]) \in Tokens
          /\ class' = [class EXCEPT ![t] = Apply(@, theme[t])]
          /\ status' = [status EXCEPT ![t] = "ready"]
       \/ /\ SystemClass(theme[t]) \notin Tokens
          /\ class' = [class EXCEPT ![t] = @ \ Schemes]
          /\ status' = [status EXCEPT ![t] = "broken"]
    /\ UNCHANGED <<store, os, theme, orphan>>

-----------------------------------------------------------------------------
(* The provider                                                            *)

\* A page is opened or loaded again: useState reads the storage once.
Load(t) ==
    /\ status' = [status EXCEPT ![t] = "rendered"]
    /\ theme' = [theme EXCEPT ![t] = Stored(store)]
    /\ class' = [class EXCEPT ![t] = {}]
    /\ orphan' = [orphan EXCEPT ![t] = "unmounted"]
    /\ UNCHANGED <<store, os>>

ShowMountOnly(t, th) ==
    /\ theme' = [theme EXCEPT ![t] = th]
    /\ UNCHANGED class

\* The state changes and, when it is another theme, so does the class.
Show(t, th) ==
    /\ theme' = [theme EXCEPT ![t] = th]
    /\ class' = IF th = theme[t] THEN class ELSE [class EXCEPT ![t] = Apply(@, th)]

SetThemeShowFirst(t, th) ==
    /\ Show(t, th)
    /\ store' = th \/ (SetItemMayFail /\ store' = store)

\* setTheme of the provider: the choice is stored, then shown; when storing it
\* throws it is not shown.  The theme a tab has already is not rendered again.
SetTheme(t, th) ==
    \/ store' = th /\ Show(t, th)
    \/ SetItemMayFail /\ UNCHANGED <<store, theme, class>>

\* A theme is picked in the menu of a tab, which was opened by an event before.
Choose(t, th) ==
    /\ status[t] = "ready"
    /\ SetTheme(t, th)
    /\ UNCHANGED <<os, status, orphan>>

-----------------------------------------------------------------------------
(* useTheme                                                                *)

\* The context a component sees: the provider's value, or the default value
\* initialState, whose theme is "system" and whose setTheme does nothing.
Context(inside) == IF inside THEN "provider" ELSE "initialState"

\* A component that is not inside the provider renders: useTheme throws when
\* the context is undefined.
MountOrphan(t) ==
    /\ status[t] = "ready"
    /\ orphan[t] = "unmounted"
    /\ orphan' = [orphan EXCEPT ![t] =
                    IF Context(FALSE) = "undefined" THEN "threw" ELSE "mounted"]
    /\ UNCHANGED <<store, os, status, theme, class>>

-----------------------------------------------------------------------------
(* The rest of the browser                                                 *)

\* No tab listens to the preferred color scheme.
SchemeChanges ==
    /\ os' \in Schemes \ {os}
    /\ UNCHANGED <<store, status, theme, class, orphan>>

\* Another program of the origin writes the key, or the user clears the site.
StoreChanges(v) ==
    /\ store' = v
    /\ UNCHANGED <<os, status, theme, class, orphan>>

Close(t) ==
    /\ status[t] # "closed"
    /\ status' = [status EXCEPT ![t] = "closed"]
    /\ UNCHANGED <<store, os, theme, class, orphan>>

Next ==
    \/ \E t \in Tabs :
         \/ Load(t) \/ ApplyEffect(t) \/ MountOrphan(t) \/ Close(t)
         \/ \E th \in Themes : Choose(t, th)
    \/ SchemeChanges
    \/ \E v \in Foreign \cup {"none"} : StoreChanges(v)

Spec == Init /\ [][Next]_vars

\* React runs the effect of a first render.
LiveSpec == Spec /\ \A t \in Tabs : WF_vars(ApplyEffect(t))

-----------------------------------------------------------------------------
(* What the menu of the theme shows (ui/src/components/sidebar.tsx)        *)

Checked(t, item) == theme[t] = item

Icon(t) == CASE theme[t] = "light" -> "Sun"
             [] theme[t] = "dark"  -> "Moon"
             [] OTHER              -> "SunMoon"

-----------------------------------------------------------------------------
(* Properties                                                              *)

\* Every variable keeps its type; a theme may be any string of the storage, but
\* never the null that stands for none.
TypeOK ==
    /\ store \in Values \cup {"none"}
    /\ os \in Schemes
    /\ status \in [Tabs -> {"closed", "rendered", "ready", "broken"}]
    /\ theme \in [Tabs -> Values]
    /\ class \in [Tabs -> SUBSET Values]
    /\ orphan \in [Tabs -> {"unmounted", "mounted", "threw"}]

\* The classes of a color scheme exclude each other after any sequence of
\* choices, whatever was in the storage, and a page with a theme of the
\* program has one: it is never drawn half light and half dark.
OneScheme ==
    \A t \in Tabs :
        /\ Cardinality(class[t] \cap Schemes) <= 1
        /\ status[t] = "ready" /\ theme[t] \in Themes => class[t] \cap Schemes # {}

\* The item checked in the menu, and the icon beside it, are those of the
\* colors of the page; at most one item is checked.
CheckedIsApplied ==
    \A t \in Tabs : status[t] = "ready" =>
        /\ Cardinality({item \in Themes : Checked(t, item)}) <= 1
        /\ \A item \in Schemes : Checked(t, item) => class[t] \cap Schemes = {item}
        /\ Icon(t) = "Sun" => "dark" \notin class[t]
        /\ Icon(t) = "Moon" => "light" \notin class[t]

\* Tabs may show different themes, since none listens to the storage; but a tab
\* moves only to what the storage holds in that step.  A choice that could not
\* be stored is not shown, so as long as no other tab has written since, a
\* reload shows the same theme.
TabMovesToStored ==
    [][\A t \in Tabs : theme'[t] # theme[t] => theme'[t] = Stored(store')]_vars

\* A page that is loaded becomes usable, or is closed, unless a stored string
\* that is no class stops it: no value stored by the program itself can.
PageOpens ==
    \A t \in Tabs : status[t] = "rendered"
                      ~> (status[t] \in {"ready", "closed"} \/ theme[t] \notin Tokens)

=============================================================================
