------------------------------ MODULE ThemeProofs ------------------------------
(***************************************************************************)
(* Theorems about Theme, for any set of tabs, any foreign writers of the   *)
(* storage and any default theme.                                          *)
(*                                                                         *)
(* The inductive invariant IInv says of a document that it has at most one *)
(* class of a color scheme, and of a usable page that it is the one of its *)
(* theme: a choice of the theme a tab already has leaves the class alone   *)
(* (React does not render), so the class must have been right before.      *)
(***************************************************************************)
EXTENDS Theme, FiniteSetTheorems, TLAPS

Drawn(t) == class[t] \cap Schemes

\* What one tab keeps.
TabInv(t) ==
    /\ Drawn(t) = {} \/ \E x \in Schemes : Drawn(t) = {x}
    /\ status[t] = "ready" /\ theme[t] \in Schemes => Drawn(t) = {theme[t]}
    /\ status[t] = "ready" /\ theme[t] = "system" => Drawn(t) # {}

IInv == TypeOK /\ \A t \in Tabs : TabInv(t)

-----------------------------------------------------------------------------
(* The effect                                                              *)

LEMMA SystemClassIs ==
    ASSUME os \in Schemes, NEW th \in Values
    PROVE  /\ SystemClass(th) \in Values
           /\ th \in Schemes => SystemClass(th) = th
           /\ th = "system" => SystemClass(th) \in Schemes
           /\ th = "system" => SystemClass(th) \in Tokens
           /\ th # "system" => SystemClass(th) = th
  BY ThemeAssumption DEF SystemClass, Values, Themes, Schemes

\* Whatever classes there were, applying a theme leaves its scheme alone.
LEMMA ApplyIs ==
    ASSUME os \in Schemes, NEW th \in Values, NEW classes \in SUBSET Values
    PROVE  /\ Apply(classes, th) \in SUBSET Values
           /\ \/ Apply(classes, th) \cap Schemes = {}
              \/ \E x \in Schemes : Apply(classes, th) \cap Schemes = {x}
           /\ th \in Schemes => Apply(classes, th) \cap Schemes = {th}
           /\ th = "system" => Apply(classes, th) \cap Schemes # {}
  <1> DEFINE c == SystemClass(th)
  <1>1. c \in Values /\ (th \in Schemes => c = th) /\ (th = "system" => c \in Schemes)
    BY SystemClassIs
  <1>2. Apply(classes, th) = (classes \ Schemes) \cup {c}
    BY DEF Apply
  <1> HIDE DEF c
  <1>3. Apply(classes, th) \cap Schemes = {c} \cap Schemes
    BY <1>2
  <1>4. QED
    BY <1>1, <1>2, <1>3

-----------------------------------------------------------------------------
(* The invariant                                                           *)

LEMMA InitIInv == Init => IInv
  BY ThemeAssumption DEF Init, IInv, TypeOK, TabInv, Drawn, Values

LEMMA LoadKeeps ==
    ASSUME IInv, NEW t \in Tabs, Load(t)
    PROVE  IInv'
  <1>1. Stored(store) \in Values
    BY ThemeAssumption DEF IInv, TypeOK, Stored, Values
  <1>2. TypeOK'
    BY <1>1 DEF Load, IInv, TypeOK
  <1>3. ASSUME NEW u \in Tabs PROVE TabInv(u)'
    <2>1. CASE u = t
      BY <2>1 DEF Load, IInv, TypeOK, TabInv, Drawn
    <2>2. CASE u # t
      <3>1. /\ status'[u] = status[u] /\ theme'[u] = theme[u] /\ class'[u] = class[u]
        BY <2>2 DEF Load, IInv, TypeOK
      <3>2. QED
        BY <3>1 DEF IInv, TabInv, Drawn
    <2>3. QED
      BY <2>1, <2>2
  <1>4. QED
    BY <1>2, <1>3 DEF IInv

LEMMA EffectKeeps ==
    ASSUME IInv, NEW t \in Tabs, ApplyEffect(t)
    PROVE  IInv'
  <1>1. os \in Schemes /\ theme[t] \in Values /\ class[t] \in SUBSET Values
    BY DEF IInv, TypeOK
  <1>2. UNCHANGED <<store, os, theme, orphan>>
    BY DEF ApplyEffect
  <1>3. CASE /\ class' = [class EXCEPT ![t] = Apply(@, theme[t])]
             /\ status' = [status EXCEPT ![t] = "ready"]
    <2>1. class'[t] = Apply(class[t], theme[t]) /\ status'[t] = "ready"
      BY <1>3 DEF IInv, TypeOK
    <2>2. TypeOK'
      BY <1>1, <1>2, <1>3, ApplyIs DEF IInv, TypeOK
    <2>3. TabInv(t)'
      BY <1>1, <1>2, <2>1, ApplyIs DEF TabInv, Drawn
    <2>4. ASSUME NEW u \in Tabs \ {t} PROVE TabInv(u)'
      <3>1. /\ status'[u] = status[u] /\ theme'[u] = theme[u] /\ class'[u] = class[u]
        BY <1>2, <1>3 DEF IInv, TypeOK
      <3>2. QED
        BY <3>1 DEF IInv, TabInv, Drawn
    <2>5. QED
      BY <2>2, <2>3, <2>4 DEF IInv
  <1>4. CASE /\ class' = [class EXCEPT ![t] = @ \ Schemes]
             /\ status' = [status EXCEPT ![t] = "broken"]
    <2>1. class'[t] = class[t] \ Schemes /\ status'[t] = "broken"
      BY <1>4 DEF IInv, TypeOK
    <2>2. TypeOK'
      BY <1>2, <1>4 DEF IInv, TypeOK
    <2>3. TabInv(t)'
      BY <2>1 DEF TabInv, Drawn
    <2>4. ASSUME NEW u \in Tabs \ {t} PROVE TabInv(u)'
      <3>1. /\ status'[u] = status[u] /\ theme'[u] = theme[u] /\ class'[u] = class[u]
        BY <1>2, <1>4 DEF IInv, TypeOK
      <3>2. QED
        BY <3>1 DEF IInv, TabInv, Drawn
    <2>5. QED
      BY <2>2, <2>3, <2>4 DEF IInv
  <1>5. QED
    BY <1>3, <1>4 DEF ApplyEffect

LEMMA ChooseKeeps ==
    ASSUME IInv, NEW t \in Tabs, NEW th \in Themes, Choose(t, th)
    PROVE  IInv'
  <1>1. /\ os \in Schemes /\ th \in Values /\ class[t] \in SUBSET Values
        /\ theme[t] \in Values
    BY DEF IInv, TypeOK, Values
  <1>2. UNCHANGED <<os, status, orphan>>
    BY DEF Choose
  <1>3. CASE UNCHANGED <<store, theme, class>>
    BY <1>2, <1>3 DEF IInv, TypeOK, TabInv, Drawn
  <1>4. CASE store' = th /\ th = theme[t] /\ theme' = [theme EXCEPT ![t] = th]
             /\ class' = class
    <2>1. theme' = theme
      BY <1>4 DEF IInv, TypeOK
    <2>2. QED
      BY <1>1, <1>2, <1>4, <2>1 DEF IInv, TypeOK, TabInv, Drawn
  <1>5. CASE store' = th /\ theme' = [theme EXCEPT ![t] = th]
             /\ class' = [class EXCEPT ![t] = Apply(@, th)]
    <2>1. class'[t] = Apply(class[t], th) /\ theme'[t] = th
      BY <1>5 DEF IInv, TypeOK
    <2>2. TypeOK'
      BY <1>1, <1>2, <1>5, ApplyIs DEF IInv, TypeOK
    <2>3. TabInv(t)'
      BY <1>1, <2>1, ApplyIs DEF TabInv, Drawn
    <2>4. ASSUME NEW u \in Tabs \ {t} PROVE TabInv(u)'
      <3>1. /\ status'[u] = status[u] /\ theme'[u] = theme[u] /\ class'[u] = class[u]
        BY <1>2, <1>5 DEF IInv, TypeOK
      <3>2. QED
        BY <3>1 DEF IInv, TabInv, Drawn
    <2>5. QED
      BY <2>2, <2>3, <2>4 DEF IInv
  <1>6. QED
    BY <1>3, <1>4, <1>5 DEF Choose, SetTheme, Show

LEMMA NextKeeps == IInv /\ [Next]_vars => IInv'
  <1> SUFFICES ASSUME IInv, [Next]_vars PROVE IInv'
    OBVIOUS
  <1>1. ASSUME NEW t \in Tabs, Load(t) PROVE IInv'
    BY <1>1, LoadKeeps
  <1>2. ASSUME NEW t \in Tabs, ApplyEffect(t) PROVE IInv'
    BY <1>2, EffectKeeps
  <1>3. ASSUME NEW t \in Tabs, NEW th \in Themes, Choose(t, th) PROVE IInv'
    BY <1>3, ChooseKeeps
  <1>4. ASSUME NEW t \in Tabs, MountOrphan(t) PROVE IInv'
    BY <1>4 DEF MountOrphan, IInv, TypeOK, TabInv, Drawn
  <1>5. ASSUME NEW t \in Tabs, Close(t) PROVE IInv'
    <2>1. TypeOK'
      BY <1>5 DEF Close, IInv, TypeOK
    <2>2. ASSUME NEW u \in Tabs PROVE TabInv(u)'
      <3>1. /\ status'[u] = status[u] \/ status'[u] = "closed"
            /\ theme'[u] = theme[u] /\ class'[u] = class[u]
        BY <1>5 DEF Close, IInv, TypeOK
      <3>2. QED
        BY <3>1 DEF IInv, TabInv, Drawn
    <2>3. QED
      BY <2>1, <2>2 DEF IInv
  <1>6. CASE SchemeChanges
    BY <1>6 DEF SchemeChanges, IInv, TypeOK, TabInv, Drawn
  <1>7. ASSUME NEW v \in Foreign \cup {"none"}, StoreChanges(v) PROVE IInv'
    BY <1>7 DEF StoreChanges, IInv, TypeOK, TabInv, Drawn, Values
  <1>8. CASE UNCHANGED vars
    BY <1>8 DEF vars, IInv, TypeOK, TabInv, Drawn
  <1>9. QED
    BY <1>1, <1>2, <1>3, <1>4, <1>5, <1>6, <1>7, <1>8 DEF Next

LEMMA IInvHolds == Spec => []IInv
  BY InitIInv, NextKeeps, PTL DEF Spec

-----------------------------------------------------------------------------
(* Safety                                                                  *)

\* No tab ever has a theme or a class that neither the program nor a foreign
\* writer of the key could have given it.
THEOREM TypeCorrect == Spec => []TypeOK
  <1>1. IInv => TypeOK
    BY DEF IInv
  <1>2. QED
    BY <1>1, IInvHolds, PTL

\* A document never has the classes of both color schemes, and a usable page
\* with a theme of the program has one of them, in any number of tabs and
\* after any sequence of choices.
THEOREM SchemesExclude == Spec => []OneScheme
  <1>1. ASSUME IInv PROVE OneScheme
    <2> SUFFICES ASSUME NEW t \in Tabs
                 PROVE  /\ Cardinality(Drawn(t)) <= 1
                        /\ status[t] = "ready" /\ theme[t] \in Themes => Drawn(t) # {}
      BY DEF OneScheme, Drawn
    <2>1. Cardinality(Drawn(t)) <= 1
      <3>1. CASE Drawn(t) = {}
        BY <3>1, FS_EmptySet
      <3>2. CASE \E x \in Schemes : Drawn(t) = {x}
        <4>1. PICK x \in Schemes : Drawn(t) = {x}
          BY <3>2
        <4>2. Cardinality({x}) = 1
          BY FS_Singleton
        <4>3. QED
          BY <4>1, <4>2
      <3>3. QED
        BY <1>1, <3>1, <3>2 DEF IInv, TabInv
    <2>2. status[t] = "ready" /\ theme[t] \in Themes => Drawn(t) # {}
      BY <1>1 DEF IInv, TabInv, Themes
    <2>3. QED
      BY <2>1, <2>2
  <1>2. QED
    BY <1>1, IInvHolds, PTL

\* The mark and the icon of the menu are those of the colors of the page,
\* whichever tab chose last and whatever could not be stored.
THEOREM MenuTellsTheColors == Spec => []CheckedIsApplied
  <1>1. ASSUME IInv PROVE CheckedIsApplied
    <2> SUFFICES ASSUME NEW t \in Tabs, status[t] = "ready"
                 PROVE  /\ Cardinality({item \in Themes : Checked(t, item)}) <= 1
                        /\ \A item \in Schemes :
                               Checked(t, item) => class[t] \cap Schemes = {item}
                        /\ Icon(t) = "Sun" => "dark" \notin class[t]
                        /\ Icon(t) = "Moon" => "light" \notin class[t]
      BY DEF CheckedIsApplied
    <2> DEFINE marked == {item \in Themes : Checked(t, item)}
    <2>1. marked = {} \/ marked = {theme[t]}
      BY DEF Checked
    <2>2. Cardinality(marked) <= 1
      <3> HIDE DEF marked
      <3>1. CASE marked = {}
        BY <3>1, FS_EmptySet
      <3>2. CASE marked = {theme[t]}
        BY <3>2, FS_Singleton
      <3>3. QED
        BY <2>1, <3>1, <3>2
    <2>3. theme[t] \in Schemes => class[t] \cap Schemes = {theme[t]}
      BY <1>1 DEF IInv, TabInv, Drawn
    <2>4. \A item \in Schemes : Checked(t, item) => class[t] \cap Schemes = {item}
      BY <2>3 DEF Checked
    <2>5. Icon(t) = "Sun" => theme[t] = "light"
      BY DEF Icon
    <2>6. Icon(t) = "Moon" => theme[t] = "dark"
      BY DEF Icon
    <2>7. QED
      BY <2>2, <2>3, <2>4, <2>5, <2>6 DEF Schemes
  <1>2. QED
    BY <1>1, IInvHolds, PTL

\* A tab never shows a theme that it has not stored first.
THEOREM MovesAreStored == Spec => TabMovesToStored
  <1>1. ASSUME IInv, Next, NEW t \in Tabs, theme'[t] # theme[t]
        PROVE  theme'[t] = Stored(store')
    <2>1. CASE \E u \in Tabs : Load(u)
      <3>1. PICK u \in Tabs : Load(u)
        BY <2>1
      <3>2. u = t /\ theme'[t] = Stored(store) /\ store' = store
        BY <1>1, <3>1 DEF Load, IInv, TypeOK
      <3>3. QED
        BY <3>2 DEF Stored
    <2>2. CASE \E u \in Tabs, th \in Themes : Choose(u, th)
      <3>1. PICK u \in Tabs, th \in Themes : Choose(u, th)
        BY <2>2
      <3>2. u = t /\ theme'[t] = th /\ store' = th
        BY <1>1, <3>1 DEF Choose, SetTheme, Show, IInv, TypeOK
      <3>3. th # "none"
        BY ThemeAssumption DEF Values
      <3>4. QED
        BY <3>2, <3>3 DEF Stored
    <2>3. QED
      BY <1>1, <2>1, <2>2
         DEF Next, ApplyEffect, MountOrphan, Close, SchemeChanges, StoreChanges
  <1>2. IInv /\ [Next]_vars =>
            [\A t \in Tabs : theme'[t] # theme[t] => theme'[t] = Stored(store')]_vars
    BY <1>1
  <1>3. QED
    BY <1>2, IInvHolds, PTL DEF Spec, TabMovesToStored

=============================================================================
