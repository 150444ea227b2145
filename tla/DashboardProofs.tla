-------------------------- MODULE DashboardProofs --------------------------
(***************************************************************************)
(* Proofs about AppShell and ListPages.                                    *)
(*                                                                         *)
(* AppShell, for any set of tabs, any scenes and any number of storage     *)
(* events on their way: a document shows its theme, the key d always       *)
(* changes what is shown, and the tabs agree once they have been told      *)
(* everything, but for those that the last change did not reach; no link   *)
(* leads nowhere, the item of the page's section is marked unless the      *)
(* address was typed in other letters, and each item has a name.           *)
(*                                                                         *)
(* ListPages, for any resource, names, number of jobs, requests and faults: *)
(* types and bounds; fresh data on a page do not lack an acknowledged      *)
(* change of its user; the API complains about nothing but the artifact    *)
(* that was not selected; the table leads to no empty page by itself.      *)
(***************************************************************************)
EXTENDS AppShell, ListPages, SequenceTheorems, FiniteSetTheorems, FunctionTheorems, TLAPS

Values == THEME_VALUES \cup {Nothing, Junk}
Events == Values \cup {Cleared}

\* The part of TypeOK that the theme rests on.
ThemeTypeOK ==
    /\ scene \in Scenes /\ rendered \subseteq Tabs /\ running \subseteq Tabs
    /\ storedTheme \in Values /\ system \in Schemes
    /\ theme \in [Tabs -> THEME_VALUES] /\ shown \in [Tabs -> Schemes]
    /\ inbox \in [Tabs -> Seq(Events)]

\* The last word on its way to a tab is what is stored; a tab that waits for
\* none has it already, a starting one included.
UpToDate(t) ==
    IF inbox[t] = <<>> THEN theme[t] = ThemeOf(storedTheme)
                       ELSE inbox[t][Len(inbox[t])] = storedTheme

LastWordIsStored == \A t \in (rendered \cup running) \ strayed : UpToDate(t)

ThemeInv == ThemeTypeOK /\ ShownIsTheTheme /\ LastWordIsStored

-----------------------------------------------------------------------------
(* The functions on themes.                                                *)

LEMMA ThemeOfType == \A v : ThemeOf(v) \in THEME_VALUES
BY DEF ThemeOf, isTheme, THEME_VALUES, Schemes

LEMMA EventsAre == Cleared \notin Values /\ Values \subseteq Events
BY DEF Events, Values, THEME_VALUES, Schemes, Nothing, Junk, Cleared

LEMMA ThemeOfTheme == \A v \in THEME_VALUES : ThemeOf(v) = v
BY DEF ThemeOf, isTheme

LEMMA NextThemeFlips ==
    ASSUME system \in Schemes, NEW th \in THEME_VALUES
    PROVE  /\ nextTheme(th) \in Schemes
           /\ nextTheme(th) # Resolved(th)
           /\ Resolved(nextTheme(th)) = nextTheme(th)
           /\ nextTheme(th) # th
BY DEF nextTheme, Opposite, Resolved, THEME_VALUES, Schemes

LEMMA ResolvedType ==
    ASSUME system \in Schemes, NEW th \in THEME_VALUES
    PROVE  Resolved(th) \in Schemes
BY DEF Resolved, THEME_VALUES

\* Storage events are read in their order, so that the last stays the last.
LEMMA LastOfTail ==
    ASSUME NEW s \in Seq(Events), s # <<>>
    PROVE  /\ Tail(s) \in Seq(Events) /\ Head(s) \in Events
           /\ Tail(s) # <<>> => Tail(s)[Len(Tail(s))] = s[Len(s)]
           /\ Tail(s) = <<>> => Head(s) = s[Len(s)]
<1>1. /\ Head(s) \in Events /\ Tail(s) \in Seq(Events)
      /\ Len(Tail(s)) = Len(s) - 1
      /\ \A i \in 1..Len(Tail(s)) : Tail(s)[i] = s[i + 1]
  BY HeadTailProperties
<1>2. Len(s) \in Nat \ {0} /\ (Tail(s) # <<>> => Len(Tail(s)) \in Nat \ {0})
  BY <1>1, EmptySeq
<1>3. Tail(s) = <<>> => Len(s) = 1 /\ Head(s) = s[1]
  BY <1>1, <1>2, EmptySeq
<1> QED
  BY <1>1, <1>2, <1>3

LEMMA LastOfAppend ==
    ASSUME NEW s \in Seq(Events), NEW v \in Events
    PROVE  /\ Append(s, v) \in Seq(Events) /\ Append(s, v) # <<>>
           /\ Append(s, v)[Len(Append(s, v))] = v
OBVIOUS

-----------------------------------------------------------------------------
LEMMA ThemeInitInv == AppInit => ThemeInv
<1> SUFFICES ASSUME AppInit PROVE ThemeInv
  OBVIOUS
<1>1. scene.tabs \subseteq Tabs /\ scene.tabs # {}
  BY AppShellAssumption DEF AppInit
<1>2. running \subseteq Tabs
  BY <1>1 DEF AppInit
<1>3. storedTheme \in Values
  BY DEF AppInit, Values, THEME_VALUES, Schemes, Nothing
<1>4. ThemeOf(storedTheme) \in THEME_VALUES /\ Resolved(ThemeOf(storedTheme)) \in Schemes
  BY ThemeOfType, ResolvedType DEF AppInit
<1>5. ThemeTypeOK
  BY <1>2, <1>3, <1>4 DEF AppInit, ThemeTypeOK
<1> QED
  BY <1>2, <1>5 DEF AppInit, ThemeInv, ShownIsTheTheme, LastWordIsStored, UpToDate

-----------------------------------------------------------------------------
(* One lemma for each action that touches the theme; Rest has the others.   *)

\* SetItem of a value: whoever is told has it as the last word.
LEMMA Told ==
    ASSUME ThemeTypeOK, NEW v \in Values, storedTheme' = v,
           NEW u \in running, inbox'[u] = Append(inbox[u], v)
    PROVE  UpToDate(u)'
<1> inbox[u] \in Seq(Events) /\ v \in Events
  BY EventsAre DEF ThemeTypeOK
<1> QED
  BY LastOfAppend DEF UpToDate

\* Nothing is stored: nothing is heard.
LEMMA NothingNew ==
    ASSUME NEW u, UpToDate(u), storedTheme' = storedTheme, inbox'[u] = inbox[u],
           theme'[u] = theme[u]
    PROVE  UpToDate(u)'
BY DEF UpToDate, ThemeOf, isTheme

LEMMA PressDInv == ASSUME ThemeInv, NEW t \in Tabs, PressD(t) PROVE ThemeInv'
<1> DEFINE v == nextTheme(theme[t])
<1>1. /\ theme[t] \in THEME_VALUES /\ system \in Schemes /\ t \in running
      /\ v \in Schemes /\ v # theme[t] /\ Resolved(v) = v
      /\ v \in Values /\ v \in THEME_VALUES /\ v \in Events
  BY NextThemeFlips, EventsAre DEF ThemeInv, ThemeTypeOK, PressD, Values, THEME_VALUES
<1>2. /\ storedTheme' = v /\ theme' = [theme EXCEPT ![t] = v]
      /\ shown' = [shown EXCEPT ![t] = v]
      /\ running' = running /\ system' = system /\ schemeNews' = schemeNews /\ scene' = scene
      /\ rendered' = rendered
      /\ strayed' = (IF v = storedTheme THEN strayed \ {t} ELSE rendered)
                    \cup (IF inbox[t] = <<>> THEN {} ELSE {t})
      /\ inbox' = [u \in Tabs |-> IF u \in running \ {t} /\ v # storedTheme
                                  THEN Append(inbox[u], v) ELSE inbox[u]]
  BY <1>1 DEF PressD, SetItem, Applied
<1>3. \A u \in Tabs : inbox'[u] \in Seq(Events)
  BY <1>1, <1>2, LastOfAppend DEF ThemeInv, ThemeTypeOK
<1>4. ThemeTypeOK'
  BY <1>1, <1>2, <1>3 DEF ThemeInv, ThemeTypeOK
<1>5. ShownIsTheTheme'
  <2> SUFFICES ASSUME NEW u \in running
               PROVE  \/ shown'[u] = Resolved(theme[u])'
                      \/ theme'[u] = "system" /\ u \in schemeNews
    BY <1>2 DEF ShownIsTheTheme
  <2>1. u \in Tabs
    BY DEF ThemeInv, ThemeTypeOK
  <2>2. CASE u = t
    BY <1>1, <1>2, <2>1, <2>2 DEF ThemeInv, ThemeTypeOK, Resolved, Schemes
  <2>3. CASE u # t
    BY <1>2, <2>1, <2>3 DEF ThemeInv, ThemeTypeOK, ShownIsTheTheme, Resolved
  <2> QED
    BY <2>2, <2>3
<1>6. LastWordIsStored'
  <2> SUFFICES ASSUME NEW u \in rendered \cup running, u \notin strayed' PROVE UpToDate(u)'
    BY <1>2 DEF LastWordIsStored
  <2>1. u \in Tabs
    BY DEF ThemeInv, ThemeTypeOK
  <2>2. CASE u = t
    <3>1. inbox[t] = <<>> /\ inbox'[t] = inbox[t] /\ theme'[t] = v
      BY <1>2, <2>1, <2>2 DEF ThemeInv, ThemeTypeOK
    <3> QED
      BY <1>1, <1>2, <2>2, <3>1, ThemeOfTheme DEF UpToDate, ThemeOf, isTheme
  <2>3. CASE u # t /\ v = storedTheme
    <3>1. u \notin strayed /\ inbox'[u] = inbox[u] /\ theme'[u] = theme[u]
      BY <1>2, <2>1, <2>3 DEF ThemeInv, ThemeTypeOK
    <3>2. UpToDate(u)
      BY <3>1 DEF ThemeInv, LastWordIsStored
    <3> QED
      BY <1>2, <2>3, <3>1, <3>2, NothingNew
  <2>4. CASE u # t /\ v # storedTheme
    <3>1. u \in running /\ inbox'[u] = Append(inbox[u], v)
      BY <1>2, <2>1, <2>4
    <3> QED
      BY <1>1, <1>2, <3>1, Told DEF ThemeInv
  <2> QED
    BY <2>2, <2>3, <2>4
<1> QED
  BY <1>4, <1>5, <1>6 DEF ThemeInv

LEMMA HandleStorageChangeInv ==
    ASSUME ThemeInv, NEW t \in Tabs, handleStorageChange(t) PROVE ThemeInv'
<1> DEFINE v == NewTheme(t, Head(inbox[t]))
<1>1. /\ inbox[t] \in Seq(Events) /\ inbox[t] # <<>> /\ t \in running
      /\ Tail(inbox[t]) \in Seq(Events) /\ Head(inbox[t]) \in Events
      /\ v \in THEME_VALUES /\ system \in Schemes /\ Resolved(v) \in Schemes
  BY LastOfTail, ThemeOfType, ResolvedType
     DEF handleStorageChange, NewTheme, ThemeInv, ThemeTypeOK
<1>2. /\ theme' = [theme EXCEPT ![t] = v]
      /\ shown' = IF v = theme[t] THEN shown ELSE [shown EXCEPT ![t] = Resolved(v)]
      /\ inbox' = [inbox EXCEPT ![t] = Tail(inbox[t])]
      /\ storedTheme' = storedTheme /\ running' = running /\ system' = system /\ scene' = scene
      /\ schemeNews' = schemeNews /\ strayed' = strayed /\ rendered' = rendered
  BY DEF handleStorageChange, Applied
<1>3. ThemeTypeOK'
  BY <1>1, <1>2 DEF ThemeInv, ThemeTypeOK
<1>4. ShownIsTheTheme'
  <2> SUFFICES ASSUME NEW u \in running
               PROVE  \/ shown'[u] = Resolved(theme[u])'
                      \/ theme'[u] = "system" /\ u \in schemeNews
    BY <1>2 DEF ShownIsTheTheme
  <2>1. u \in Tabs
    BY DEF ThemeInv, ThemeTypeOK
  <2>2. CASE u = t /\ v # theme[t]
    BY <1>1, <1>2, <2>1, <2>2 DEF ThemeInv, ThemeTypeOK, Resolved
  <2>3. CASE u = t /\ v = theme[t]
    BY <1>1, <1>2, <2>1, <2>3 DEF ThemeInv, ThemeTypeOK, ShownIsTheTheme, Resolved
  <2>4. CASE u # t
    <3>1. theme'[u] = theme[u] /\ shown'[u] = shown[u]
      BY <1>2, <2>1, <2>4 DEF ThemeInv, ThemeTypeOK
    <3> QED
      BY <1>2, <3>1 DEF ThemeInv, ShownIsTheTheme, Resolved
  <2> QED
    BY <2>2, <2>3, <2>4
<1>5. LastWordIsStored'
  <2> SUFFICES ASSUME NEW u \in (rendered \cup running) \ strayed PROVE UpToDate(u)'
    BY <1>2 DEF LastWordIsStored
  <2>1. u \in Tabs /\ UpToDate(u)
    BY DEF ThemeInv, ThemeTypeOK, LastWordIsStored
  <2>2. CASE u = t
    <3>1. inbox'[t] = Tail(inbox[t]) /\ theme'[t] = v
      BY <1>2 DEF ThemeInv, ThemeTypeOK
    <3>2. inbox[t][Len(inbox[t])] = storedTheme
      BY <1>1, <2>1, <2>2 DEF UpToDate
    <3>3. Head(inbox[t]) = storedTheme => v = ThemeOf(storedTheme)
      BY EventsAre DEF NewTheme, ThemeInv, ThemeTypeOK
    <3> QED
      BY <1>1, <1>2, <2>2, <3>1, <3>2, <3>3, LastOfTail DEF UpToDate, ThemeOf, isTheme
  <2>3. CASE u # t
    BY <1>2, <2>1, <2>3, NothingNew DEF ThemeInv, ThemeTypeOK
  <2> QED
    BY <2>2, <2>3
<1> QED
  BY <1>3, <1>4, <1>5 DEF ThemeInv

LEMMA OverwriteInv ==
    ASSUME ThemeInv, NEW v \in {Nothing, Junk}, Overwrite(v) PROVE ThemeInv'
<1>1. v \in Values /\ v \in Events
  BY EventsAre DEF Values
<1>2. /\ storedTheme' = v
      /\ inbox' = [u \in Tabs |-> IF u \in running THEN Append(inbox[u], v) ELSE inbox[u]]
      /\ theme' = theme /\ shown' = shown /\ running' = running /\ system' = system
      /\ scene' = scene /\ schemeNews' = schemeNews /\ strayed' = rendered
      /\ rendered' = rendered
  BY DEF Overwrite
<1>3. \A u \in Tabs : inbox'[u] \in Seq(Events)
  BY <1>1, <1>2, LastOfAppend DEF ThemeInv, ThemeTypeOK
<1>4. ThemeTypeOK'
  BY <1>1, <1>2, <1>3 DEF ThemeInv, ThemeTypeOK
<1>5. ShownIsTheTheme'
  BY <1>2 DEF ThemeInv, ShownIsTheTheme, Resolved
<1>6. LastWordIsStored'
  <2> SUFFICES ASSUME NEW u \in running PROVE UpToDate(u)'
    BY <1>2 DEF LastWordIsStored
  <2>1. inbox'[u] = Append(inbox[u], v)
    BY <1>2 DEF ThemeInv, ThemeTypeOK
  <2> QED
    BY <1>1, <1>2, <2>1, Told DEF ThemeInv
<1> QED
  BY <1>4, <1>5, <1>6 DEF ThemeInv

LEMMA ClearInv == ASSUME ThemeInv, Clear PROVE ThemeInv'
<1>1. /\ storedTheme' = Nothing
      /\ inbox' = [u \in Tabs |-> IF u \in running THEN Append(inbox[u], Cleared) ELSE inbox[u]]
      /\ theme' = theme /\ shown' = shown /\ running' = running /\ system' = system
      /\ scene' = scene /\ schemeNews' = schemeNews /\ rendered' = rendered
      /\ strayed' = rendered \cup running
  BY DEF Clear
<1>2. Cleared \in Events /\ Nothing \in Values
  BY DEF Events, Values
<1>3. \A u \in Tabs : inbox'[u] \in Seq(Events)
  BY <1>1, <1>2, LastOfAppend DEF ThemeInv, ThemeTypeOK
<1>4. ThemeTypeOK'
  BY <1>1, <1>2, <1>3 DEF ThemeInv, ThemeTypeOK
<1>5. ShownIsTheTheme'
  BY <1>1 DEF ThemeInv, ShownIsTheTheme, Resolved
<1>6. LastWordIsStored'
  BY <1>1 DEF LastWordIsStored
<1> QED
  BY <1>4, <1>5, <1>6 DEF ThemeInv

LEMMA SystemChangesInv == ASSUME ThemeInv, SystemChanges PROVE ThemeInv'
<1>1. /\ system' = Opposite(system) /\ schemeNews' = running
      /\ theme' = theme /\ shown' = shown /\ running' = running /\ storedTheme' = storedTheme
      /\ scene' = scene /\ inbox' = inbox /\ strayed' = strayed /\ rendered' = rendered
  BY DEF SystemChanges
<1>2. ThemeTypeOK'
  BY <1>1 DEF ThemeInv, ThemeTypeOK, Opposite, Schemes
<1>3. ShownIsTheTheme'
  BY <1>1 DEF ThemeInv, ShownIsTheTheme, Resolved
<1>4. LastWordIsStored'
  BY <1>1 DEF ThemeInv, LastWordIsStored, UpToDate, ThemeOf, isTheme
<1> QED
  BY <1>2, <1>3, <1>4 DEF ThemeInv

LEMMA SchemeChangeInv ==
    ASSUME ThemeInv, NEW t \in Tabs, SchemeChange(t) PROVE ThemeInv'
<1>1. /\ schemeNews' = schemeNews \ {t}
      /\ shown' = IF theme[t] = "system" THEN [shown EXCEPT ![t] = system] ELSE shown
      /\ theme' = theme /\ system' = system /\ running' = running /\ storedTheme' = storedTheme
      /\ scene' = scene /\ inbox' = inbox /\ strayed' = strayed /\ rendered' = rendered
  BY DEF SchemeChange, FollowsSystem
<1>2. ThemeTypeOK'
  BY <1>1 DEF ThemeInv, ThemeTypeOK
<1>3. ShownIsTheTheme'
  <2> SUFFICES ASSUME NEW u \in running
               PROVE  \/ shown'[u] = Resolved(theme[u])'
                      \/ theme'[u] = "system" /\ u \in schemeNews'
    BY <1>1 DEF ShownIsTheTheme
  <2>1. u \in Tabs
    BY DEF ThemeInv, ThemeTypeOK
  <2>2. CASE u = t
    BY <1>1, <2>1, <2>2 DEF ThemeInv, ThemeTypeOK, ShownIsTheTheme, Resolved
  <2>3. CASE u # t
    BY <1>1, <2>1, <2>3 DEF ThemeInv, ThemeTypeOK, ShownIsTheTheme, Resolved
  <2> QED
    BY <2>2, <2>3
<1>4. LastWordIsStored'
  BY <1>1 DEF ThemeInv, LastWordIsStored, UpToDate, ThemeOf, isTheme
<1> QED
  BY <1>2, <1>3, <1>4 DEF ThemeInv

LEMMA LoadInv ==
    ASSUME ThemeInv, NEW t \in Tabs, NEW p \in Paths, Load(t, p) PROVE ThemeInv'
<1> DEFINE v == ThemeOf(storedTheme)
<1>1. /\ rendered' = rendered \cup {t} /\ running' = running \ {t}
      /\ theme' = [theme EXCEPT ![t] = v] /\ shown' = shown /\ strayed' = strayed \ {t}
      /\ inbox' = [inbox EXCEPT ![t] = <<>>] /\ schemeNews' = schemeNews \ {t}
      /\ scene' = scene /\ storedTheme' = storedTheme /\ system' = system
  BY DEF Load, Opened
<1>2. v \in THEME_VALUES
  BY ThemeOfType
<1>3. ThemeTypeOK'
  BY <1>1, <1>2 DEF ThemeInv, ThemeTypeOK
<1>4. ShownIsTheTheme'
  <2> SUFFICES ASSUME NEW u \in running \ {t}
               PROVE  \/ shown'[u] = Resolved(theme[u])'
                      \/ theme'[u] = "system" /\ u \in schemeNews'
    BY <1>1 DEF ShownIsTheTheme
  <2>1. u \in Tabs
    BY DEF ThemeInv, ThemeTypeOK
  <2> QED
    BY <1>1, <2>1 DEF ThemeInv, ThemeTypeOK, ShownIsTheTheme, Resolved
<1>5. LastWordIsStored'
  <2> SUFFICES ASSUME NEW u \in rendered \cup running \cup {t}, u \notin strayed'
               PROVE  UpToDate(u)'
    BY <1>1 DEF LastWordIsStored
  <2>1. CASE u = t
    BY <1>1, <2>1 DEF ThemeInv, ThemeTypeOK, UpToDate, ThemeOf, isTheme
  <2>2. CASE u # t
    <3>1. u \in Tabs /\ UpToDate(u)
      BY <1>1, <2>2 DEF ThemeInv, ThemeTypeOK, LastWordIsStored
    <3> QED
      BY <1>1, <2>2, <3>1, NothingNew DEF ThemeInv, ThemeTypeOK
  <2> QED
    BY <2>1, <2>2
<1> QED
  BY <1>3, <1>4, <1>5 DEF ThemeInv

LEMMA MountInv == ASSUME ThemeInv, NEW t \in Tabs, Mount(t) PROVE ThemeInv'
<1>1. /\ t \in rendered /\ rendered' = rendered \ {t} /\ running' = running \cup {t}
      /\ shown' = [shown EXCEPT ![t] = Resolved(theme[t])]
      /\ theme' = theme /\ inbox' = inbox /\ schemeNews' = schemeNews /\ strayed' = strayed
      /\ scene' = scene /\ storedTheme' = storedTheme /\ system' = system
  BY DEF Mount
<1>2. Resolved(theme[t]) \in Schemes
  BY ResolvedType DEF ThemeInv, ThemeTypeOK
<1>3. ThemeTypeOK'
  BY <1>1, <1>2 DEF ThemeInv, ThemeTypeOK
<1>4. ShownIsTheTheme'
  <2> SUFFICES ASSUME NEW u \in running \cup {t}
               PROVE  \/ shown'[u] = Resolved(theme[u])
                      \/ theme[u] = "system" /\ u \in schemeNews
    BY <1>1 DEF ShownIsTheTheme, Resolved
  <2>1. u \in Tabs
    BY DEF ThemeInv, ThemeTypeOK
  <2> QED
    BY <1>1, <2>1 DEF ThemeInv, ThemeTypeOK, ShownIsTheTheme
<1>5. LastWordIsStored'
  BY <1>1, NothingNew DEF ThemeInv, LastWordIsStored
<1> QED
  BY <1>3, <1>4, <1>5 DEF ThemeInv

LEMMA UnloadedInv == ASSUME ThemeInv, NEW t \in Tabs, Unloaded(t) PROVE ThemeInv'
<1>1. /\ rendered' = rendered \ {t} /\ running' = running \ {t} /\ strayed' = strayed \ {t}
      /\ inbox' = [inbox EXCEPT ![t] = <<>>]
      /\ schemeNews' = schemeNews \ {t}
      /\ scene' = scene /\ storedTheme' = storedTheme /\ system' = system
      /\ theme' = theme /\ shown' = shown
  BY DEF Unloaded
<1>2. ThemeTypeOK'
  BY <1>1 DEF ThemeInv, ThemeTypeOK
<1>3. ShownIsTheTheme'
  BY <1>1 DEF ThemeInv, ShownIsTheTheme, Resolved
<1>4. LastWordIsStored'
  <2> SUFFICES ASSUME NEW u \in (rendered \cup running) \ {t}, u \notin strayed
               PROVE  UpToDate(u)'
    BY <1>1 DEF LastWordIsStored
  <2> QED
    BY <1>1, NothingNew DEF ThemeInv, ThemeTypeOK, LastWordIsStored
<1> QED
  BY <1>2, <1>3, <1>4 DEF ThemeInv

LEMMA ThemeKept ==
    ASSUME ThemeInv, UNCHANGED docVars PROVE ThemeInv'
BY DEF ThemeInv, ThemeTypeOK, ShownIsTheTheme, LastWordIsStored, UpToDate, Resolved,
       ThemeOf, isTheme, docVars, themeVars

LEMMA ThemeNextInv == ThemeInv /\ [AppNext]_appVars => ThemeInv'
<1> SUFFICES ASSUME ThemeInv, [AppNext]_appVars PROVE ThemeInv'
  OBVIOUS
<1>1. ASSUME NEW t \in Tabs, PressD(t) PROVE ThemeInv'
  BY <1>1, PressDInv
<1>2. ASSUME NEW t \in Tabs, handleStorageChange(t) PROVE ThemeInv'
  BY <1>2, HandleStorageChangeInv
<1>3. ASSUME NEW v \in {Nothing, Junk}, Overwrite(v) PROVE ThemeInv'
  BY <1>3, OverwriteInv
<1>4. CASE SystemChanges
  BY <1>4, SystemChangesInv
<1>5. ASSUME NEW t \in Tabs, SchemeChange(t) PROVE ThemeInv'
  BY <1>5, SchemeChangeInv
<1>6. ASSUME NEW t \in Tabs, NEW p \in Paths, Load(t, p) PROVE ThemeInv'
  BY <1>6, LoadInv
<1>7. ASSUME NEW t \in Tabs, Close(t) \/ OpenPalette(t) PROVE ThemeInv'
  BY <1>7, UnloadedInv DEF Close, OpenPalette
<1>10. CASE Clear
  BY <1>10, ClearInv
<1>11. ASSUME NEW t \in Tabs, Mount(t) PROVE ThemeInv'
  BY <1>11, MountInv
<1>8. ASSUME NEW t \in Tabs,
             \/ Measure(t) \/ Resize(t) \/ toggleSidebar(t) \/ CloseSheet(t) \/ Focus(t)
             \/ \E to \in NavItems : FollowItem(t, to)
             \/ \E p \in PagePaths : FollowLink(t, p)
      PROVE  ThemeInv'
  <2>1. UNCHANGED docVars
    BY <1>8 DEF Measure, Resize, toggleSidebar, CloseSheet, Focus, FollowItem, FollowLink, GoTo
  <2> QED
    BY <2>1, ThemeKept
<1>9. CASE UNCHANGED appVars
  BY <1>9, ThemeKept DEF appVars
<1> QED
  BY <1>1, <1>2, <1>3, <1>4, <1>5, <1>6, <1>7, <1>8, <1>9, <1>10, <1>11
     DEF AppNext

\* Types, what every tab shows, and the last word under way to each tab: an
\* inductive invariant for any set of tabs and scenes.
THEOREM ThemeInvariance == AppSpec => []ThemeInv
<1>1. ThemeInv /\ [AppNext]_appVars => ThemeInv'
  BY ThemeNextInv
<1> QED
  BY ThemeInitInv, <1>1, PTL DEF AppSpec

\* Whatever the tabs, the other pages of the origin and the system do, in whatever
\* order the events arrive, a document shows the theme its tab has.
THEOREM ThemeIsShown == AppSpec => []ShownIsTheTheme
<1>1. ThemeInv => ShownIsTheTheme
  BY DEF ThemeInv
<1> QED
  BY ThemeInvariance, <1>1, PTL

\* However many tabs change the theme, a tab that has been told everything has the
\* stored one, unless the last change could not reach it.
THEOREM AllTabsAgree == AppSpec => []TabsAgree
<1>1. ThemeInv => TabsAgree
  BY DEF ThemeInv, LastWordIsStored, UpToDate, TabsAgree
<1> QED
  BY ThemeInvariance, <1>1, PTL

\* The key d never leaves a tab as it was.
THEOREM KeyFlips == AppSpec => KeyFlipsWhatIsShown
<1>1. ThemeInv /\ [AppNext]_appVars =>
        [\A t \in Tabs : PressD(t) /\ t \notin schemeNews => shown'[t] # shown[t]]_appVars
  <2> SUFFICES ASSUME ThemeInv, NEW t \in Tabs, PressD(t), t \notin schemeNews
               PROVE  shown'[t] # shown[t]
    OBVIOUS
  <2>1. theme[t] \in THEME_VALUES /\ system \in Schemes /\ t \in running
    BY DEF ThemeInv, ThemeTypeOK, PressD
  <2>2. shown[t] = Resolved(theme[t])
    BY <2>1 DEF ThemeInv, ShownIsTheTheme
  <2>3. shown'[t] = nextTheme(theme[t])
    BY <2>1, NextThemeFlips DEF PressD, Applied, ThemeInv, ThemeTypeOK
  <2> QED
    BY <2>1, <2>2, <2>3, NextThemeFlips
<1> QED
  BY ThemeInvariance, <1>1, PTL DEF AppSpec, KeyFlipsWhatIsShown
-----------------------------------------------------------------------------
(* The shell: paths, navigation and sidebar.                               *)

\* The addresses there are, the state of the sidebar, and that no link leads nowhere.
PlacesOK ==
    /\ path \in [Tabs -> Paths] /\ byUrl \in [Tabs -> BOOLEAN]
    /\ wide \in [Tabs -> BOOLEAN] /\ isMobile \in [Tabs -> BOOLEAN]
    /\ open \in [Tabs -> BOOLEAN] /\ openMobile \in [Tabs -> BOOLEAN]
    /\ cookie \in {"true", "false", Nothing}
    /\ \A t \in Tabs : path[t] \notin PagePaths => byUrl[t]

\* Who runs, and how much is on its way to whom.
NewsOK ==
    /\ rendered \cup running \subseteq scene.tabs /\ rendered \cap running = {}
    /\ schemeNews \subseteq running /\ strayed \subseteq rendered \cup running
    /\ \A t \in Tabs : Len(inbox[t]) <= MaxUnderWay

ShellInv == PlacesOK /\ NewsOK

Segments == Sections \cup {"new", "compare", Id}

LEMMA SectionPaths ==
    ASSUME NEW p \in PagePaths, p # <<>>
    PROVE  p \in Seq(Segments) /\ Len(p) > 0 /\ p[1] \in Sections
<1>1. CASE p \in {<<s>> : s \in Sections}
  <2>1. PICK s \in Sections : p = <<s>>
    BY <1>1
  <2>2. s \in Segments
    BY DEF Segments
  <2>3. <<s>> \in Seq(Segments) /\ Len(<<s>>) = 1 /\ <<s>>[1] = s
    BY <2>2
  <2> QED
    BY <2>1, <2>3
<1>2. CASE p \in {<<s, "new">> : s \in {"artifacts", "indexes", "evaluations"}}
  <2>1. PICK s \in {"artifacts", "indexes", "evaluations"} : p = <<s, "new">>
    BY <1>2
  <2>2. s \in Segments /\ s \in Sections /\ "new" \in Segments
    BY DEF Sections, Segments
  <2>3. <<s, "new">> \in Seq(Segments) /\ Len(<<s, "new">>) = 2 /\ <<s, "new">>[1] = s
    BY <2>2
  <2> QED
    BY <2>1, <2>2, <2>3
<1>3. CASE p = <<"evaluations", Id>>
  <2>1. {"evaluations", Id} \subseteq Segments /\ "evaluations" \in Sections
    BY DEF Sections, Segments
  <2> QED
    BY <1>3, <2>1
<1>4. CASE p = <<"evaluations", Id, "compare">>
  <2>1. {"evaluations", Id, "compare"} \subseteq Segments /\ "evaluations" \in Sections
    BY DEF Sections, Segments
  <2> QED
    BY <1>4, <2>1
<1> QED
  BY <1>1, <1>2, <1>3, <1>4 DEF PagePaths

LEMMA NavItemsAre == NavItems = {<<>>} \cup {<<s>> : s \in Sections}
<1>1. DOMAIN NAV_GROUPS = 1..5
  BY DEF NAV_GROUPS
<1>2. NavItems = NAV_GROUPS[1] \cup NAV_GROUPS[2] \cup NAV_GROUPS[3]
                 \cup NAV_GROUPS[4] \cup NAV_GROUPS[5]
  <2>1. 1..5 = {1, 2, 3, 4, 5}
    OBVIOUS
  <2> QED
    BY <1>1, <2>1, Zenon DEF NavItems
<1> QED
  BY <1>2 DEF NAV_GROUPS, Sections

\* An item of a section is marked on the paths that begin with it.
LEMMA MarkedBySection ==
    ASSUME NEW p \in Seq(Segments), Len(p) > 0, NEW s \in Segments
    PROVE  StartsWith(p, <<s>>) <=> p[1] = s
<1>1. Len(<<s>>) = 1 /\ Len(<<s>>) <= Len(p)
  OBVIOUS
<1>2. /\ SubSeq(p, 1, 1) \in Seq(Segments) /\ Len(SubSeq(p, 1, 1)) = 1
      /\ SubSeq(p, 1, 1)[1] = p[1]
  OBVIOUS
<1>3. SubSeq(p, 1, 1) = <<s>> <=> p[1] = s
  <2> DEFINE q == SubSeq(p, 1, 1)
  <2>1. q \in Seq(Segments) /\ Len(q) = 1 /\ q[1] = p[1]
    BY <1>2
  <2>2. <<s>> \in Seq(Segments) /\ Len(<<s>>) = 1 /\ <<s>>[1] = s
    OBVIOUS
  <2> HIDE DEF q
  <2>3. ASSUME p[1] = s PROVE q = <<s>>
    BY <2>1, <2>2, <2>3
  <2> QED
    BY <2>1, <2>2, <2>3 DEF q
<1> QED
  BY <1>1, <1>3 DEF StartsWith

\* A page's own address has no capitals, and the items its section begins with are its own.
LEMMA PagesAreFolded == \A p \in PagePaths : Folded(p) = p
<1> SUFFICES ASSUME NEW p \in PagePaths PROVE Folded(p) = p
  OBVIOUS
<1>1. CASE p = <<>>
  BY <1>1 DEF Folded
<1>2. CASE p # <<>>
  <2>1. p \in Seq(Segments)
    BY <1>2, SectionPaths
  <2>2. \A i \in DOMAIN p : p[i] \notin {"Datasets", "Evaluations", "NEW"}
    BY <2>1 DEF Segments, Sections, Id
  <2>3. Folded(p) = [i \in DOMAIN p |-> p[i]]
    BY <2>2 DEF Folded
  <2>4. p = [i \in DOMAIN p |-> p[i]]
    BY <2>1
  <2> QED
    BY <2>3, <2>4
<1> QED
  BY <1>1, <1>2

Respelled == Segments \cup {"Datasets", "Evaluations", "NEW"}

LEMMA TuplesAreNotEmpty == (\A a : <<a>> # <<>>) /\ (\A a, b : <<a, b>> # <<>>)
OBVIOUS

\* What an address in other letters leads to.
LEMMA RespelledAre ==
    ASSUME NEW p \in RespelledPaths
    PROVE  /\ Folded(p) \in PagePaths /\ Folded(p) # p /\ Folded(p) # <<>> /\ p # <<>>
           /\ p \in Seq(Respelled) /\ Len(p) > 0
           /\ \A s \in Sections : p[1] = s => Folded(p)[1] = s
<1>1. CASE p = <<"Datasets">>
  <2>1. Folded(p) = <<"datasets">>
    BY <1>1 DEF Folded
  <2>2. <<"datasets">> \in PagePaths
    BY DEF PagePaths, Sections
  <2>3. <<"datasets">> # <<"Datasets">>
    OBVIOUS
  <2>6. <<"Datasets">> # <<>> /\ <<"datasets">> # <<>>
    BY TuplesAreNotEmpty
  <2>4. <<"Datasets">> \in Seq(Respelled) /\ Len(<<"Datasets">>) > 0
    <3>1. {"Datasets"} \subseteq Respelled
      BY DEF Respelled, Segments, Sections
    <3> QED
      BY <3>1
  <2>7. <<"Datasets">>[1] = "Datasets" /\ <<"datasets">>[1] = "datasets"
    OBVIOUS
  <2>5. \A s \in Sections : "Datasets" = s => "datasets" = s
    BY DEF Sections
  <2> QED
    BY <1>1, <2>1, <2>2, <2>3, <2>4, <2>5, <2>6, <2>7
<1>2. CASE p = <<"Evaluations", "new">>
  <2>1. Folded(p) = <<"evaluations", "new">>
    BY <1>2 DEF Folded
  <2>2. <<"evaluations", "new">> \in PagePaths
    BY DEF PagePaths, Sections
  <2>3. <<"evaluations", "new">> # <<"Evaluations", "new">>
    OBVIOUS
  <2>6. <<"Evaluations", "new">> # <<>> /\ <<"evaluations", "new">> # <<>>
    BY TuplesAreNotEmpty
  <2>4. <<"Evaluations", "new">> \in Seq(Respelled) /\ Len(<<"Evaluations", "new">>) > 0
    <3>1. {"Evaluations", "new"} \subseteq Respelled
      BY DEF Respelled, Segments, Sections
    <3> QED
      BY <3>1
  <2>7. <<"Evaluations", "new">>[1] = "Evaluations" /\ <<"evaluations", "new">>[1] = "evaluations"
    OBVIOUS
  <2>5. \A s \in Sections : "Evaluations" = s => "evaluations" = s
    BY DEF Sections
  <2> QED
    BY <1>2, <2>1, <2>2, <2>3, <2>4, <2>5, <2>6, <2>7
<1>3. CASE p = <<"evaluations", "NEW">>
  <2>1. Folded(p) = <<"evaluations", "new">>
    BY <1>3 DEF Folded
  <2>2. <<"evaluations", "new">> \in PagePaths
    BY DEF PagePaths, Sections
  <2>3. <<"evaluations", "new">> # <<"evaluations", "NEW">>
    OBVIOUS
  <2>6. <<"evaluations", "NEW">> # <<>> /\ <<"evaluations", "new">> # <<>>
    BY TuplesAreNotEmpty
  <2>4. <<"evaluations", "NEW">> \in Seq(Respelled) /\ Len(<<"evaluations", "NEW">>) > 0
    <3>1. {"evaluations", "NEW"} \subseteq Respelled
      BY DEF Respelled, Segments, Sections
    <3> QED
      BY <3>1
  <2>7. <<"evaluations", "NEW">>[1] = "evaluations" /\ <<"evaluations", "new">>[1] = "evaluations"
    OBVIOUS
  <2>5. \A s \in Sections : "evaluations" = s => "evaluations" = s
    BY DEF Sections
  <2> QED
    BY <1>3, <2>1, <2>2, <2>3, <2>4, <2>5, <2>6, <2>7
<1> QED
  BY <1>1, <1>2, <1>3 DEF RespelledPaths

Marked(p) == {to \in NavItems : isActive(p, to)}
PageSection(p) == SubSeq(Folded(p), 1, IF p = <<>> THEN 0 ELSE 1)

\* On a page's own address, its section's item and no other is marked.
LEMMA MarkedItem ==
    ASSUME NEW p \in PagePaths
    PROVE  Marked(p) = {PageSection(p)}
<1> DEFINE marked == Marked(p)
<1>1. CASE p = <<>>
  <2>1. marked = {<<>>}
    <3>1. ASSUME NEW s \in Sections PROVE ~isActive(p, <<s>>)
      BY <1>1 DEF isActive, StartsWith
    <3>2. isActive(p, <<>>)
      BY <1>1 DEF isActive
    <3> QED
      BY <3>1, <3>2, NavItemsAre DEF Marked
  <2>2. PageSection(p) = <<>>
    BY <1>1, PagesAreFolded DEF PageSection
  <2> QED
    BY <2>1, <2>2
<1>2. CASE p # <<>>
  <2>1. p \in Seq(Segments) /\ Len(p) > 0 /\ p[1] \in Sections /\ Sections \subseteq Segments
    <3>1. p \in Seq(Segments) /\ Len(p) > 0 /\ p[1] \in Sections
      BY <1>2, SectionPaths
    <3>2. Sections \subseteq Segments
      BY DEF Segments
    <3> QED
      BY <3>1, <3>2
  <2>2. ~isActive(p, <<>>)
    BY <1>2 DEF isActive
  <2>3. \A s \in Sections : isActive(p, <<s>>) <=> p[1] = s
    <3>1. \A s \in Sections : <<s>> # <<>>
      OBVIOUS
    <3> QED
      BY <2>1, <3>1, MarkedBySection DEF isActive
  <2>4. marked = {<<p[1]>>}
    BY <2>1, <2>2, <2>3, NavItemsAre DEF Marked
  <2>5. PageSection(p) = <<p[1]>>
    <3>1. StartsWith(p, <<p[1]>>)
      BY <2>1, MarkedBySection
    <3>2. SubSeq(p, 1, 1) = <<p[1]>>
      BY <3>1 DEF StartsWith
    <3> QED
      BY <1>2, <3>2, PagesAreFolded DEF PageSection
  <2> QED
    BY <2>4, <2>5
<1> QED
  BY <1>1, <1>2

\* On an address in other letters, the same item or none.
LEMMA MarkedOnRespelled ==
    ASSUME NEW p \in RespelledPaths
    PROVE  Marked(p) = {PageSection(p)} \/ Marked(p) = {}
<1> DEFINE q == Folded(p)
<1>1. /\ q \in PagePaths /\ q # <<>> /\ p # <<>>
      /\ p \in Seq(Respelled) /\ Len(p) > 0
      /\ \A s \in Sections : p[1] = s => q[1] = s
  BY RespelledAre
<1>2. PageSection(p) = PageSection(q)
  BY <1>1, PagesAreFolded DEF PageSection
<1>3. Marked(q) = {PageSection(q)}
  BY <1>1, MarkedItem
<1>4. ASSUME NEW to \in Marked(p) PROVE to \in Marked(q)
  <2>1. to # <<>>
    BY <1>1 DEF Marked, isActive
  <2>2. PICK s \in Sections : to = <<s>>
    BY <2>1, NavItemsAre DEF Marked
  <2>3. StartsWith(p, <<s>>)
    BY <2>1, <2>2 DEF Marked, isActive
  <2>4. p[1] = s
    <3>1. Len(<<s>>) = 1 /\ <<s>>[1] = s
      OBVIOUS
    <3>2. SubSeq(p, 1, 1) = <<s>>
      BY <2>3, <3>1 DEF StartsWith
    <3>3. SubSeq(p, 1, 1)[1] = p[1]
      BY <1>1
    <3> QED
      BY <3>1, <3>2, <3>3
  <2>5. q \in Seq(Segments) /\ Len(q) > 0 /\ s \in Segments /\ q[1] = s
    BY <1>1, <2>4, SectionPaths DEF Segments
  <2>6. StartsWith(q, <<s>>)
    BY <2>5, MarkedBySection
  <2> QED
    BY <2>1, <2>2, <2>6 DEF Marked, isActive
<1> QED
  BY <1>2, <1>3, <1>4

\* The only addresses without a page are the ones the routes do not name, in any letters.
LEMMA PagesAreInLayout ==
    ASSUME NEW p \in Paths
    PROVE  RouteOf(p) # "nothing" <=> p \in PagePaths \cup RespelledPaths
<1>1. RouteOf(<<"nowhere">>) = "nothing" /\ <<"nowhere">> \notin PagePaths \cup RespelledPaths
  BY DEF RouteOf, Folded, PagePaths, RespelledPaths, Sections, Id
<1>2. /\ RouteOf(<<"chat", "new">>) = "nothing"
      /\ <<"chat", "new">> \notin PagePaths \cup RespelledPaths
  BY DEF RouteOf, Folded, PagePaths, RespelledPaths, Sections, Id
<1>3. ASSUME NEW q, Folded(q) \in PagePaths PROVE RouteOf(q) # "nothing"
  <2> DEFINE f == Folded(q)
  <2>1. CASE f = <<>>
    BY <2>1 DEF RouteOf
  <2>2. CASE f \in {<<s>> : s \in Sections}
    BY <2>2 DEF RouteOf, Sections
  <2>3. CASE f \in {<<s, "new">> : s \in {"artifacts", "indexes", "evaluations"}}
    BY <2>3 DEF RouteOf
  <2>4. CASE f \in {<<"evaluations", Id>>, <<"evaluations", Id, "compare">>}
    BY <2>4 DEF RouteOf, Id
  <2> QED
    BY <1>3, <2>1, <2>2, <2>3, <2>4 DEF PagePaths
<1>4. p \in PagePaths \cup RespelledPaths => RouteOf(p) # "nothing"
  BY <1>3, PagesAreFolded, RespelledAre
<1> QED
  BY <1>1, <1>2, <1>4 DEF Paths

LEMMA NavItemsArePages == NavItems \subseteq PagePaths
BY NavItemsAre DEF PagePaths

LEMMA PathsOfPages == PagePaths \subseteq Paths /\ <<>> \in PagePaths
BY DEF Paths, PagePaths

LEMMA InitShell == AppInit => ShellInv
<1> SUFFICES ASSUME AppInit PROVE ShellInv
  OBVIOUS
<1>1. running \subseteq scene.tabs
  BY AppShellAssumption DEF AppInit
<1>2. NewsOK
  BY <1>1, AppShellAssumption DEF AppInit, NewsOK
<1>3. PlacesOK
  BY PathsOfPages DEF AppInit, PlacesOK
<1> QED
  BY <1>2, <1>3 DEF ShellInv

\* Moving to a page keeps what is known of places.
LEMMA GoToPlaces ==
    ASSUME PlacesOK, NEW t \in Tabs, NEW p \in PagePaths, GoTo(t, p) PROVE PlacesOK'
<1>1. /\ path' = [path EXCEPT ![t] = p] /\ byUrl' = [byUrl EXCEPT ![t] = FALSE]
      /\ wide' = wide /\ isMobile' = isMobile /\ open' = open /\ openMobile' = openMobile
      /\ cookie' = cookie
  BY DEF GoTo
<1>2. p \in Paths
  BY PathsOfPages
<1>3. path' \in [Tabs -> Paths] /\ byUrl' \in [Tabs -> BOOLEAN]
  BY <1>1, <1>2 DEF PlacesOK
<1>4. ASSUME NEW u \in Tabs, path'[u] \notin PagePaths PROVE byUrl'[u]
  <2>1. u # t
    BY <1>1, <1>2, <1>4 DEF PlacesOK
  <2>2. path'[u] = path[u] /\ byUrl'[u] = byUrl[u]
    BY <1>1, <2>1 DEF PlacesOK
  <2> QED
    BY <1>4, <2>2 DEF PlacesOK
<1>5. (\A u \in Tabs : path[u] \notin PagePaths => byUrl[u])'
  BY <1>4
<1> QED
  BY <1>1, <1>3, <1>5 DEF PlacesOK

LEMMA LoadPlaces ==
    ASSUME PlacesOK, NEW t \in Tabs, NEW p \in Paths, Load(t, p) PROVE PlacesOK'
<1>1. /\ path' = [path EXCEPT ![t] = p] /\ byUrl' = [byUrl EXCEPT ![t] = TRUE]
      /\ isMobile' = [isMobile EXCEPT ![t] = FALSE] /\ open' = [open EXCEPT ![t] = TRUE]
      /\ openMobile' = [openMobile EXCEPT ![t] = FALSE]
      /\ wide' = wide /\ cookie' = cookie
  BY DEF Load, Opened
<1>2. ASSUME NEW u \in Tabs, path'[u] \notin PagePaths PROVE byUrl'[u]
  <2>1. CASE u = t
    BY <1>1, <2>1 DEF PlacesOK
  <2>2. CASE u # t
    <3>1. path'[u] = path[u] /\ byUrl'[u] = byUrl[u]
      BY <1>1, <2>2 DEF PlacesOK
    <3> QED
      BY <1>2, <3>1 DEF PlacesOK
  <2> QED
    BY <2>1, <2>2
<1>3. (\A u \in Tabs : path[u] \notin PagePaths => byUrl[u])'
  BY <1>2
<1>4. path' \in [Tabs -> Paths] /\ byUrl' \in [Tabs -> BOOLEAN]
  BY <1>1 DEF PlacesOK
<1> QED
  BY <1>1, <1>3, <1>4 DEF PlacesOK

\* The sidebar's own actions leave the pages as they are.
LEMMA SidebarPlaces ==
    ASSUME PlacesOK, NEW t \in Tabs,
           Measure(t) \/ Resize(t) \/ toggleSidebar(t) \/ CloseSheet(t)
    PROVE  PlacesOK'
<1>1. path' = path /\ byUrl' = byUrl
  BY DEF Measure, Resize, toggleSidebar, CloseSheet
<1>2. (\A u \in Tabs : path[u] \notin PagePaths => byUrl[u])'
  BY <1>1 DEF PlacesOK
<1>3. wide' \in [Tabs -> BOOLEAN] /\ isMobile' \in [Tabs -> BOOLEAN]
  BY DEF PlacesOK, Measure, Resize, toggleSidebar, CloseSheet
<1>4. open' \in [Tabs -> BOOLEAN] /\ openMobile' \in [Tabs -> BOOLEAN]
  BY DEF PlacesOK, Measure, Resize, toggleSidebar, CloseSheet
<1>5. cookie' \in {"true", "false", Nothing}
  BY DEF PlacesOK, Measure, Resize, toggleSidebar, CloseSheet
<1> QED
  BY <1>1, <1>2, <1>3, <1>4, <1>5 DEF PlacesOK

LEMMA PlacesKept ==
    ASSUME PlacesOK, UNCHANGED <<path, byUrl, wide, isMobile, open, openMobile, cookie>>
    PROVE  PlacesOK'
<1>1. (\A u \in Tabs : path[u] \notin PagePaths => byUrl[u])'
  BY DEF PlacesOK
<1> QED
  BY <1>1 DEF PlacesOK

LEMMA NextPlaces == PlacesOK /\ [AppNext]_appVars => PlacesOK'
<1> SUFFICES ASSUME PlacesOK, [AppNext]_appVars PROVE PlacesOK'
  OBVIOUS
<1>1. ASSUME NEW t \in Tabs,
             \/ PressD(t) \/ handleStorageChange(t) \/ SchemeChange(t) \/ Mount(t)
             \/ Close(t) \/ OpenPalette(t) \/ Focus(t)
      PROVE  PlacesOK'
  <2>1. UNCHANGED <<path, byUrl, wide, isMobile, open, openMobile, cookie>>
    BY <1>1 DEF PressD, handleStorageChange, SchemeChange, Mount, Close, OpenPalette,
                Unloaded, Focus, shellVars
  <2> QED
    BY <2>1, PlacesKept
<1>2. ASSUME (\E v \in {Nothing, Junk} : Overwrite(v)) \/ Clear \/ SystemChanges
             \/ UNCHANGED appVars
      PROVE  PlacesOK'
  <2>1. UNCHANGED <<path, byUrl, wide, isMobile, open, openMobile, cookie>>
    BY <1>2 DEF Overwrite, Clear, SystemChanges, appVars, shellVars
  <2> QED
    BY <2>1, PlacesKept
<1>3. ASSUME NEW t \in Tabs, NEW p \in Paths, Load(t, p) PROVE PlacesOK'
  BY <1>3, LoadPlaces
<1>4. ASSUME NEW t \in Tabs, Measure(t) \/ Resize(t) \/ toggleSidebar(t) \/ CloseSheet(t)
      PROVE  PlacesOK'
  BY <1>4, SidebarPlaces
<1>5. ASSUME NEW t \in Tabs, NEW to \in NavItems, FollowItem(t, to) PROVE PlacesOK'
  BY <1>5, GoToPlaces, NavItemsArePages DEF FollowItem
<1>6. ASSUME NEW t \in Tabs, NEW p \in PagePaths, FollowLink(t, p) PROVE PlacesOK'
  BY <1>6, GoToPlaces DEF FollowLink
<1> QED
  BY <1>1, <1>2, <1>3, <1>4, <1>5, <1>6 DEF AppNext

\* A storage event waits for a tab only if there was room.
LEMMA NextNews == ThemeTypeOK /\ NewsOK /\ [AppNext]_appVars => NewsOK'
<1> SUFFICES ASSUME ThemeTypeOK, NewsOK, [AppNext]_appVars PROVE NewsOK'
  OBVIOUS
<1>0. Cleared \in Events /\ Values \subseteq Events
  BY EventsAre DEF Events
<1>1. /\ MaxUnderWay \in Nat /\ rendered \cup running \subseteq Tabs /\ scene.tabs \subseteq Tabs
      /\ \A u \in Tabs : inbox[u] \in Seq(Events) /\ Len(inbox[u]) \in Nat
      /\ DOMAIN inbox = Tabs
  BY AppShellAssumption DEF ThemeTypeOK
<1>2. ASSUME NEW t \in Tabs, PressD(t) PROVE NewsOK'
  <2>1. /\ running' = running /\ scene' = scene /\ schemeNews' = schemeNews
        /\ rendered' = rendered
        /\ \A u \in running : Len(inbox[u]) < MaxUnderWay
        /\ \A u \in Tabs : \/ u \in running /\ inbox'[u] = Append(inbox[u], nextTheme(theme[t]))
                           \/ inbox'[u] = inbox[u]
    BY <1>2 DEF PressD, SetItem, Room
  <2>2. nextTheme(theme[t]) \in Events
    BY <1>0, NextThemeFlips DEF ThemeTypeOK, Values, THEME_VALUES
  <2>3. \A u \in Tabs : Len(inbox'[u]) <= MaxUnderWay
    BY <1>1, <2>1, <2>2 DEF NewsOK
  <2>4. strayed' \subseteq strayed \cup rendered \cup running
    BY <1>2 DEF PressD, SetItem
  <2> QED
    BY <2>1, <2>3, <2>4 DEF NewsOK
<1>3. ASSUME NEW v \in {Nothing, Junk}, Overwrite(v) PROVE NewsOK'
  <2>1. /\ running' = running /\ scene' = scene /\ schemeNews' = schemeNews
        /\ rendered' = rendered
        /\ \A u \in running : Len(inbox[u]) < MaxUnderWay
        /\ \A u \in Tabs : \/ u \in running /\ inbox'[u] = Append(inbox[u], v)
                           \/ inbox'[u] = inbox[u]
    BY <1>3 DEF Overwrite, Room
  <2>2. v \in Events
    BY <1>0 DEF Values
  <2>3. \A u \in Tabs : Len(inbox'[u]) <= MaxUnderWay
    BY <1>1, <2>1, <2>2 DEF NewsOK
  <2>4. strayed' = rendered
    BY <1>3 DEF Overwrite
  <2> QED
    BY <2>1, <2>3, <2>4 DEF NewsOK
<1>12. ASSUME Clear PROVE NewsOK'
  <2>1. /\ running' = running /\ scene' = scene /\ schemeNews' = schemeNews
        /\ rendered' = rendered /\ strayed' = rendered \cup running
        /\ \A u \in running : Len(inbox[u]) < MaxUnderWay
        /\ \A u \in Tabs : \/ u \in running /\ inbox'[u] = Append(inbox[u], Cleared)
                           \/ inbox'[u] = inbox[u]
    BY <1>12 DEF Clear, Room
  <2>2. \A u \in Tabs : Len(inbox'[u]) <= MaxUnderWay
    BY <1>0, <1>1, <2>1 DEF NewsOK
  <2> QED
    BY <2>1, <2>2 DEF NewsOK
<1>4. ASSUME NEW t \in Tabs, handleStorageChange(t) PROVE NewsOK'
  <2>1. /\ running' = running /\ scene' = scene /\ schemeNews' = schemeNews
        /\ rendered' = rendered /\ strayed' = strayed
        /\ inbox' = [inbox EXCEPT ![t] = Tail(inbox[t])] /\ inbox[t] # <<>>
    BY <1>4 DEF handleStorageChange
  <2>2. Len(Tail(inbox[t])) <= Len(inbox[t]) /\ Len(Tail(inbox[t])) \in Nat
    BY <1>1, <2>1, HeadTailProperties
  <2>3. \A u \in Tabs : Len(inbox'[u]) <= MaxUnderWay
    BY <1>1, <2>1, <2>2 DEF NewsOK
  <2> QED
    BY <2>1, <2>3 DEF NewsOK
<1>5. ASSUME SystemChanges PROVE NewsOK'
  BY <1>5 DEF SystemChanges, NewsOK
<1>6. ASSUME NEW t \in Tabs, SchemeChange(t) PROVE NewsOK'
  BY <1>6 DEF SchemeChange, NewsOK
<1>7. ASSUME NEW t \in Tabs, NEW p \in Paths, Load(t, p) PROVE NewsOK'
  BY <1>1, <1>7 DEF Load, Opened, NewsOK
<1>13. ASSUME NEW t \in Tabs, Mount(t) PROVE NewsOK'
  BY <1>13 DEF Mount, NewsOK
<1>8. ASSUME NEW t \in Tabs, Close(t) \/ OpenPalette(t) PROVE NewsOK'
  BY <1>1, <1>8 DEF Close, OpenPalette, Unloaded, NewsOK
<1>9. ASSUME UNCHANGED docVars PROVE NewsOK'
  BY <1>9 DEF NewsOK, docVars, themeVars
<1>10. ASSUME NEW t \in Tabs,
             \/ Measure(t) \/ Resize(t) \/ toggleSidebar(t) \/ CloseSheet(t) \/ Focus(t)
             \/ \E to \in NavItems : FollowItem(t, to)
             \/ \E p \in PagePaths : FollowLink(t, p)
      PROVE  UNCHANGED docVars
  BY <1>10 DEF Measure, Resize, toggleSidebar, CloseSheet, Focus, FollowItem, FollowLink, GoTo
<1>11. ASSUME UNCHANGED appVars PROVE UNCHANGED docVars
  BY <1>11 DEF appVars
<1> QED
  BY <1>2, <1>3, <1>4, <1>5, <1>6, <1>7, <1>8, <1>9, <1>10, <1>11,
     <1>12, <1>13
  DEF AppNext

\* Addresses, the sidebar's state and who runs: an inductive invariant beside ThemeInv.
THEOREM ShellInvariance == AppSpec => []ShellInv
<1>1. ThemeInv /\ ShellInv /\ [AppNext]_appVars => ShellInv'
  BY NextPlaces, NextNews DEF ThemeInv, ShellInv
<1> QED
  BY InitShell, ThemeInvariance, <1>1, PTL DEF AppSpec

\* The type invariant: a page without an element was typed in, for no link of a page,
\* no item of the navigation and no form leads to one.
THEOREM ShellTypeCorrect == AppSpec => []AppTypeOK
<1>1. ThemeInv /\ ShellInv => AppTypeOK
  <2> SUFFICES ASSUME ThemeInv, ShellInv PROVE AppTypeOK
    OBVIOUS
  <2>1. running \subseteq Tabs /\ storedTheme \in THEME_VALUES \cup {Nothing, Junk}
    BY DEF ThemeInv, ThemeTypeOK, Values
  <2>2. \A t \in running : path[t] \in Paths /\ (RouteOf(path[t]) = "nothing" => byUrl[t])
    BY <2>1, PagesAreInLayout DEF ShellInv, PlacesOK
  <2> QED
    BY <2>1, <2>2 DEF ThemeInv, ThemeTypeOK, ShellInv, PlacesOK, NewsOK, AppTypeOK
<1> QED
  BY ThemeInvariance, ShellInvariance, <1>1, PTL

\* Wherever the user goes, by links, the navigation or an address, the item of the page's
\* section is marked and no other, and none only after an address typed in other letters.
THEOREM PagesSectionIsMarked == AppSpec => []SectionIsMarked
<1>1. ThemeInv /\ ShellInv => SectionIsMarked
  <2> SUFFICES ASSUME ThemeInv, ShellInv, NEW t \in running, InLayout(t)
               PROVE  \/ Marked(path[t]) = {PageSection(path[t])}
                      \/ Marked(path[t]) = {} /\ byUrl[t] /\ path[t] # Folded(path[t])
    BY DEF SectionIsMarked, Marked, PageSection
  <2>1. t \in Tabs /\ path[t] \in Paths
    BY DEF ThemeInv, ThemeTypeOK, ShellInv, PlacesOK
  <2>2. CASE path[t] \in PagePaths
    BY <2>2, MarkedItem
  <2>3. CASE path[t] \notin PagePaths
    <3>1. path[t] \in RespelledPaths /\ byUrl[t]
      BY <2>1, <2>3, PagesAreInLayout DEF InLayout, ShellInv, PlacesOK
    <3> QED
      BY <3>1, MarkedOnRespelled, RespelledAre
  <2> QED
    BY <2>2, <2>3
<1> QED
  BY ThemeInvariance, ShellInvariance, <1>1, PTL

\* Whatever the window's width was when the sidebar was toggled, an item of a shown
\* sidebar has a label or a tooltip, never both.
THEOREM NamedOnce == AppSpec => []LabelOrTooltip
<1>1. ThemeInv /\ ShellInv => LabelOrTooltip
  <2> SUFFICES ASSUME ThemeInv, ShellInv, NEW t \in running, SidebarForm(t) # "none"
               PROVE  ShowsLabels(t) <=> ~ShowsTooltip(t)
    BY DEF LabelOrTooltip
  <2>1. wide[t] \in BOOLEAN /\ isMobile[t] \in BOOLEAN /\ open[t] \in BOOLEAN
        /\ openMobile[t] \in BOOLEAN
    BY DEF ThemeInv, ThemeTypeOK, ShellInv, PlacesOK
  <2> QED
    BY <2>1 DEF ShowsLabels, ShowsTooltip, SidebarForm
<1> QED
  BY ThemeInvariance, ShellInvariance, <1>1, PTL

-----------------------------------------------------------------------------
(* The arrays of the list pages.                                           *)

Below(S, r, x) == {y \in S : r[y] < r[x]}

\* The order in which SortedBy puts S by the numbers r.
InOrder(S, r) ==
    [k \in 1 .. Cardinality(S) |-> CHOOSE x \in S : Cardinality(Below(S, r, x)) = k - 1]

\* Where the numbers differ, everything has a place of its own in the order.
LEMMA EveryPlaceIsTaken ==
    ASSUME NEW S, IsFiniteSet(S), NEW r \in [S -> Int], \A x, y \in S : r[x] = r[y] => x = y
    PROVE  /\ InOrder(S, r) \in [1 .. Cardinality(S) -> S]
           /\ \A k, l \in 1 .. Cardinality(S) : InOrder(S, r)[k] = InOrder(S, r)[l] => k = l
<1> DEFINE n == Cardinality(S)
           c == [x \in S |-> Cardinality(Below(S, r, x))]
<1>1. n \in Nat
  BY FS_CardinalityType
<1>2. ASSUME NEW x \in S
      PROVE  /\ IsFiniteSet(Below(S, r, x)) /\ c[x] = Cardinality(Below(S, r, x))
             /\ c[x] \in 0 .. n - 1
  <2>1. IsFiniteSet(S \ {x}) /\ Cardinality(S \ {x}) = n - 1
    BY FS_RemoveElement
  <2>2. r[x] \in Int /\ ~(r[x] < r[x])
    OBVIOUS
  <2>3. Below(S, r, x) \in SUBSET (S \ {x})
    BY <2>2 DEF Below
  <2>4. IsFiniteSet(Below(S, r, x)) /\ Cardinality(Below(S, r, x)) <= n - 1
    BY <2>1, <2>3, FS_Subset
  <2>5. Cardinality(Below(S, r, x)) \in Nat
    BY <2>4, FS_CardinalityType
  <2>6. c[x] = Cardinality(Below(S, r, x))
    OBVIOUS
  <2> HIDE DEF n, c
  <2> QED
    BY <1>1, <2>4, <2>5, <2>6
<1>3. ASSUME NEW x \in S, NEW y \in S, r[x] < r[y] PROVE c[x] # c[y]
  <2>1. r[x] \in Int /\ r[y] \in Int /\ \A z \in S : r[z] \in Int
    OBVIOUS
  <2>2. Below(S, r, x) \cup {x} \in SUBSET Below(S, r, y) /\ x \notin Below(S, r, x)
    BY <1>3, <2>1 DEF Below
  <2>3. /\ IsFiniteSet(Below(S, r, x)) /\ IsFiniteSet(Below(S, r, y))
        /\ c[x] = Cardinality(Below(S, r, x)) /\ c[y] = Cardinality(Below(S, r, y))
        /\ c[x] \in Nat /\ c[y] \in Nat
    BY <1>2
  <2> HIDE DEF c
  <2>4. Cardinality(Below(S, r, x) \cup {x}) = c[x] + 1
    BY <2>2, <2>3, FS_AddElement
  <2>5. Cardinality(Below(S, r, x) \cup {x}) <= c[y]
    BY <2>2, <2>3, FS_Subset
  <2> QED
    BY <2>3, <2>4, <2>5
<1>4. \A x, y \in S : c[x] = c[y] => x = y
  <2> SUFFICES ASSUME NEW x \in S, NEW y \in S, c[x] = c[y] PROVE x = y
    OBVIOUS
  <2>1. r[x] \in Int /\ r[y] \in Int
    OBVIOUS
  <2>2. ~(r[x] < r[y]) /\ ~(r[y] < r[x])
    BY <1>3
  <2> QED
    BY <2>1, <2>2
<1>5. c \in [S -> 0 .. n - 1]
  BY <1>2
<1> HIDE DEF c
<1>6. c \in Injection(S, 0 .. n - 1)
  <2> HIDE DEF n
  <2> QED
    BY <1>4, <1>5 DEF Injection, IsInjective
<1>7. IsFiniteSet(0 .. n - 1) /\ Cardinality(0 .. n - 1) = n
  <2>1. 0 \in Int /\ n - 1 \in Int
    BY <1>1
  <2> HIDE DEF n
  <2>2. IsFiniteSet(0 .. n - 1) /\ Cardinality(0 .. n - 1) = IF 0 > n - 1 THEN 0 ELSE n - 1 - 0 + 1
    BY <2>1, FS_Interval
  <2> QED
    BY <1>1, <2>2
<1>8. c \in Surjection(S, 0 .. n - 1)
  BY <1>6, <1>7, FS_Injection
<1>9. ASSUME NEW k \in 1 .. n
      PROVE  InOrder(S, r)[k] \in S /\ c[InOrder(S, r)[k]] = k - 1
  <2>1. k - 1 \in 0 .. n - 1
    BY <1>1
  <2>2. \E x \in S : c[x] = k - 1
    BY <1>8, <2>1 DEF Surjection
  <2>3. \E x \in S : Cardinality(Below(S, r, x)) = k - 1
    BY <1>2, <2>2
  <2>4. InOrder(S, r)[k] = CHOOSE x \in S : Cardinality(Below(S, r, x)) = k - 1
    BY DEF InOrder
  <2>5. InOrder(S, r)[k] \in S /\ Cardinality(Below(S, r, InOrder(S, r)[k])) = k - 1
    BY <2>3, <2>4
  <2> QED
    BY <1>2, <2>5
<1>10. InOrder(S, r) = [k \in 1 .. n |-> InOrder(S, r)[k]]
  BY DEF InOrder
<1>11. InOrder(S, r) \in [1 .. n -> S]
  BY <1>9, <1>10
<1>12. ASSUME NEW k \in 1 .. n, NEW l \in 1 .. n, InOrder(S, r)[k] = InOrder(S, r)[l] PROVE k = l
  <2>1. k - 1 = l - 1
    BY <1>9, <1>12
  <2> QED
    BY <2>1
<1> QED
  BY <1>11, <1>12

\* The elements at some places of a sequence, in their order.
LEMMA ElementsOfSequence ==
    ASSUME NEW R, NEW s \in Seq(R), NEW S \in SUBSET DOMAIN s
    PROVE  /\ ElementsAt(s, S) \in Seq(R) /\ Len(ElementsAt(s, S)) = Cardinality(S)
           /\ IsFiniteSet(S) /\ Cardinality(S) \in Nat
           /\ IsInjective(s) => IsInjective(ElementsAt(s, S))
<1> DEFINE r == [i \in S |-> i]
           n == Cardinality(S)
           order == InOrder(S, r)
<1>1. Len(s) \in Nat /\ DOMAIN s = 1 .. Len(s) /\ \A i \in DOMAIN s : s[i] \in R
  OBVIOUS
<1>2. IsFiniteSet(S) /\ n \in Nat
  <2>1. 1 \in Int /\ Len(s) \in Int
    BY <1>1
  <2>2. IsFiniteSet(1 .. Len(s))
    BY <2>1, FS_Interval
  <2> QED
    BY <1>1, <2>2, FS_Subset, FS_CardinalityType
<1>3. order \in [1 .. n -> S] /\ \A k, l \in 1 .. n : order[k] = order[l] => k = l
  <2>1. r \in [S -> Int] /\ \A x, y \in S : r[x] = r[y] => x = y
    BY <1>1
  <2> HIDE DEF r
  <2> QED
    BY <1>2, <2>1, EveryPlaceIsTaken
<1>4. ElementsAt(s, S) = [k \in 1 .. n |-> s[order[k]]]
  <2> DEFINE chosen(k) == CHOOSE x \in S : Cardinality({y \in S : y < x}) = k - 1
  <2>1. ElementsAt(s, S) = [k \in 1 .. n |-> s[[l \in 1 .. n |-> chosen(l)][k]]]
    BY DEF ElementsAt, SortedBy
  <2>2. ASSUME NEW k \in 1 .. n PROVE order[k] = chosen(k)
    <3>1. \A x \in S : Below(S, r, x) = {y \in S : y < x}
      BY DEF Below
    <3>2. order[k] = CHOOSE x \in S : Cardinality(Below(S, r, x)) = k - 1
      BY DEF InOrder
    <3> HIDE DEF r, order, n
    <3>3. (CHOOSE x \in S : Cardinality(Below(S, r, x)) = k - 1) = chosen(k)
      BY <3>1
    <3> QED
      BY <3>2, <3>3
  <2> HIDE DEF order, n, chosen
  <2> QED
    BY <2>1, <2>2
<1> HIDE DEF order, n, r
<1>5. \A k \in 1 .. n : order[k] \in 1 .. Len(s) /\ s[order[k]] \in R
  BY <1>1, <1>3
<1>6. ElementsAt(s, S) \in Seq(R) /\ Len(ElementsAt(s, S)) = n
  BY <1>2, <1>4, <1>5
<1>7. IsInjective(s) => IsInjective(ElementsAt(s, S))
  BY <1>1, <1>3, <1>4, <1>5 DEF IsInjective
<1> QED
  BY <1>2, <1>6, <1>7 DEF n

-----------------------------------------------------------------------------
(* Counting.                                                               *)

\* The members of a set that are in one of the classes M.
InClasses(A, f, M) == {i \in A : f[i] \in M}

LEMMA CountsAddUp ==
    ASSUME NEW A, IsFiniteSet(A), NEW f, NEW B, IsFiniteSet(B), NEW g, NEW M,
           \A n \in M : Cardinality({i \in A : f[i] = n}) <= Cardinality({i \in B : g[i] = n})
    PROVE  Cardinality(InClasses(A, f, M)) <= Cardinality(InClasses(B, g, M))
<1> DEFINE X(n) == {i \in A : f[i] = n}
           Y(n) == {i \in B : g[i] = n}
           XM == InClasses(A, f, M)
           YM == InClasses(B, g, M)
           h == [n \in M |-> CHOOSE h \in [X(n) -> Y(n)] : IsInjective(h)]
           F == [i \in XM |-> h[f[i]][i]]
<1>1. ASSUME NEW n \in M PROVE \E e \in [X(n) -> Y(n)] : IsInjective(e)
  <2>1. IsFiniteSet(X(n)) /\ IsFiniteSet(Y(n))
    BY FS_Subset
  <2>2. Cardinality(X(n)) <= Cardinality(Y(n))
    OBVIOUS
  <2> HIDE DEF X, Y
  <2>3. /\ Cardinality(X(n)) \in Nat /\ ExistsBijection(1 .. Cardinality(X(n)), X(n))
        /\ Cardinality(Y(n)) \in Nat /\ ExistsBijection(1 .. Cardinality(Y(n)), Y(n))
    BY <2>1, FS_CardinalityType
  <2>4. ExistsInjection(X(n), 1 .. Cardinality(X(n)))
    BY <2>3, Fun_ExistsBijEquiv
  <2>5. ExistsInjection(1 .. Cardinality(X(n)), 1 .. Cardinality(Y(n)))
    BY <2>2, <2>3, Fun_NatInjLeq
  <2>6. ExistsInjection(1 .. Cardinality(Y(n)), Y(n))
    BY <2>3, Fun_ExistsBijEquiv
  <2>7. ExistsInjection(X(n), Y(n))
    BY <2>4, <2>5, <2>6, Fun_ExistsInjTransitive
  <2> QED
    BY <2>7, Fun_ExistsInj DEF Injection
<1>2. ASSUME NEW n \in M PROVE h[n] \in [X(n) -> Y(n)] /\ IsInjective(h[n])
  BY <1>1
<1>3. ASSUME NEW i \in XM PROVE f[i] \in M /\ i \in X(f[i]) /\ F[i] = h[f[i]][i]
  BY DEF InClasses
<1> HIDE DEF h, F
<1>4. ASSUME NEW i \in XM PROVE F[i] \in YM /\ g[F[i]] = f[i]
  <2>1. h[f[i]] \in [X(f[i]) -> Y(f[i])] /\ i \in X(f[i]) /\ f[i] \in M
    BY <1>2, <1>3
  <2>2. h[f[i]][i] \in Y(f[i])
    <3> HIDE DEF X, Y
    <3> QED
      BY <2>1
  <2> QED
    BY <1>3, <2>1, <2>2 DEF InClasses
<1>5. \A i, j \in XM : F[i] = F[j] => i = j
  <2> SUFFICES ASSUME NEW i \in XM, NEW j \in XM, F[i] = F[j] PROVE i = j
    OBVIOUS
  <2>1. f[i] = f[j]
    BY <1>4
  <2> HIDE DEF X, Y, XM, YM
  <2>2. /\ h[f[i]][i] = h[f[i]][j] /\ i \in X(f[i]) /\ j \in X(f[i])
        /\ DOMAIN h[f[i]] = X(f[i]) /\ IsInjective(h[f[i]])
    BY <1>2, <1>3, <2>1
  <2> QED
    BY <2>2 DEF IsInjective
<1>6. DOMAIN F = XM /\ F \in [XM -> YM]
  <2>1. F = [i \in XM |-> F[i]]
    BY DEF F
  <2> HIDE DEF XM, YM
  <2> QED
    BY <1>4, <2>1
<1>7. IsFiniteSet(YM)
  BY FS_Subset DEF InClasses
<1> HIDE DEF XM, YM
<1>8. F \in Injection(XM, YM)
  BY <1>5, <1>6 DEF Injection, IsInjective
<1>9. Cardinality(XM) <= Cardinality(YM)
  BY <1>7, <1>8, FS_Injection
<1> QED
  BY <1>9 DEF XM, YM

-----------------------------------------------------------------------------
(* The table.                                                              *)

\* Sorted, the rows are as many and the same.
LEMMA SortedRows ==
    ASSUME NEW Row, NEW s \in Seq(Row), NEW t
    PROVE  Sorted(t, s) \in Seq(Row) /\ Len(Sorted(t, s)) = Len(s)
<1> DEFINE D == DOMAIN s
           n == Cardinality(D)
           r == [i \in D |-> i]
           earlier(x) == {y \in D : \/ IF t.ascending THEN 0 < 0 ELSE 0 < 0
                                    \/ 0 = 0 /\ y < x}
           chosen(k) == CHOOSE x \in D : Cardinality(earlier(x)) = k - 1
<1>1. Len(s) \in Nat /\ D = 1 .. Len(s) /\ \A i \in D : s[i] \in Row
  OBVIOUS
<1>2. IsFiniteSet(D) /\ n = Len(s)
  <2>1. 1 \in Int /\ Len(s) \in Int
    BY <1>1
  <2> HIDE DEF D
  <2>2. /\ IsFiniteSet(1 .. Len(s))
        /\ Cardinality(1 .. Len(s)) = IF 1 > Len(s) THEN 0 ELSE Len(s) - 1 + 1
    BY <2>1, FS_Interval
  <2> QED
    BY <1>1, <2>2
<1>3. InOrder(D, r) \in [1 .. n -> D]
  <2>1. r \in [D -> Int] /\ \A x, y \in D : r[x] = r[y] => x = y
    BY <1>1
  <2> HIDE DEF r, D
  <2> QED
    BY <1>2, <2>1, EveryPlaceIsTaken
<1>4. ASSUME NEW k \in 1 .. n PROVE InOrder(D, r)[k] = chosen(k)
  <2>1. \A x \in D : Below(D, r, x) = earlier(x)
    BY DEF Below
  <2>2. InOrder(D, r)[k] = CHOOSE x \in D : Cardinality(Below(D, r, x)) = k - 1
    BY DEF InOrder
  <2> HIDE DEF r, D, n, earlier
  <2>3. (CHOOSE x \in D : Cardinality(Below(D, r, x)) = k - 1)
        = CHOOSE x \in D : Cardinality(earlier(x)) = k - 1
    BY <2>1
  <2> QED
    BY <2>2, <2>3
<1>5. ASSUME NEW k \in 1 .. n PROVE chosen(k) \in D /\ s[chosen(k)] \in Row
  <2> HIDE DEF r, D, n, chosen
  <2> QED
    BY <1>1, <1>3, <1>4
<1>6. CASE t.sortKey = NoKey
  BY <1>6 DEF Sorted
<1>7. CASE t.sortKey # NoKey
  <2>1. Sorted(t, s) = [i \in D |-> s[[k \in 1 .. n |-> chosen(k)][i]]]
    BY <1>7 DEF Sorted, SortedBy, CellRank
  <2> HIDE DEF chosen, D, n
  <2>2. Sorted(t, s) = [i \in 1 .. Len(s) |-> s[chosen(i)]]
    BY <1>1, <1>2, <2>1
  <2>3. \A i \in 1 .. Len(s) : s[chosen(i)] \in Row
    BY <1>2, <1>5
  <2> QED
    BY <1>1, <2>2, <2>3
<1> QED
  BY <1>6, <1>7

Matches(t, rows) == {i \in DOMAIN rows : rows[i].name \in t.matches}

\* The rows a table has left are those that match its filter.
LEMMA FilteredRows ==
    ASSUME NEW Row, NEW rows \in Seq(Row), NEW t
    PROVE  /\ Found(t, rows) \in Seq(Row) /\ Filtered(t, rows) \in Seq(Row)
           /\ Len(Found(t, rows)) = Cardinality(Matches(t, rows))
           /\ Len(Filtered(t, rows)) = Cardinality(Matches(t, rows))
           /\ IsFiniteSet(Matches(t, rows)) /\ Cardinality(Matches(t, rows)) \in Nat
<1>1. Found(t, rows) = ElementsAt(rows, Matches(t, rows))
  BY DEF Found, filter, Matches
<1>2. Matches(t, rows) \in SUBSET DOMAIN rows
  BY DEF Matches
<1>3. /\ ElementsAt(rows, Matches(t, rows)) \in Seq(Row)
      /\ Len(ElementsAt(rows, Matches(t, rows))) = Cardinality(Matches(t, rows))
      /\ IsFiniteSet(Matches(t, rows)) /\ Cardinality(Matches(t, rows)) \in Nat
  BY <1>2, ElementsOfSequence
<1>4. /\ Sorted(t, Found(t, rows)) \in Seq(Row)
      /\ Len(Sorted(t, Found(t, rows))) = Len(Found(t, rows))
  BY <1>1, <1>3, SortedRows
<1> QED
  BY <1>1, <1>3, <1>4 DEF Filtered

\* What is on a page, and when there is something.
LEMMA PagedRows ==
    ASSUME NEW Row, NEW rows \in Seq(Row), NEW t, t.page \in Nat \ {0}
    PROVE  /\ \A i \in DOMAIN Paged(t, rows) : Paged(t, rows)[i] \in Row
           /\ (t.page - 1) * PageSize < Cardinality(Matches(t, rows)) => ~ShowsNoData(t, rows)
<1> DEFINE all == Filtered(t, rows)
           first == (t.page - 1) * PageSize
           next == t.page * PageSize
           last == IF next < Len(all) THEN next ELSE Len(all)
<1>1. all \in Seq(Row) /\ Len(all) = Cardinality(Matches(t, rows)) /\ Len(all) \in Nat
  BY FilteredRows
<1>2. first \in Nat /\ next = first + PageSize /\ PageSize \in Nat \ {0}
  <2>1. PageSize \in Nat \ {0} /\ t.page - 1 \in Nat
    BY DataTableAssumption
  <2> HIDE DEF first, next
  <2>2. PICK p \in Nat : p = t.page - 1
    BY <2>1
  <2>3. first = p * PageSize /\ next = (p + 1) * PageSize
    BY <2>2 DEF first, next
  <2>4. p * PageSize \in Nat /\ (p + 1) * PageSize = p * PageSize + PageSize
    BY <2>1, SMT
  <2> QED
    BY <2>1, <2>3, <2>4
<1>3. Paged(t, rows) = SubSeq(all, first + 1, last)
  BY DEF Paged
<1> HIDE DEF all, first, next
<1>4. last \in Int /\ last <= Len(all) /\ first + 1 \in Int /\ \A i \in first + 1 .. last : i \in 1 .. Len(all)
  BY <1>1, <1>2
<1>5. \A i \in first + 1 .. last : all[i] \in Row
  BY <1>1, <1>4
<1> HIDE DEF last
<1>6. /\ SubSeq(all, first + 1, last) \in Seq(Row)
      /\ Len(SubSeq(all, first + 1, last)) = IF first + 1 <= last THEN last - (first + 1) + 1 ELSE 0
  BY <1>4, <1>5, SubSeqProperties
<1>7. ASSUME first < Len(all) PROVE ~ShowsNoData(t, rows)
  <2>1. first + 1 <= last
    BY <1>1, <1>2, <1>7 DEF last
  <2>2. Len(Paged(t, rows)) > 0
    BY <1>2, <1>3, <1>4, <1>6, <2>1
  <2> QED
    BY <2>2 DEF ShowsNoData
<1>8. \A i \in DOMAIN Paged(t, rows) : Paged(t, rows)[i] \in Row
  BY <1>3, <1>6
<1> QED
  BY <1>1, <1>7, <1>8 DEF first

\* What the user does to a table.
LEMMA TableChanges ==
    ASSUME NEW K, NEW t \in TableOf(K)
    PROVE  /\ t.page \in Nat \ {0}
           /\ \A m \in SUBSET Names : Searched(t, m) \in TableOf(K) /\ Searched(t, m).page = 1
           /\ \A key \in K : handleSort(t, key) \in TableOf(K) /\ handleSort(t, key).page = 1
           /\ t.page > 1 => /\ ToPrev(t) \in TableOf(K) /\ ToPrev(t).page = t.page - 1
                            /\ ToPrev(t).matches = t.matches
           /\ ToNext(t) \in TableOf(K) /\ ToNext(t).page = t.page + 1 /\ ToNext(t).matches = t.matches
<1>1. /\ t.matches \in SUBSET Names /\ t.sortKey \in K \cup {NoKey} /\ t.ascending \in BOOLEAN
      /\ t.page \in Nat \ {0} /\ DOMAIN t = {"matches", "sortKey", "ascending", "page"}
      /\ t = [matches |-> t.matches, sortKey |-> t.sortKey, ascending |-> t.ascending, page |-> t.page]
  BY DEF TableOf
<1>2. ASSUME NEW m \in SUBSET Names, NEW key \in K \cup {NoKey}, NEW up \in BOOLEAN, NEW p \in Nat \ {0}
      PROVE  [matches |-> m, sortKey |-> key, ascending |-> up, page |-> p] \in TableOf(K)
  BY DEF TableOf
<1>3. ASSUME NEW m \in SUBSET Names PROVE Searched(t, m) \in TableOf(K) /\ Searched(t, m).page = 1
  <2> DEFINE u == [t EXCEPT !.matches = m]
             v == [u EXCEPT !.page = 1]
  <2>1. u = [matches |-> m, sortKey |-> t.sortKey, ascending |-> t.ascending, page |-> t.page]
    BY <1>1
  <2>2. Searched(t, m) = v
    BY DEF Searched
  <2> HIDE DEF u
  <2>3. v = [matches |-> m, sortKey |-> t.sortKey, ascending |-> t.ascending, page |-> 1]
    BY <2>1
  <2> HIDE DEF v
  <2>4. v \in TableOf(K) /\ v.page = 1
    BY <1>1, <2>3 DEF TableOf
  <2> QED
    BY <2>2, <2>4
<1>4. ASSUME NEW key \in K PROVE handleSort(t, key) \in TableOf(K) /\ handleSort(t, key).page = 1
  <2>1. CASE t.sortKey = key
    <3>1. handleSort(t, key) = [matches |-> t.matches, sortKey |-> key, ascending |-> ~t.ascending, page |-> 1]
      BY <1>1, <2>1 DEF handleSort
    <3> QED
      BY <1>1, <3>1 DEF TableOf
  <2>2. CASE t.sortKey # key
    <3>1. handleSort(t, key) = [matches |-> t.matches, sortKey |-> key, ascending |-> TRUE, page |-> 1]
      BY <1>1, <2>2 DEF handleSort
    <3> QED
      BY <1>1, <3>1 DEF TableOf
  <2> QED
    BY <2>1, <2>2
<1>5. ASSUME NEW p \in Nat \ {0}
      PROVE  /\ [t EXCEPT !.page = p] \in TableOf(K) /\ [t EXCEPT !.page = p].page = p
             /\ [t EXCEPT !.page = p].matches = t.matches
  <2>1. [t EXCEPT !.page = p]
          = [matches |-> t.matches, sortKey |-> t.sortKey, ascending |-> t.ascending, page |-> p]
    BY <1>1
  <2> QED
    BY <1>1, <1>2, <2>1
<1>6. /\ t.page > 1 => t.page - 1 \in Nat \ {0}
      /\ t.page + 1 \in Nat \ {0}
  BY <1>1
<1> QED
  BY <1>1, <1>3, <1>4, <1>5, <1>6 DEF ToPrev, ToNext

-----------------------------------------------------------------------------
(* The list pages.                                                         *)

USE ListPagesAssumption, AnswersAssumption, DataTableAssumption

Fields == {"data", "stale", "wire", "retried", "overtaken"}

Refusals == {Accept, "input_tag is required"}

JobType == [tag : Names, state : JobStates, made : BOOLEAN]

ServerOK ==
    /\ resource \in Resources /\ stored \in [Names -> {"absent", "empty", "filled"}]
    /\ jobs \in Seq(JobType) /\ applied \in Nat

CallOK(c) ==
    /\ DOMAIN c = {"op", "tag", "phase", "refusal", "at", "here"}
    /\ c.op \in {"create", "upload", "delete"} /\ (c.op = "create" => c.tag \in Names)
    /\ c.refusal \in Refusals
    /\ c.at \in Nat /\ c.at <= applied

\* What is stored, or on its way, is not older than change n of the user, unless the
\* acknowledgement of a change met the fetch that brings or brought it.
FreshFrom(q, n) ==
    /\ DOMAIN q = Fields
    /\ q.data # NoData /\ ~q.stale /\ q.wire = Idle => q.data.at >= n \/ q.overtaken
    /\ q.wire \notin {Idle, Sent} => q.wire.at >= n \/ q.overtaken

CacheOK ==
    /\ DOMAIN query = Keys
    /\ \A k \in Keys : /\ acked[k] \in Nat /\ acked[k] <= applied
                       /\ FreshFrom(query[k], acked[k])

ListInv == ServerOK /\ (\A c \in calls : CallOK(c)) /\ CacheOK /\ DOMAIN acked = Keys
-----------------------------------------------------------------------------
(* The cache.                                                              *)

LEMMA QueriesFresh ==
    ASSUME NEW q, NEW n, FreshFrom(q, n)
    PROVE  /\ FreshFrom(Begin(q), n) /\ FreshFrom(Fetch(q), n) /\ FreshFrom(Mounted(q), n)
           /\ FreshFrom(Aged(q), n)
           /\ \A active : FreshFrom(Errored(q, active), n)
           /\ q.wire \notin {Idle, Sent} => FreshFrom(Succeeded(q), n)
<1>1. DOMAIN q = Fields
  BY DEF FreshFrom
<1>2. FreshFrom(Begin(q), n)
  <2>1. DOMAIN Begin(q) = Fields /\ Begin(q).wire = Sent
    BY <1>1 DEF Begin, Fields
  <2> QED
    BY <2>1 DEF FreshFrom
<1>3. FreshFrom(Fetch(q), n)
  BY <1>2 DEF Fetch
<1>4. FreshFrom(Mounted(q), n)
  BY <1>3 DEF Mounted
<1> DEFINE aged == Aged(q)
<1>5. /\ DOMAIN aged = Fields /\ aged.data = q.data /\ aged.wire = q.wire
      /\ aged.stale = (q.data # NoData) /\ aged.overtaken = (q.overtaken /\ Fetching(q))
  BY <1>1 DEF Aged, Fields
<1>6. FreshFrom(aged, n)
  BY <1>5 DEF FreshFrom, Fetching
<1>7. ASSUME NEW active PROVE FreshFrom(Errored(q, active), n)
  <2>1. FreshFrom([q EXCEPT !.wire = Sent, !.retried = TRUE], n)
    BY <1>1 DEF FreshFrom, Fields
  <2> DEFINE new == [aged EXCEPT !.wire = Idle, !.retried = FALSE, !.overtaken = FALSE]
  <2>2. FreshFrom(new, n)
    <3>1. DOMAIN new = Fields /\ new.data = q.data /\ new.wire = Idle /\ new.stale = (q.data # NoData)
      <4> HIDE DEF aged
      <4> QED
        BY <1>5 DEF Fields
    <3> HIDE DEF new
    <3> QED
      BY <3>1 DEF FreshFrom
  <2> QED
    BY <2>1, <2>2 DEF Errored
<1>8. ASSUME q.wire \notin {Idle, Sent} PROVE FreshFrom(Succeeded(q), n)
  <2>1. /\ DOMAIN Succeeded(q) = Fields /\ Succeeded(q).data = q.wire /\ Succeeded(q).wire = Idle
        /\ Succeeded(q).overtaken = q.overtaken
    BY <1>1 DEF Succeeded, Fields
  <2> QED
    BY <1>8, <2>1 DEF FreshFrom
<1> QED
  BY <1>2, <1>3, <1>4, <1>6, <1>7, <1>8

\* An acknowledged change marks the data it finds, replaces the fetch it finds, or leaves word.
LEMMA InvalidatedFresh ==
    ASSUME NEW q, DOMAIN q = Fields, NEW n, NEW active
    PROVE  FreshFrom(Invalidated(q, active), n)
<1> DEFINE aged == Aged(q)
           late == [aged EXCEPT !.overtaken = Fetching(q)]
<1>1. DOMAIN aged = Fields /\ aged.data = q.data /\ aged.wire = q.wire /\ aged.stale = (q.data # NoData)
  BY DEF Aged, Fields
<1> HIDE DEF aged
<1>2. FreshFrom(Begin(aged), n)
  <2>1. DOMAIN Begin(aged) = Fields /\ Begin(aged).wire = Sent
    BY <1>1 DEF Begin, Fields
  <2> QED
    BY <2>1 DEF FreshFrom
<1>3. FreshFrom(late, n)
  <2>1. /\ DOMAIN late = Fields /\ late.data = q.data /\ late.wire = q.wire
        /\ late.stale = (q.data # NoData) /\ late.overtaken = Fetching(q)
    BY <1>1 DEF Fields
  <2> HIDE DEF late
  <2> QED
    BY <2>1 DEF FreshFrom, Fetching
<1> QED
  BY <1>2, <1>3 DEF Invalidated, aged

LEMMA AnsweredFresh ==
    ASSUME NEW q, NEW n, NEW answer, FreshFrom(q, n), answer \notin {Idle, Sent}, answer.at >= n
    PROVE  FreshFrom(Answered(q, answer), n)
<1>1. DOMAIN Answered(q, answer) = Fields /\ Answered(q, answer).wire = answer
  BY DEF FreshFrom, Answered, Fields
<1> QED
  BY <1>1 DEF FreshFrom

LEMMA JobMember ==
    ASSUME ServerOK, NEW i \in DOMAIN jobs
    PROVE  i \in Nat /\ i \in 1 .. Len(jobs) /\ jobs[i] \in JobType
<1>1. jobs \in Seq(JobType)
  BY DEF ServerOK
<1>2. i \in 1 .. Len(jobs)
  BY <1>1
<1> QED
  BY <1>1, <1>2, ElementOfSeq

LEMMA AnswerType ==
    ASSUME ServerOK, NEW k \in Keys
    PROVE  Answer(k).at = applied /\ Answer(k) \notin {Idle, Sent}
<1>1. fetchJobs \in Answers
  <2> DEFINE asked == {[id |-> i, tag |-> jobs[i].tag, state |-> jobs[i].state] :
                       i \in {i \in DOMAIN jobs : jobs[i].state \in AskedStates}}
  <2>1. ASSUME NEW i \in DOMAIN jobs, jobs[i].state \in AskedStates
        PROVE  [id |-> i, tag |-> jobs[i].tag, state |-> jobs[i].state]
                 \in [id : Nat, tag : Names, state : AskedStates]
    BY <2>1, JobMember DEF JobType
  <2>2. asked \in SUBSET [id : Nat, tag : Names, state : AskedStates]
    BY <2>1
  <2> HIDE DEF asked
  <2>3. [at |-> applied, jobs |-> asked]
          \in [at : Nat, jobs : SUBSET [id : Nat, tag : Names, state : AskedStates]]
    BY <2>2 DEF ServerOK
  <2> QED
    BY <2>3 DEF fetchJobs, Answers, asked
<1>2. fetchList \in Answers
  <2> DEFINE items == [n \in Existing |-> stored[n] = "filled"]
  <2>1. Existing \in SUBSET Names
    BY DEF Existing
  <2>2. items \in [Existing -> BOOLEAN]
    OBVIOUS
  <2>3. items \in UNION {[S -> BOOLEAN] : S \in SUBSET Names}
    <3> HIDE DEF items
    <3> QED
      BY <2>1, <2>2
  <2> HIDE DEF items
  <2>4. [at |-> applied, items |-> items]
          \in [at : Nat, items : UNION {[S -> BOOLEAN] : S \in SUBSET Names}]
    BY <2>3 DEF ServerOK
  <2> QED
    BY <2>4 DEF fetchList, Answers, items
<1>3. Answer(k) \in Answers
  BY <1>1, <1>2 DEF Answer
<1>4. Answer(k).at = applied
  BY DEF Answer, fetchJobs, fetchList
<1> QED
  BY <1>3, <1>4

-----------------------------------------------------------------------------
(* What the API says of a form.                                            *)

\* The browser has seen to every field but the select of the artifact.
LEMMA ArtifactsAccepted == \A dirs : ArtifactOutcomes(dirs) \subseteq Refusals
<1> SUFFICES ASSUME NEW dirs, NEW f \in ArtifactForms, ArtifactFormValid(f)
             PROVE  PreprocessRefusal(PreprocessPayload(f, dirs)) \in Refusals
  BY DEF ArtifactOutcomes
<1> DEFINE sent == PreprocessPayload(f, dirs)
<1>1. sent.repo_url # Blank /\ sent.tag # Blank
  BY DEF ArtifactFormValid, PreprocessPayload
<1> HIDE DEF sent
<1>2. PreprocessRefusal(sent) = Accept
  BY <1>1 DEF PreprocessRefusal
<1> QED
  BY <1>2 DEF Refusals, sent

LEMMA IndexesAccepted == IndexOutcomes \subseteq Refusals
<1> SUFFICES ASSUME NEW f \in IndexForms, IndexFormValid(f)
             PROVE  IndexRefusal(IndexPayload(f)) \in Refusals
  BY DEF IndexOutcomes
<1> DEFINE sent == IndexPayload(f)
<1>1. /\ f.chunkStrategy = "fixed" /\ f.provider \in {"openai", "lmstudio"} /\ f.concurrency = 5
      /\ f.batchSize \in {0, 20}
  <2>1. PICK p \in {"openai", "lmstudio"}, i \in {Blank, Text}, t \in {Blank, Text},
             typed \in BOOLEAN, o \in {0, 1025}, b \in {0, 20} :
          f = FilledIndexForm(p, i, t, typed, o, b)
    BY DEF IndexForms
  <2> DEFINE g == handleProviderChange(NewIndexForm, p)
  <2>2. /\ DOMAIN g = DOMAIN NewIndexForm /\ g.chunkStrategy = "fixed" /\ g.provider = p
        /\ g.concurrency = 5
    BY DEF handleProviderChange, NewIndexForm
  <2> HIDE DEF g
  <2> QED
    BY <2>1, <2>2 DEF FilledIndexForm, NewIndexForm, g
<1>2. /\ f.tag # Blank /\ f.model # Blank /\ f.batchSize \in 1 .. 100
  BY DEF IndexFormValid, IdentityCardValid, EmbeddingCardValid
<1>3. /\ sent.tag # Blank /\ sent.parser_strategy = "markdown" /\ sent.chunk_strategy = "fixed"
      /\ sent.embedding_provider \in {"openai", "lmstudio"} /\ sent.embedding_model # Blank
      /\ sent.batch_size = f.batchSize /\ sent.index_concurrency = 5 /\ sent.doc_timeout = "30m"
  BY <1>1, <1>2 DEF IndexPayload
<1> HIDE DEF sent
<1>4. ~(sent.batch_size <= 0) /\ ~(sent.index_concurrency <= 0)
  BY <1>2, <1>3
<1>5. /\ "markdown" # Blank /\ "fixed" # Blank /\ "openai" # Blank /\ "lmstudio" # Blank
      /\ "30m" # Blank
  BY DEF Blank
<1>6. IndexRefusal(sent) \in Refusals
  BY <1>3, <1>4, <1>5 DEF IndexRefusal, Refusals
<1> QED
  BY <1>6 DEF sent

LEMMA FormsAccepted == FormOutcomes \subseteq Refusals
BY ArtifactsAccepted, IndexesAccepted DEF FormOutcomes

-----------------------------------------------------------------------------
(* Steps of the server and of the jobs.                                    *)

LEMMA JobStepOK ==
    ASSUME ServerOK, NEW i \in DOMAIN jobs, NEW job \in JobType, JobStep(i, job),
           stored' \in [Names -> {"absent", "empty", "filled"}]
    PROVE  ServerOK'
<1>1. jobs' = [jobs EXCEPT ![i] = job] /\ applied' = applied /\ resource' = resource
  BY DEF JobStep
<1>2. jobs' \in Seq(JobType)
  <2>1. jobs \in Seq(JobType) /\ i \in 1 .. Len(jobs)
    BY JobMember DEF ServerOK
  <2> QED
    BY <1>1, <2>1, ExceptSeq
<1> QED
  BY <1>1, <1>2 DEF ServerOK

LEMMA JobSteps ==
    ASSUME ServerOK, NEW i \in DOMAIN jobs, RunJob(i)
    PROVE  ServerOK'
<1> DEFINE T == {"absent", "empty", "filled"}
<1>1. jobs[i] \in JobType /\ stored \in [Names -> T]
  BY JobMember DEF ServerOK
<1>2. ASSUME NEW state \in JobStates PROVE [jobs[i] EXCEPT !.state = state] \in JobType
  BY <1>1 DEF JobType
<1>3. ASSUME NEW state \in JobStates
      PROVE  [jobs[i] EXCEPT !.state = state, !.made = FALSE] \in JobType
  BY <1>1 DEF JobType
<1>4. [jobs[i] EXCEPT !.made = TRUE] \in JobType
  BY <1>1 DEF JobType
<1>5. /\ "running" \in JobStates /\ "completed" \in JobStates /\ "retrying" \in JobStates
      /\ "failed" \in JobStates
  BY DEF JobStates
<1>6. CASE StartJob(i)
  BY <1>1, <1>2, <1>5, <1>6, JobStepOK DEF StartJob
<1>7. CASE Make(i)
  <2>1. stored' \in [Names -> T]
    BY <1>1, <1>7 DEF Make
  <2> QED
    BY <1>4, <1>7, <2>1, JobStepOK DEF Make
<1>8. CASE CompleteJob(i)
  <2>1. stored' \in [Names -> T]
    BY <1>1, <1>8 DEF CompleteJob
  <2> QED
    BY <1>3, <1>5, <1>8, <2>1, JobStepOK DEF CompleteJob
<1>9. CASE FailJob(i)
  BY <1>1, <1>3, <1>5, <1>9, JobStepOK DEF FailJob
<1> QED
  BY <1>6, <1>7, <1>8, <1>9 DEF RunJob

\* A request of the user that is carried out, or refused.
LEMMA CarryOutStep ==
    ASSUME ServerOK, NEW c \in calls, CallOK(c), CarryOut(c)
    PROVE  /\ ServerOK' /\ applied <= applied'
           /\ \A d \in calls' : \/ d \in calls
                                \/ /\ applied' = applied + 1
                                   /\ d = [c EXCEPT !.phase = "done", !.at = applied + 1]
<1>1. resource' = resource /\ applied \in Nat /\ applied <= applied
  BY DEF CarryOut, ServerOK
<1>2. ASSUME Refuses(c)
      PROVE  ServerOK' /\ applied <= applied' /\ calls' \subseteq calls
  BY <1>1, <1>2 DEF Refuses, EndsInError, serverVars, ServerOK
<1>3. ASSUME Applies(c)
      PROVE  /\ applied' = applied + 1 /\ applied' \in Nat /\ applied <= applied'
             /\ \A d \in calls' : \/ d \in calls
                                  \/ d = [c EXCEPT !.phase = "done", !.at = applied + 1]
  BY <1>1, <1>3 DEF Applies
<1>4. CASE InsertJob(c)
  <2>1. CASE c.refusal = Accept
    <3> DEFINE job == [tag |-> c.tag, state |-> "available", made |-> FALSE]
    <3>1. Applies(c) /\ stored' = stored /\ jobs' = Append(jobs, job) /\ c.op = "create"
      BY <1>4, <2>1 DEF InsertJob
    <3>2. job \in JobType
      BY <3>1 DEF CallOK, JobType, JobStates
    <3> HIDE DEF job
    <3>3. jobs' \in Seq(JobType)
      <4>1. jobs \in Seq(JobType)
        BY DEF ServerOK
      <4> QED
        BY <3>1, <3>2, <4>1, AppendProperties
    <3> QED
      BY <1>1, <1>3, <3>1, <3>3 DEF ServerOK
  <2>2. CASE c.refusal # Accept
    BY <1>2, <1>4, <2>2 DEF InsertJob
  <2> QED
    BY <2>1, <2>2
<1>5. CASE StoreFile(c)
  <2>1. ASSUME Applies(c), stored' = [stored EXCEPT ![c.tag] = "filled"], jobs' = jobs
        PROVE  ServerOK'
    BY <1>1, <1>3, <2>1 DEF ServerOK
  <2>2. ASSUME stored' = [stored EXCEPT ![c.tag] = "absent"], EndsInError(c),
               UNCHANGED <<jobs, applied>>
        PROVE  ServerOK' /\ applied <= applied' /\ calls' \subseteq calls
    BY <1>1, <2>2 DEF ServerOK, EndsInError
  <2> QED
    BY <1>2, <1>3, <1>5, <2>1, <2>2 DEF StoreFile
<1>6. CASE RemoveEntry(c)
  <2>1. ASSUME Applies(c), stored' = [stored EXCEPT ![c.tag] = "absent"], jobs' = jobs
        PROVE  ServerOK'
    BY <1>1, <1>3, <2>1 DEF ServerOK
  <2> QED
    BY <1>2, <1>3, <1>6, <2>1 DEF RemoveEntry
<1> QED
  BY <1>4, <1>5, <1>6 DEF CarryOut

-----------------------------------------------------------------------------
(* The invariant of the list pages.                                        *)

\* Where one query changes and nothing else the cache is compared with.
LEMMA OneQueryFresh ==
    ASSUME CacheOK, NEW k \in Keys, NEW new, FreshFrom(new, acked[k]),
           query' = [query EXCEPT ![k] = new], acked' = acked, applied' = applied
    PROVE  CacheOK'
BY DEF CacheOK

\* Where the cache does not change and the server goes on.
LEMMA CacheRests ==
    ASSUME CacheOK, query' = query, acked' = acked,
           applied \in Nat, applied' \in Nat, applied <= applied'
    PROVE  CacheOK'
<1>1. ASSUME NEW k \in Keys PROVE acked[k] <= applied'
  BY DEF CacheOK
<1> QED
  BY <1>1 DEF CacheOK

LEMMA ListMountedFresh ==
    ASSUME NEW q, NEW n, NEW p,
           \A k \in Keys : FreshFrom(q[k], n[k])
    PROVE  /\ DOMAIN MountedQueries(q, p) = Keys
           /\ \A k \in Keys : FreshFrom(MountedQueries(q, p)[k], n[k])
BY QueriesFresh DEF MountedQueries

\* Who changes what the server keeps, and who does not.
LEMMA ServerSteps ==
    ASSUME ServerOK, \A c \in calls : CallOK(c), [Next]_vars
    PROVE  ServerOK' /\ applied <= applied'
<1>1. ASSUME UNCHANGED <<resource, serverVars>> PROVE ServerOK' /\ applied <= applied'
  BY <1>1 DEF ServerOK, serverVars
<1>2. CASE User \/ Client
  <2>1. UNCHANGED <<resource, serverVars>>
    BY <1>2 DEF User, Client, Go, TypeChip, AddChip, RemoveChip, RemovesChip, Backspace, SubmitForm,
       Upload, PickDelete, CancelDelete, ConfirmDelete, Search, SortBy, PrevPage, NextPage, UsesTable,
       Arrives, GetsOld, Poll, Settle
  <2> QED
    BY <1>1, <2>1
<1>3. CASE Server
  <2>1. ASSUME (\E k \in Keys : Read(k) \/ FetchFails(k)) \/ (\E c \in calls : LoseCall(c))
        PROVE  UNCHANGED <<resource, serverVars>>
    BY <2>1 DEF Read, FetchFails, LoseCall
  <2>2. ASSUME NEW c \in calls, CarryOut(c) PROVE ServerOK' /\ applied <= applied'
    BY <2>2, CarryOutStep
  <2>3. ASSUME NEW i \in DOMAIN jobs, RunJob(i) PROVE ServerOK' /\ applied <= applied'
    <3>1. applied' = applied
      BY <2>3 DEF RunJob, StartJob, Make, CompleteJob, FailJob, JobStep
    <3> QED
      BY <2>3, <3>1, JobSteps DEF ServerOK
  <2> QED
    BY <1>1, <1>3, <2>1, <2>2, <2>3 DEF Server
<1>4. CASE UNCHANGED vars
  BY <1>1, <1>4 DEF vars, serverVars
<1> QED
  BY <1>2, <1>3, <1>4 DEF Next

\* A request is made with what the form lets through, and comes back in the order of changes.
LEMMA CallSteps ==
    ASSUME ServerOK, \A c \in calls : CallOK(c), [Next]_vars
    PROVE  \A c \in calls' : CallOK(c)'
<1>1. applied \in Nat /\ applied' \in Nat /\ applied <= applied'
  BY ServerSteps DEF ServerOK
<1>2. ASSUME NEW c, CallOK(c) PROVE CallOK(c)'
  BY <1>1, <1>2 DEF CallOK
<1>3. ASSUME calls' \subseteq calls PROVE \A c \in calls' : CallOK(c)'
  BY <1>2, <1>3
<1>4. ASSUME NEW op \in {"create", "upload", "delete"}, NEW tag, NEW refusal \in Refusals,
             op = "create" => tag \in Names, NewCall(op, tag, refusal)
      PROVE  \A c \in calls' : CallOK(c)'
  <2> DEFINE new == [op |-> op, tag |-> tag, phase |-> "sent", refusal |-> refusal,
                     at |-> 0, here |-> op = "create"]
  <2>1. CallOK(new)
    BY <1>1, <1>4 DEF CallOK
  <2>2. calls' = calls \cup {new}
    BY <1>4 DEF NewCall
  <2> HIDE DEF new
  <2> QED
    BY <1>2, <2>1, <2>2
<1>5. ASSUME NEW n \in KnownNames, SubmitForm(n) PROVE \A c \in calls' : CallOK(c)'
  <2>1. n \in Names
    BY DEF KnownNames
  <2> QED
    BY <1>4, <1>5, <2>1, FormsAccepted DEF SubmitForm
<1>6. Accept \in Refusals
  BY DEF Refusals
<1>7. ASSUME NEW n \in Names, Upload(n) PROVE \A c \in calls' : CallOK(c)'
  BY <1>4, <1>6, <1>7 DEF Upload
<1>8. ASSUME ConfirmDelete PROVE \A c \in calls' : CallOK(c)'
  <2>1. PICK target : target = deleteTarget
    OBVIOUS
  <2> QED
    BY <1>4, <1>6, <1>8, <2>1 DEF ConfirmDelete
<1>9. ASSUME NEW p, Go(p) PROVE \A c \in calls' : CallOK(c)'
  <2>1. ASSUME NEW c \in calls PROVE CallOK([c EXCEPT !.here = FALSE])
    BY DEF CallOK
  <2>2. calls' = {[c EXCEPT !.here = FALSE] : c \in calls}
    BY <1>9 DEF Go
  <2> QED
    BY <1>2, <2>1, <2>2
<1>10. CASE User
  <2>1. ASSUME (\E text \in ChipTexts : TypeChip(text)) \/ AddChip
               \/ (\E chip \in ChipTexts : Contains(chips, chip) /\ RemoveChip(chip)) \/ Backspace
               \/ (\E i \in 1 .. PageSize : PickDelete(i)) \/ CancelDelete
               \/ (\E matches \in SUBSET Names : Search(matches))
               \/ (\E key \in ClickedKeys : SortBy(key)) \/ PrevPage \/ NextPage
        PROVE  calls' \subseteq calls
    BY <2>1 DEF TypeChip, AddChip, RemoveChip, RemovesChip, Backspace, PickDelete, CancelDelete,
       Search, SortBy, PrevPage, NextPage, UsesTable
  <2> QED
    BY <1>3, <1>5, <1>7, <1>8, <1>9, <1>10, <2>1 DEF User
<1>11. CASE Client
  BY <1>3, <1>11 DEF Client, Arrives, GetsOld, Poll, Settle
<1>12. CASE Server
  <2>1. ASSUME (\E k \in Keys : Read(k) \/ FetchFails(k)) \/ (\E c \in calls : LoseCall(c))
               \/ (\E i \in DOMAIN jobs : RunJob(i))
        PROVE  calls' \subseteq calls
    BY <2>1 DEF Read, FetchFails, LoseCall, EndsInError, RunJob, StartJob, Make, CompleteJob, FailJob,
       JobStep
  <2>2. ASSUME NEW c \in calls, CarryOut(c), NEW d \in calls' PROVE CallOK(d)'
    <3>1. CASE d \in calls
      BY <1>2, <3>1
    <3>2. CASE applied' = applied + 1 /\ d = [c EXCEPT !.phase = "done", !.at = applied + 1]
      <4>1. /\ d.op = c.op /\ d.tag = c.tag /\ d.refusal = c.refusal /\ d.at = applied + 1
            /\ DOMAIN d = DOMAIN c
        BY <3>2 DEF CallOK
      <4> QED
        BY <1>1, <3>2, <4>1 DEF CallOK
    <3> QED
      BY <2>2, <3>1, <3>2, CarryOutStep
  <2> QED
    BY <1>3, <1>12, <2>1, <2>2 DEF Server
<1>13. CASE UNCHANGED vars
  BY <1>3, <1>13 DEF vars
<1> QED
  BY <1>10, <1>11, <1>12, <1>13 DEF Next

\* onSuccess: the query that was changed is marked, and asked for again or told.
LEMMA SettleStep ==
    ASSUME ListInv, NEW c \in calls, Settle(c)
    PROVE  CacheOK' /\ DOMAIN acked' = Keys
<1> DEFINE keys == Invalidates(c.op)
           invalidated == [k \in Keys |-> IF k \in keys
                                          THEN Invalidated(query[k], Active(page, k)) ELSE query[k]]
<1>1. /\ query' = invalidated \/ query' = MountedQueries(invalidated, "list")
      /\ acked' = [acked EXCEPT ![Changes(c.op)] = IF @ < c.at THEN c.at ELSE @]
      /\ applied' = applied
  BY DEF Settle, serverVars
<1>2. CallOK(c) /\ applied \in Nat /\ DOMAIN acked = Keys /\ CacheOK
  BY DEF ListInv, ServerOK
<1>3. keys = {Changes(c.op)} /\ Changes(c.op) \in Keys
  BY <1>2 DEF CallOK, Invalidates, createInvalidates, deleteInvalidates, uploadInvalidates, Changes, Keys
<1>4. ASSUME NEW k \in Keys PROVE acked'[k] \in Nat /\ acked'[k] <= applied'
  BY <1>1, <1>2 DEF CallOK, CacheOK
<1>5. ASSUME NEW k \in Keys PROVE FreshFrom(invalidated[k], acked'[k])
  <2>1. FreshFrom(query[k], acked[k]) /\ DOMAIN query[k] = Fields
    BY <1>2 DEF CacheOK, FreshFrom
  <2>2. CASE k \in keys
    <3>1. invalidated[k] = Invalidated(query[k], Active(page, k))
      BY <2>2
    <3> QED
      BY <2>1, <3>1, InvalidatedFresh
  <2>3. CASE k \notin keys
    <3>1. invalidated[k] = query[k] /\ acked'[k] = acked[k]
      BY <1>1, <1>2, <1>3, <2>3
    <3> QED
      BY <2>1, <3>1
  <2> QED
    BY <2>2, <2>3
<1>6. DOMAIN query' = Keys /\ \A k \in Keys : FreshFrom(query'[k], acked'[k])
  <2>1. DOMAIN invalidated = Keys
    OBVIOUS
  <2> HIDE DEF invalidated
  <2>2. /\ DOMAIN MountedQueries(invalidated, "list") = Keys
        /\ \A k \in Keys : FreshFrom(MountedQueries(invalidated, "list")[k], acked'[k])
    BY <1>5, ListMountedFresh
  <2> QED
    BY <1>1, <1>5, <2>1, <2>2
<1>7. DOMAIN acked' = Keys
  BY <1>1, <1>2
<1> QED
  BY <1>4, <1>6, <1>7 DEF CacheOK

LEMMA CacheSteps ==
    ASSUME ListInv, [Next]_vars
    PROVE  CacheOK' /\ DOMAIN acked' = Keys
<1>1. /\ ServerOK /\ CacheOK /\ DOMAIN acked = Keys /\ DOMAIN query = Keys
      /\ applied \in Nat /\ applied' \in Nat /\ applied <= applied'
      /\ \A k \in Keys : FreshFrom(query[k], acked[k])
  BY ServerSteps DEF ListInv, ServerOK, CacheOK
<1>2. ASSUME UNCHANGED <<query, acked>> PROVE CacheOK' /\ DOMAIN acked' = Keys
  BY <1>1, <1>2, CacheRests
<1>3. ASSUME NEW k \in Keys, NEW new, FreshFrom(new, acked[k]),
             query' = [query EXCEPT ![k] = new], acked' = acked, applied' = applied
      PROVE  CacheOK' /\ DOMAIN acked' = Keys
  BY <1>1, <1>3, OneQueryFresh
<1>4. ASSUME NEW p, Go(p) PROVE CacheOK' /\ DOMAIN acked' = Keys
  <2>1. query' = MountedQueries(query, p) /\ acked' = acked /\ applied' = applied
    BY <1>4 DEF Go, serverVars
  <2>2. DOMAIN query' = Keys /\ \A k \in Keys : FreshFrom(query'[k], acked[k])
    BY <1>1, <2>1, ListMountedFresh
  <2> QED
    BY <1>1, <2>1, <2>2 DEF CacheOK
<1>5. CASE User
  <2>1. ASSUME ~ \E p \in {"list", Elsewhere} : Go(p) PROVE UNCHANGED <<query, acked>>
    BY <1>5, <2>1 DEF User, TypeChip, AddChip, RemoveChip, RemovesChip, Backspace, SubmitForm,
       Upload, PickDelete, CancelDelete, ConfirmDelete, Search, SortBy, PrevPage, NextPage, UsesTable
  <2> QED
    BY <1>2, <1>4, <2>1
<1>6. ASSUME NEW k \in Keys, Read(k) PROVE CacheOK' /\ DOMAIN acked' = Keys
  <2>1. Answer(k) \notin {Idle, Sent} /\ Answer(k).at >= acked[k]
    BY <1>1, AnswerType DEF CacheOK
  <2>2. FreshFrom(Answered(query[k], Answer(k)), acked[k])
    BY <1>1, <2>1, AnsweredFresh
  <2> QED
    BY <1>3, <1>6, <2>2 DEF Read, serverVars
<1>7. ASSUME NEW k \in Keys, Arrives(k) \/ FetchFails(k) \/ GetsOld(k)
      PROVE  CacheOK' /\ DOMAIN acked' = Keys
  BY <1>1, <1>3, <1>7, QueriesFresh DEF Arrives, HasAnswer, FetchFails, GetsOld, serverVars
<1>8. ASSUME Poll PROVE CacheOK' /\ DOMAIN acked' = Keys
  <2>1. "jobs" \in Keys
    BY DEF Keys
  <2> QED
    BY <1>1, <1>3, <1>8, <2>1, QueriesFresh DEF Poll, serverVars
<1>9. ASSUME (\E c \in calls : CarryOut(c) \/ LoseCall(c)) \/ (\E i \in DOMAIN jobs : RunJob(i))
      PROVE  UNCHANGED <<query, acked>>
  BY <1>9 DEF CarryOut, LoseCall, RunJob, StartJob, Make, CompleteJob, FailJob, JobStep
<1>10. CASE UNCHANGED vars
  BY <1>2, <1>10 DEF vars
<1> QED
  BY <1>2, <1>5, <1>6, <1>7, <1>8, <1>9, <1>10, SettleStep DEF Next, Client, Server

LEMMA ListInitInv == Init => ListInv
<1> SUFFICES ASSUME Init PROVE ListInv
  OBVIOUS
<1>1. ServerOK
  <2>1. <<>> \in Seq(JobType)
    OBVIOUS
  <2> QED
    BY <2>1 DEF ServerOK, Init
<1>2. \A c \in calls : CallOK(c)
  BY DEF Init
<1>3. FreshFrom(NewQuery, 0)
  BY DEF FreshFrom, NewQuery, Fields
<1>4. CacheOK /\ DOMAIN acked = Keys
  <2>1. query = [k \in Keys |-> NewQuery] /\ acked = [k \in Keys |-> 0] /\ applied = 0
    BY DEF Init
  <2> QED
    BY <1>3, <2>1 DEF CacheOK
<1> QED
  BY <1>1, <1>2, <1>4 DEF ListInv

(* ListInv holds in every state a list page, its form and the server can   *)
(* reach: any resource, names, number of jobs, requests and faults.        *)
THEOREM ListInvariance == Spec => []ListInv
<1>1. Init => ListInv
  BY ListInitInv
<1>2. ListInv /\ [Next]_vars => ListInv'
  BY ServerSteps, CallSteps, CacheSteps DEF ListInv
<1> QED
  BY <1>1, <1>2, PTL DEF Spec

(* Fresh data never lack an acknowledged change of the user, but where the *)
(* invalidation met a fetch it did not replace: however fetches, polls,    *)
(* changes, moves between pages and failures are interleaved, onSuccess of *)
(* every hook invalidates the one query its request changes.               *)
THEOREM FreshData == Spec => []FreshShowsOwnChanges
<1>1. ListInv => FreshShowsOwnChanges
  <2>1. ASSUME ListInv, NEW k \in Used,
               query[k].data # NoData, ~query[k].stale, ~Fetching(query[k])
        PROVE  query[k].data.at >= acked[k] \/ query[k].overtaken
    <3>1. k \in Keys
      BY DEF Used, Keys
    <3> QED
      BY <2>1, <3>1 DEF ListInv, CacheOK, FreshFrom, Fetching
  <2> QED
    BY <2>1 DEF FreshShowsOwnChanges
<1> QED
  BY <1>1, ListInvariance, PTL

(* Whatever is filled in on ArtifactCreate and IndexCreate, the API's only *)
(* complaint about what the browser submits is the artifact that was not   *)
(* selected.                                                               *)
THEOREM OnlyTheSourceIsRefused == Spec => []RefusedOnlyForTheSource
<1>1. ListInv => RefusedOnlyForTheSource
  BY DEF ListInv, CallOK, Refusals, RefusedOnlyForTheSource
<1> QED
  BY <1>1, ListInvariance, PTL

-----------------------------------------------------------------------------
(* What a list page shows of the cache.                                    *)

\* An answer, of a server that has made n changes for the user.
AnswerOK(k, answer, n) ==
    /\ answer.at \in 0 .. n
    /\ IF k = "jobs"
       THEN /\ answer.jobs \in SUBSET [id : 1 .. MaxJobs, tag : Names, state : AskedStates]
            /\ \A i, j \in answer.jobs : i.id = j.id => i = j
       ELSE /\ DOMAIN answer.items \in SUBSET Names
            /\ answer.items \in [DOMAIN answer.items -> BOOLEAN]

CachedOK(k, q, n) ==
    /\ q.data = NoData \/ AnswerOK(k, q.data, n)
    /\ q.wire \in {Idle, Sent} \/ AnswerOK(k, q.wire, n)

Row == [name : Names, filled : BOOLEAN, pending : BOOLEAN, job : 0 .. MaxJobs,
        state : AskedStates \cup {"none"}]

LEMMA SetToSeqLists ==
    ASSUME NEW S, IsFiniteSet(S)
    PROVE  Cardinality(S) \in Nat /\ SetToSeq(S) \in [1 .. Cardinality(S) -> S]
<1>1. Cardinality(S) \in Nat /\ ExistsBijection(1 .. Cardinality(S), S)
  BY FS_CardinalityType
<1>2. \E f \in [1 .. Cardinality(S) -> S] : IsInjective(f)
  BY <1>1 DEF ExistsBijection, Bijection, Injection, IsInjective
<1> QED
  BY <1>1, <1>2 DEF SetToSeq

LEMMA ListedAreRows ==
    ASSUME NEW q, NEW n, CachedOK("list", q["list"], n)
    PROVE  ListedRows(q) \in Seq(Row)
<1> DEFINE S == DOMAIN Items(q)
           names == SetToSeq(S)
<1>1. S \in SUBSET Names /\ \A x \in S : Items(q)[x] \in BOOLEAN
  <2>1. CASE q["list"].data = NoData
    BY <2>1 DEF Items
  <2>2. CASE q["list"].data # NoData
    BY <2>2 DEF CachedOK, AnswerOK, Items
  <2> QED
    BY <2>1, <2>2
<1>2. Cardinality(S) \in Nat /\ names \in [1 .. Cardinality(S) -> S]
  <2>1. IsFiniteSet(S)
    BY <1>1, FS_Subset
  <2> HIDE DEF S
  <2> QED
    BY <2>1, SetToSeqLists
<1>3. ListedRows(q) = [i \in DOMAIN names |-> ListedRow(q, names[i])]
  BY DEF ListedRows
<1> HIDE DEF S, names
<1>4. \A x \in S : ListedRow(q, x) \in Row
  BY <1>1 DEF ListedRow, Row
<1>5. \A i \in 1 .. Cardinality(S) : ListedRow(q, names[i]) \in Row
  BY <1>2, <1>4
<1> QED
  BY <1>2, <1>3, <1>5

\* The jobs in the order of their ids.
JobOrder(J) ==
    [k \in 1 .. Cardinality(J) |-> CHOOSE x \in J : Cardinality({y \in J : y.id < x.id}) = k - 1]

LEMMA PendingAreRows ==
    ASSUME NEW J \in SUBSET [id : 1 .. MaxJobs, tag : Names, state : AskedStates],
           \A i, j \in J : i.id = j.id => i = j
    PROVE  [i \in 1 .. Cardinality(J) |-> PendingRow(JobOrder(J)[i])] \in Seq(Row)
<1> DEFINE r == [j \in J |-> j.id]
<1>1. r \in [J -> 1 .. MaxJobs] /\ \A x, y \in J : r[x] = r[y] => x = y
  OBVIOUS
<1>2. IsFiniteSet(J) /\ Cardinality(J) \in Nat
  <2>1. IsFiniteSet(1 .. MaxJobs)
    BY 1 \in Int, MaxJobs \in Int, FS_Interval
  <2> HIDE DEF r
  <2>2. r \in Injection(J, 1 .. MaxJobs)
    BY <1>1 DEF Injection, IsInjective
  <2> QED
    BY <2>1, <2>2, FS_Injection, FS_CardinalityType
<1>3. InOrder(J, r) \in [1 .. Cardinality(J) -> J]
  <2>1. r \in [J -> Int]
    BY <1>1
  <2> HIDE DEF r
  <2> QED
    BY <1>1, <1>2, <2>1, EveryPlaceIsTaken
<1>4. ASSUME NEW k \in 1 .. Cardinality(J) PROVE JobOrder(J)[k] \in J
  <2>1. \A x \in J : Below(J, r, x) = {y \in J : y.id < x.id}
    BY DEF Below
  <2> HIDE DEF r
  <2>2. InOrder(J, r)[k] = CHOOSE x \in J : Cardinality(Below(J, r, x)) = k - 1
    BY DEF InOrder
  <2>3. JobOrder(J)[k] = CHOOSE x \in J : Cardinality({y \in J : y.id < x.id}) = k - 1
    BY DEF JobOrder
  <2>4. (CHOOSE x \in J : Cardinality(Below(J, r, x)) = k - 1)
        = CHOOSE x \in J : Cardinality({y \in J : y.id < x.id}) = k - 1
    BY <2>1
  <2>5. JobOrder(J)[k] = InOrder(J, r)[k]
    BY <2>2, <2>3, <2>4
  <2> QED
    BY <1>3, <2>5
<1>5. \A j \in J : PendingRow(j) \in Row
  BY DEF PendingRow, Row
<1>6. \A i \in 1 .. Cardinality(J) : PendingRow(JobOrder(J)[i]) \in Row
  BY <1>4, <1>5
<1> QED
  BY <1>2, <1>6

LEMMA ShownAreRows ==
    ASSUME resource \in Resources, NEW q, NEW n, \A k \in Keys : CachedOK(k, q[k], n)
    PROVE  Rows(q) \in Seq(Row)
<1> DEFINE J == {j \in Polled(q) : j.tag \notin DOMAIN Items(q)}
           pending == [i \in 1 .. Cardinality(J) |-> PendingRow(JobOrder(J)[i])]
<1>1. CachedOK("list", q["list"], n) /\ CachedOK("jobs", q["jobs"], n)
  BY DEF Keys
<1>2. ListedRows(q) \in Seq(Row)
  BY <1>1, ListedAreRows
<1>3. pending \in Seq(Row)
  <2>1. /\ Polled(q) \in SUBSET [id : 1 .. MaxJobs, tag : Names, state : AskedStates]
        /\ \A i, j \in Polled(q) : i.id = j.id => i = j
    BY <1>1 DEF CachedOK, AnswerOK, Polled
  <2>2. /\ J \in SUBSET [id : 1 .. MaxJobs, tag : Names, state : AskedStates]
        /\ \A i, j \in J : i.id = j.id => i = j
    BY <2>1
  <2> HIDE DEF J
  <2> QED
    BY <2>2, PendingAreRows
<1>4. mergedIndexes(q) = ListedRows(q) \o pending
  BY DEF mergedIndexes, SortedBy, JobOrder
<1>5. mergedArtifacts(q) = ListedRows(q) \o pending
  BY DEF mergedArtifacts, SortedBy, JobOrder
<1> HIDE DEF pending
<1>6. ListedRows(q) \o pending \in Seq(Row)
  BY <1>2, <1>3
<1> QED
  BY <1>2, <1>4, <1>5, <1>6 DEF Rows

-----------------------------------------------------------------------------
(* The page of the table.                                                  *)

\* A behaviour is about one resource, so the next view is that of the next cache.
LEMMA NextView ==
    ASSUME resource' = resource
    PROVE  Rows(query)' = Rows(query') /\ HasTable(page, query)' = HasTable(page', query')
<1>1. Rows(query)' = Rows(query')
  BY DEF Rows, mergedIndexes, mergedArtifacts, ListedRows, ListedRow, PendingRow, Items, Polled, HasJobs, SortedBy
<1>2. IsLoading(query)' = IsLoading(query')
  BY DEF IsLoading, Used, HasJobs, Loading, Fetching, Keys
<1>3. View(query)' = View(query')
  BY <1>1, <1>2 DEF View, IndexesView, ArtifactsView, DatasetsView
<1> QED
  BY <1>1, <1>3 DEF HasTable

\* The page is the first, or rows that match the filter are on it.
InRange(t, rows) == t.page = 1 \/ (t.page - 1) * PageSize < Cardinality(Matches(t, rows))

TableOK ==
    /\ table \in TableOf(SortableKeys) /\ shrunk \in BOOLEAN
    /\ (Works /\ HasTable(page, query)) \/ table = FreshTable
    /\ HasTable(page, query) /\ ~shrunk => InRange(table, Rows(query))

NameCount(rows, n) == Cardinality({i \in DOMAIN rows : rows[i].name = n})

LEMMA NameCountType == ASSUME NEW rows \in Seq(Row), NEW n PROVE NameCount(rows, n) \in Nat
<1>1. Len(rows) \in Int /\ DOMAIN rows = 1 .. Len(rows)
  OBVIOUS
<1>2. IsFiniteSet(1 .. Len(rows))
  BY <1>1, 1 \in Int, FS_Interval
<1>3. {i \in DOMAIN rows : rows[i].name = n} \in SUBSET (1 .. Len(rows))
  BY <1>1
<1> QED
  BY <1>2, <1>3, FS_Subset, FS_CardinalityType DEF NameCount

\* Where no name has lost a row, no filter has.
LEMMA MatchesStay ==
    ASSUME NEW before \in Seq(Row), NEW after \in Seq(Row),
           \A n \in Names : NameCount(before, n) <= NameCount(after, n),
           NEW t, t.matches \in SUBSET Names
    PROVE  Cardinality(Matches(t, before)) <= Cardinality(Matches(t, after))
<1> DEFINE A == DOMAIN before
           B == DOMAIN after
           f == [i \in A |-> before[i].name]
           g == [i \in B |-> after[i].name]
           M == t.matches
<1>1. IsFiniteSet(A) /\ IsFiniteSet(B)
  <2>1. Len(before) \in Int /\ Len(after) \in Int /\ A = 1 .. Len(before) /\ B = 1 .. Len(after)
    OBVIOUS
  <2> HIDE DEF A, B
  <2> QED
    BY <2>1, 1 \in Int, FS_Interval
<1>2. \A n \in M : Cardinality({i \in A : f[i] = n}) <= Cardinality({i \in B : g[i] = n})
  <2> SUFFICES ASSUME NEW n \in M
               PROVE  Cardinality({i \in A : f[i] = n}) <= Cardinality({i \in B : g[i] = n})
    OBVIOUS
  <2>1. {i \in A : f[i] = n} = {i \in A : before[i].name = n}
        /\ {i \in B : g[i] = n} = {i \in B : after[i].name = n}
    OBVIOUS
  <2>2. Cardinality({i \in A : before[i].name = n}) <= Cardinality({i \in B : after[i].name = n})
    BY DEF NameCount
  <2> HIDE DEF A, B, f, g
  <2> QED
    BY <2>1, <2>2
<1>3. InClasses(A, f, M) = Matches(t, before) /\ InClasses(B, g, M) = Matches(t, after)
  BY DEF Matches, InClasses
<1> HIDE DEF A, B, f, g, M
<1>4. Cardinality(InClasses(A, f, M)) <= Cardinality(InClasses(B, g, M))
  BY <1>1, <1>2, CountsAddUp
<1> QED
  BY <1>3, <1>4

\* The rows under the table change, or it is shown, or gone.
LEMMA TableAfterOK ==
    ASSUME resource \in Resources, resource' = resource, TableOK,
           Rows(query) \in Seq(Row), Rows(query') \in Seq(Row),
           NEW t \in {table, FreshTable}, TableAfter(t)
    PROVE  TableOK'
<1>1. SortableKeys' = SortableKeys /\ Works' = Works
  BY DEF SortableKeys, Works
<1>2. FreshTable \in TableOf(SortableKeys) /\ FreshTable.page = 1
  BY DEF FreshTable, TableOf
<1>3. /\ table' = IF Works /\ HasTable(page', query') THEN t ELSE FreshTable
      /\ shrunk' = (/\ Works /\ HasTable(page', query')
                    /\ \/ shrunk
                       \/ /\ HasTable(page, query)
                          /\ \E n \in Names : RowsOf(query', n) < RowsOf(query, n))
  BY DEF TableAfter
<1>4. table' \in {table, FreshTable} /\ table' \in TableOf(SortableKeys)
  BY <1>2, <1>3 DEF TableOK
<1>5. shrunk' \in BOOLEAN
  BY <1>3
<1>6. (Works /\ HasTable(page', query')) \/ table' = FreshTable
  BY <1>3
<1>7. ASSUME HasTable(page', query'), ~shrunk' PROVE InRange(table', Rows(query'))
  <2>1. CASE table' = FreshTable
    BY <1>2, <2>1 DEF InRange
  <2>2. CASE table' = table /\ table # FreshTable
    <3>1. Works /\ HasTable(page, query)
      BY <2>2 DEF TableOK
    <3>2. ~shrunk /\ ~\E n \in Names : RowsOf(query', n) < RowsOf(query, n)
      BY <1>3, <1>7, <3>1
    <3>3. InRange(table, Rows(query))
      BY <3>1, <3>2 DEF TableOK
    <3>4. \A n \in Names : NameCount(Rows(query), n) <= NameCount(Rows(query'), n)
      <4> SUFFICES ASSUME NEW n \in Names
                   PROVE  NameCount(Rows(query), n) <= NameCount(Rows(query'), n)
        OBVIOUS
      <4>1. ~(RowsOf(query', n) < RowsOf(query, n))
        BY <3>2
      <4>2. RowsOf(query', n) = NameCount(Rows(query'), n) /\ RowsOf(query, n) = NameCount(Rows(query), n)
        BY DEF RowsOf, NameCount
      <4>3. NameCount(Rows(query'), n) \in Nat /\ NameCount(Rows(query), n) \in Nat
        BY NameCountType
      <4> QED
        BY <4>1, <4>2, <4>3
    <3>5. table.matches \in SUBSET Names /\ table.page \in Nat \ {0}
      BY DEF TableOK, TableOf
    <3>6. Cardinality(Matches(table, Rows(query))) <= Cardinality(Matches(table, Rows(query')))
      BY <3>4, <3>5, MatchesStay
    <3>7. /\ Cardinality(Matches(table, Rows(query))) \in Nat
          /\ Cardinality(Matches(table, Rows(query'))) \in Nat
      BY FilteredRows
    <3>8. (table.page - 1) * PageSize \in Int
      BY <3>5
    <3> QED
      BY <2>2, <3>3, <3>6, <3>7, <3>8 DEF InRange
  <2> QED
    BY <1>4, <2>1, <2>2
<1>8. Rows(query)' = Rows(query') /\ HasTable(page, query)' = HasTable(page', query')
  BY NextView
<1> QED
  BY <1>1, <1>4, <1>5, <1>6, <1>7, <1>8 DEF TableOK

\* As many pages as the rows that match need.
LEMMA PagesNeeded ==
    ASSUME NEW y \in Nat, NEW d \in Nat \ {0}, NEW p \in Nat, p < (y + d - 1) \div d
    PROVE  p * d < y
<1>1. y + d - 1 \in Nat
  OBVIOUS
<1>2. (p + 1) * d <= y + d - 1
  <2>1. PICK z \in Nat : z = y + d - 1
    BY <1>1
  <2>2. p < z \div d
    BY <2>1
  <2>3. (p + 1) * d <= z
    BY <2>2
  <2> QED
    BY <2>1, <2>3
<1>3. (p + 1) * d = p * d + d /\ p * d \in Nat
  OBVIOUS
<1> QED
  BY <1>2, <1>3

\* The search box, the headers and the pager.
LEMMA TableActions ==
    ASSUME resource \in Resources, TableOK, Rows(query) \in Seq(Row),
           \/ \E matches \in SUBSET Names : Search(matches)
           \/ \E key \in ClickedKeys : SortBy(key)
           \/ PrevPage
           \/ NextPage
    PROVE  TableOK'
<1> DEFINE T == TableOf(SortableKeys)
           size == Cardinality(Matches(table, Rows(query)))
<1>1. /\ Works /\ HasTable(page, query) /\ resource' = resource /\ page' = page /\ query' = query
      /\ table \in T /\ shrunk \in BOOLEAN
  BY DEF Search, SortBy, PrevPage, NextPage, UsesTable, TableOK
<1>2. ASSUME table' \in T, shrunk' \in BOOLEAN, ~shrunk' => InRange(table', Rows(query))
      PROVE  TableOK'
  <2>1. SortableKeys' = SortableKeys /\ Works' = Works
    BY <1>1 DEF SortableKeys, Works
  <2>2. Rows(query)' = Rows(query') /\ HasTable(page, query)' = HasTable(page', query')
    BY <1>1, NextView
  <2> QED
    BY <1>1, <1>2, <2>1, <2>2 DEF TableOK
<1>3. ASSUME NEW matches \in SUBSET Names, Search(matches) PROVE TableOK'
  <2>1. table' = Searched(table, matches) /\ shrunk' = FALSE
    BY <1>3 DEF Search
  <2>2. table' \in T /\ table'.page = 1
    BY <1>1, <2>1, TableChanges
  <2> QED
    BY <1>2, <2>1, <2>2 DEF InRange
<1>4. ASSUME NEW key \in ClickedKeys, SortBy(key) PROVE TableOK'
  <2>1. table' = handleSort(table, key) /\ shrunk' = FALSE /\ key \in SortableKeys
    BY <1>4 DEF SortBy
  <2>2. \A k \in SortableKeys : handleSort(table, k) \in T /\ handleSort(table, k).page = 1
    BY <1>1, TableChanges
  <2>3. table' \in T /\ table'.page = 1
    BY <2>1, <2>2
  <2> QED
    BY <1>2, <2>1, <2>3 DEF InRange
<1>5. /\ size \in Nat /\ Len(Filtered(table, Rows(query))) = size
      /\ table.page \in Nat \ {0} /\ PageSize \in Nat \ {0}
  BY <1>1, FilteredRows DEF TableOf
<1>6. ASSUME PrevPage PROVE TableOK'
  <2>1. table' = ToPrev(table) /\ shrunk' = shrunk /\ table.page > 1
    BY <1>6 DEF PrevPage, CanPrev
  <2>2. table' \in T /\ table'.page = table.page - 1 /\ table'.matches = table.matches
    BY <1>1, <1>5, <2>1, TableChanges
  <2>3. ASSUME ~shrunk' PROVE InRange(table', Rows(query))
    <3>1. (table.page - 1) * PageSize < size
      BY <1>1, <1>5, <2>1, <2>3 DEF TableOK, InRange
    <3>2. (table'.page - 1) * PageSize <= (table.page - 1) * PageSize
      <4>1. table'.page - 1 \in Int /\ table.page - 1 \in Int /\ table'.page - 1 <= table.page - 1
        BY <1>5, <2>1, <2>2
      <4> HIDE DEF size
      <4>2. PICK a1 \in Int, b1 \in Int : a1 = table'.page - 1 /\ b1 = table.page - 1
        BY <4>1
      <4>3. a1 <= b1
        BY <4>1, <4>2
      <4>4. a1 * PageSize <= b1 * PageSize
        BY <1>5, <4>3
      <4> QED
        BY <4>2, <4>4
    <3>3. Matches(table', Rows(query)) = Matches(table, Rows(query))
      BY <2>2 DEF Matches
    <3>4. /\ (table'.page - 1) * PageSize \in Int /\ (table.page - 1) * PageSize \in Int
      BY <1>5, <2>2
    <3> HIDE DEF size
    <3>5. (table'.page - 1) * PageSize < size
      BY <1>5, <3>1, <3>2, <3>4
    <3> QED
      BY <3>3, <3>5 DEF InRange, size
  <2> QED
    BY <1>1, <1>2, <2>1, <2>2, <2>3
<1>7. ASSUME NextPage PROVE TableOK'
  <2>1. /\ table' = ToNext(table) /\ shrunk' = shrunk
        /\ table.page < (Len(Filtered(table, Rows(query))) + PageSize - 1) \div PageSize
    BY <1>7 DEF NextPage, CanNext, TotalPages
  <2>2. table' \in T /\ table'.page = table.page + 1 /\ table'.matches = table.matches
    BY <1>1, <1>5, <2>1, TableChanges
  <2>3. table.page * PageSize < size
    <3> HIDE DEF size
    <3>1. table.page < (size + PageSize - 1) \div PageSize /\ table.page \in Nat
      BY <1>5, <2>1
    <3> QED
      BY <1>5, <3>1, PagesNeeded
  <2>4. Matches(table', Rows(query)) = Matches(table, Rows(query)) /\ table'.page - 1 = table.page
    BY <1>5, <2>2 DEF Matches
  <2>5. InRange(table', Rows(query))
    BY <2>3, <2>4 DEF InRange
  <2> QED
    BY <1>1, <1>2, <2>1, <2>2, <2>5
<1> QED
  BY <1>3, <1>4, <1>6, <1>7

\* An empty page of a table with rows is one that rows have left.
LEMMA OutOfRangeIsEmpty ==
    ASSUME TableOK, Rows(query) \in Seq(Row)
    PROVE  EmptyPageMeansShrunk
<1> SUFFICES ASSUME HasTable(page, query), ShowsNoData(table, Rows(query)),
                    Found(table, Rows(query)) # <<>>, ~shrunk
             PROVE  FALSE
  BY DEF TableOK, EmptyPageMeansShrunk
<1>1. table.page \in Nat \ {0} /\ InRange(table, Rows(query))
  BY DEF TableOK, TableOf
<1>2. ~((table.page - 1) * PageSize < Cardinality(Matches(table, Rows(query))))
  BY <1>1, PagedRows
<1>3. /\ Found(table, Rows(query)) \in Seq(Row)
      /\ Len(Found(table, Rows(query))) = Cardinality(Matches(table, Rows(query)))
  BY FilteredRows
<1>4. 0 < Cardinality(Matches(table, Rows(query)))
  BY <1>3
<1> QED
  BY <1>1, <1>2, <1>4 DEF InRange

-----------------------------------------------------------------------------
(* Requests: their types and their number.                                 *)

CallType == [op : {"create", "upload", "delete"}, tag : Names, phase : {"sent", "done"},
             refusal : Verdicts, at : Nat, here : BOOLEAN]

LEMMA Verdict == ASSUME resource \in Resources PROVE FormOutcomes \subseteq Verdicts
<1>1. ArtifactOutcomes(chips) \subseteq ArtifactOutcomes(<<>>)
  <2> SUFFICES ASSUME NEW f \in ArtifactForms, ArtifactFormValid(f)
               PROVE  PreprocessRefusal(PreprocessPayload(f, chips)) \in ArtifactOutcomes(<<>>)
    BY DEF ArtifactOutcomes
  <2>1. PreprocessRefusal(PreprocessPayload(f, <<>>)) \in ArtifactOutcomes(<<>>)
    BY DEF ArtifactOutcomes
  <2>2. PreprocessRefusal(PreprocessPayload(f, chips)) = PreprocessRefusal(PreprocessPayload(f, <<>>))
    BY DEF PreprocessRefusal, PreprocessPayload
  <2> QED
    BY <2>1, <2>2
<1> QED
  BY <1>1 DEF FormOutcomes, Verdicts

\* A request as it is made, left by its form, and carried out.
LEMMA CallChanges ==
    /\ \A op \in {"create", "upload", "delete"}, tag \in Names, refusal \in Verdicts :
          [op |-> op, tag |-> tag, phase |-> "sent", refusal |-> refusal,
           at |-> 0, here |-> op = "create"] \in CallType
    /\ \A c \in CallType, n \in Nat :
          /\ [c EXCEPT !.here = FALSE] \in CallType
          /\ [c EXCEPT !.here = FALSE].phase = c.phase /\ [c EXCEPT !.here = FALSE].op = c.op
          /\ [c EXCEPT !.phase = "done", !.at = n] \in CallType
          /\ [c EXCEPT !.phase = "done", !.at = n].phase = "done"
<1>1. ASSUME NEW op \in {"create", "upload", "delete"}, NEW tag \in Names, NEW refusal \in Verdicts
      PROVE  [op |-> op, tag |-> tag, phase |-> "sent", refusal |-> refusal,
              at |-> 0, here |-> op = "create"] \in CallType
  <2>1. (op = "create") \in BOOLEAN
    BY Zenon
  <2> QED
    BY <2>1 DEF CallType
<1>2. ASSUME NEW c \in CallType, NEW n \in Nat
      PROVE  /\ [c EXCEPT !.here = FALSE] \in CallType
             /\ [c EXCEPT !.here = FALSE].phase = c.phase /\ [c EXCEPT !.here = FALSE].op = c.op
             /\ [c EXCEPT !.phase = "done", !.at = n] \in CallType
             /\ [c EXCEPT !.phase = "done", !.at = n].phase = "done"
  BY DEF CallType
<1> QED
  BY <1>1, <1>2

LEMMA CallTypes ==
    ASSUME resource \in Resources, applied \in Nat, calls \subseteq CallType,
           deleteTarget \in Names \cup {NoName}, [Next]_vars
    PROVE  calls' \subseteq CallType
<1>1. ASSUME NEW op \in {"create", "upload", "delete"}, NEW tag \in Names, NEW refusal \in Verdicts,
             NewCall(op, tag, refusal)
      PROVE  calls' \subseteq CallType
  <2> DEFINE new == [op |-> op, tag |-> tag, phase |-> "sent", refusal |-> refusal,
                     at |-> 0, here |-> op = "create"]
  <2>1. new \in CallType
    BY CallChanges
  <2>2. calls' = calls \cup {new}
    BY <1>1 DEF NewCall
  <2> HIDE DEF new
  <2> QED
    BY <2>1, <2>2
<1>2. Accept \in Verdicts
  BY DEF Verdicts
<1>3. ASSUME NEW n \in KnownNames, SubmitForm(n) PROVE calls' \subseteq CallType
  <2>1. n \in Names
    BY DEF KnownNames
  <2> QED
    BY <1>1, <1>3, <2>1, Verdict DEF SubmitForm
<1>4. ASSUME NEW n \in Names, Upload(n) PROVE calls' \subseteq CallType
  BY <1>1, <1>2, <1>4 DEF Upload
<1>5. ASSUME ConfirmDelete PROVE calls' \subseteq CallType
  <2>1. PICK target : target = deleteTarget
    OBVIOUS
  <2>2. target \in Names /\ NewCall("delete", target, Accept)
    BY <1>5, <2>1 DEF ConfirmDelete, DialogOpen
  <2> QED
    BY <1>1, <1>2, <2>2
<1>6. ASSUME NEW p, Go(p) PROVE calls' \subseteq CallType
  <2>1. calls' = {[c EXCEPT !.here = FALSE] : c \in calls}
    BY <1>6 DEF Go
  <2>2. \A c \in calls : [c EXCEPT !.here = FALSE] \in CallType
    BY CallChanges
  <2> QED
    BY <2>1, <2>2
<1>7. ASSUME NEW c \in calls, CarryOut(c) PROVE calls' \subseteq CallType
  <2>1. [c EXCEPT !.phase = "done", !.at = applied + 1] \in CallType
    <3>1. PICK n \in Nat : n = applied + 1
      OBVIOUS
    <3>2. c \in CallType
      OBVIOUS
    <3>3. [c EXCEPT !.phase = "done", !.at = n] \in CallType
      BY <3>2, CallChanges
    <3> QED
      BY <3>1, <3>3
  <2>2. \/ calls' = (calls \ {c}) \cup {[c EXCEPT !.phase = "done", !.at = applied + 1]}
        \/ calls' = calls \ {c}
    BY <1>7 DEF CarryOut, InsertJob, StoreFile, RemoveEntry, Refuses, EndsInError, Applies
  <2> QED
    BY <2>1, <2>2
<1>8. ASSUME ~ \/ \E p \in {"list", Elsewhere} : Go(p)
               \/ \E n \in KnownNames : SubmitForm(n)
               \/ \E n \in Names : Upload(n)
               \/ ConfirmDelete
               \/ \E c \in calls : CarryOut(c)
      PROVE  calls' \subseteq calls
  <2>1. CASE User
    BY <1>8, <2>1 DEF User, TypeChip, AddChip, RemoveChip, RemovesChip, Backspace, PickDelete, CancelDelete,
       Search, SortBy, PrevPage, NextPage, UsesTable
  <2>2. CASE Client
    BY <2>2 DEF Client, Arrives, GetsOld, Poll, Settle
  <2>3. CASE Server
    BY <1>8, <2>3 DEF Server, Read, FetchFails, LoseCall, EndsInError, RunJob, StartJob, Make,
       CompleteJob, FailJob, JobStep
  <2>4. CASE UNCHANGED vars
    BY <2>4 DEF vars
  <2> QED
    BY <2>1, <2>2, <2>3, <2>4 DEF Next
<1> QED
  BY <1>3, <1>4, <1>5, <1>6, <1>7, <1>8

\* The requests the server has not carried out, and those of them that insert a job.
Awaiting == {c \in calls : c.phase = "sent"}
AwaitingJobs == {c \in Awaiting : c.op = "create"}

CountOK ==
    /\ IsFiniteSet(calls)
    /\ sentCalls \in 0 .. MaxCalls[resource]
    /\ applied + Cardinality(Awaiting) <= sentCalls
    /\ Len(jobs) + Cardinality(AwaitingJobs) <= MaxJobs

LEMMA AwaitingFinite ==
    ASSUME IsFiniteSet(calls)
    PROVE  /\ IsFiniteSet(Awaiting) /\ Cardinality(Awaiting) \in Nat
           /\ IsFiniteSet(AwaitingJobs) /\ Cardinality(AwaitingJobs) \in Nat
<1>1. Awaiting \in SUBSET calls /\ AwaitingJobs \in SUBSET calls
  BY DEF Awaiting, AwaitingJobs
<1> QED
  BY <1>1, FS_Subset, FS_CardinalityType

LEMMA BoundsAreNumbers ==
    ASSUME resource \in Resources
    PROVE  MaxCalls[resource] \in Nat /\ MaxFaults[resource] \in Nat /\ MaxJobs \in Nat
OBVIOUS

LEMMA JobsOK == ASSUME ServerOK PROVE Len(jobs) \in Nat /\ applied \in Nat /\ resource \in Resources
<1>1. jobs \in Seq(JobType)
  BY DEF ServerOK
<1> QED
  BY <1>1 DEF ServerOK

\* Where requests come back, are lost, or nothing is done about them.
LEMMA FewerCalls ==
    ASSUME ServerOK, CountOK, calls' \in SUBSET calls, sentCalls' = sentCalls, resource' = resource,
           applied' = applied, Len(jobs') = Len(jobs)
    PROVE  CountOK'
<1>1. IsFiniteSet(calls)
  BY DEF CountOK
<1>2. Awaiting' \in SUBSET Awaiting /\ AwaitingJobs' \in SUBSET AwaitingJobs
  BY DEF Awaiting, AwaitingJobs
<1>3. /\ IsFiniteSet(calls') /\ Cardinality(Awaiting') <= Cardinality(Awaiting)
      /\ Cardinality(AwaitingJobs') <= Cardinality(AwaitingJobs)
  BY <1>1, <1>2, AwaitingFinite, FS_Subset
<1>4. /\ Cardinality(Awaiting') \in Nat /\ Cardinality(AwaitingJobs') \in Nat
  BY <1>1, <1>2, AwaitingFinite, FS_Subset, FS_CardinalityType
<1>5. /\ Cardinality(Awaiting) \in Nat /\ Cardinality(AwaitingJobs) \in Nat
      /\ Len(jobs) \in Nat /\ applied \in Nat /\ MaxJobs \in Nat /\ sentCalls \in Int
      /\ applied + Cardinality(Awaiting) <= sentCalls
      /\ Len(jobs) + Cardinality(AwaitingJobs) <= MaxJobs
  BY <1>1, AwaitingFinite, JobsOK DEF CountOK
<1>6. /\ applied + Cardinality(Awaiting') <= sentCalls
      /\ Len(jobs) + Cardinality(AwaitingJobs') <= MaxJobs
  BY <1>3, <1>4, <1>5
<1>7. /\ applied' + Cardinality(Awaiting)' <= sentCalls'
      /\ Len(jobs)' + Cardinality(AwaitingJobs)' <= MaxJobs
  BY <1>6
<1>8. sentCalls' \in 0 .. MaxCalls[resource]'
  BY DEF CountOK
<1> QED
  BY <1>3, <1>7, <1>8 DEF CountOK

\* A request more, within the bounds.
LEMMA NewCallCounts ==
    ASSUME ServerOK, CountOK, NEW op, NEW tag, NEW refusal, NewCall(op, tag, refusal),
           op = "create" => Len(jobs) + Cardinality({c \in calls : c.op = "create"}) < MaxJobs,
           UNCHANGED <<resource, applied, jobs>>
    PROVE  CountOK'
<1> DEFINE new == [op |-> op, tag |-> tag, phase |-> "sent", refusal |-> refusal,
                   at |-> 0, here |-> op = "create"]
<1>1. /\ calls' = calls \cup {new} /\ sentCalls' = sentCalls + 1 /\ sentCalls < MaxCalls[resource]
      /\ new.phase = "sent" /\ new.op = op
  BY DEF NewCall
<1> HIDE DEF new
<1>2. IsFiniteSet(calls) /\ IsFiniteSet(calls')
  BY <1>1, FS_AddElement DEF CountOK
<1>3. Awaiting' = Awaiting \cup {new}
  BY <1>1 DEF Awaiting
<1>4. /\ Cardinality(Awaiting) \in Nat /\ Cardinality(AwaitingJobs) \in Nat
      /\ IsFiniteSet(Awaiting) /\ IsFiniteSet(AwaitingJobs)
      /\ Len(jobs) \in Nat /\ applied \in Nat /\ MaxJobs \in Nat /\ sentCalls \in Nat
      /\ applied + Cardinality(Awaiting) <= sentCalls
      /\ Len(jobs) + Cardinality(AwaitingJobs) <= MaxJobs
  BY <1>2, AwaitingFinite, JobsOK DEF CountOK
<1>5. Cardinality(Awaiting') \in Nat /\ Cardinality(Awaiting') <= Cardinality(Awaiting) + 1
  <2>1. Cardinality(Awaiting \cup {new})
          = IF new \in Awaiting THEN Cardinality(Awaiting) ELSE Cardinality(Awaiting) + 1
    BY <1>4, FS_AddElement
  <2> QED
    BY <1>3, <1>4, <2>1
<1>6. Len(jobs) + Cardinality(AwaitingJobs') <= MaxJobs
  <2>1. CASE op = "create"
    <3> DEFINE made == {c \in calls : c.op = "create"}
    <3>1. AwaitingJobs' \in SUBSET (made \cup {new})
      BY <1>1, <1>3 DEF AwaitingJobs, Awaiting
    <3>2. IsFiniteSet(made)
      BY <1>2, FS_Subset
    <3>3. Len(jobs) + Cardinality(made) < MaxJobs
      BY <2>1
    <3> HIDE DEF made
    <3>4. /\ IsFiniteSet(made \cup {new}) /\ Cardinality(made) \in Nat
          /\ Cardinality(made \cup {new}) = IF new \in made THEN Cardinality(made) ELSE Cardinality(made) + 1
      BY <3>2, FS_AddElement, FS_CardinalityType
    <3>5. Cardinality(AwaitingJobs') <= Cardinality(made \cup {new}) /\ Cardinality(AwaitingJobs') \in Nat
      BY <3>1, <3>4, FS_Subset, FS_CardinalityType
    <3> QED
      BY <1>4, <3>3, <3>4, <3>5
  <2>2. CASE op # "create"
    <3>1. AwaitingJobs' = AwaitingJobs
      BY <1>1, <1>3, <2>2 DEF AwaitingJobs
    <3> QED
      BY <1>4, <3>1
  <2> QED
    BY <2>1, <2>2
<1>7. applied + Cardinality(Awaiting') <= sentCalls + 1
  BY <1>4, <1>5
<1>8. sentCalls' \in 0 .. MaxCalls[resource]
  BY <1>1, <1>4, JobsOK, BoundsAreNumbers
<1>9. /\ applied' + Cardinality(Awaiting)' <= sentCalls'
      /\ Len(jobs)' + Cardinality(AwaitingJobs)' <= MaxJobs /\ sentCalls' \in 0 .. MaxCalls[resource]'
  BY <1>1, <1>6, <1>7, <1>8
<1> QED
  BY <1>2, <1>9 DEF CountOK

\* The form is left: its requests go on.
LEMMA LeaveCounts ==
    ASSUME ServerOK, CountOK, calls \subseteq CallType,
           calls' = {[c EXCEPT !.here = FALSE] : c \in calls},
           UNCHANGED <<resource, applied, jobs, sentCalls>>
    PROVE  CountOK'
<1>1. IsFiniteSet(calls) /\ IsFiniteSet(Awaiting) /\ IsFiniteSet(AwaitingJobs)
  BY AwaitingFinite DEF CountOK
<1>2. \A c \in calls : /\ [c EXCEPT !.here = FALSE].phase = c.phase
                       /\ [c EXCEPT !.here = FALSE].op = c.op
  <2> SUFFICES ASSUME NEW c \in calls
               PROVE  /\ [c EXCEPT !.here = FALSE].phase = c.phase
                      /\ [c EXCEPT !.here = FALSE].op = c.op
    OBVIOUS
  <2>1. c \in CallType
    OBVIOUS
  <2> QED
    BY <2>1 DEF CallType
<1>3. /\ Awaiting' = {[c EXCEPT !.here = FALSE] : c \in Awaiting}
      /\ AwaitingJobs' = {[c EXCEPT !.here = FALSE] : c \in AwaitingJobs}
  <2> DEFINE left(c) == [c EXCEPT !.here = FALSE]
  <2>1. calls' = {left(c) : c \in calls} /\ \A c \in calls : left(c).phase = c.phase /\ left(c).op = c.op
    BY <1>2
  <2> HIDE DEF left
  <2>2. Awaiting' = {left(c) : c \in Awaiting}
    BY <2>1 DEF Awaiting
  <2>3. AwaitingJobs' = {left(c) : c \in AwaitingJobs}
    <3>1. AwaitingJobs' = {d \in Awaiting' : d.op = "create"}
      BY DEF AwaitingJobs
    <3>2. \A c \in Awaiting : left(c).op = c.op
      BY <2>1 DEF Awaiting
    <3> QED
      BY <2>2, <3>1, <3>2 DEF AwaitingJobs
  <2> QED
    BY <2>2, <2>3 DEF left
<1>4. ASSUME NEW A, IsFiniteSet(A), NEW B, B = {[c EXCEPT !.here = FALSE] : c \in A}
      PROVE  IsFiniteSet(B) /\ Cardinality(B) <= Cardinality(A) /\ Cardinality(B) \in Nat
  <2> DEFINE f == [c \in A |-> [c EXCEPT !.here = FALSE]]
  <2>1. f \in Surjection(A, B)
    BY <1>4 DEF Surjection
  <2> HIDE DEF f
  <2> QED
    BY <1>4, <2>1, FS_Surjection, FS_CardinalityType
<1>5. /\ IsFiniteSet(calls') /\ Cardinality(Awaiting') <= Cardinality(Awaiting)
      /\ Cardinality(AwaitingJobs') <= Cardinality(AwaitingJobs)
      /\ Cardinality(Awaiting') \in Nat /\ Cardinality(AwaitingJobs') \in Nat
  BY <1>1, <1>3, <1>4
<1>6. /\ Cardinality(Awaiting) \in Nat /\ Cardinality(AwaitingJobs) \in Nat
      /\ Len(jobs) \in Nat /\ applied \in Nat /\ MaxJobs \in Nat /\ sentCalls \in Int
      /\ applied + Cardinality(Awaiting) <= sentCalls
      /\ Len(jobs) + Cardinality(AwaitingJobs) <= MaxJobs
  BY <1>1, AwaitingFinite, JobsOK DEF CountOK
<1>7. /\ applied + Cardinality(Awaiting') <= sentCalls
      /\ Len(jobs) + Cardinality(AwaitingJobs') <= MaxJobs
  BY <1>5, <1>6
<1>8. /\ applied' + Cardinality(Awaiting)' <= sentCalls'
      /\ Len(jobs)' + Cardinality(AwaitingJobs)' <= MaxJobs /\ sentCalls' \in 0 .. MaxCalls[resource]'
  BY <1>7 DEF CountOK
<1> QED
  BY <1>5, <1>8 DEF CountOK

\* What is carried out no longer waits.
LEMMA ApplyCounts ==
    ASSUME ServerOK, CountOK, calls \subseteq CallType, NEW c \in calls, c.phase = "sent", Applies(c),
           UNCHANGED <<resource, sentCalls>>,
           \/ jobs' = jobs
           \/ c.op = "create" /\ Len(jobs') = Len(jobs) + 1
    PROVE  CountOK'
<1> DEFINE d == [c EXCEPT !.phase = "done", !.at = applied + 1]
<1>1. applied' = applied + 1 /\ calls' = (calls \ {c}) \cup {d}
  BY DEF Applies
<1>2. d.phase = "done"
  <2>1. c \in CallType
    OBVIOUS
  <2> QED
    BY <2>1 DEF CallType
<1> HIDE DEF d
<1>3. /\ IsFiniteSet(calls) /\ IsFiniteSet(calls') /\ IsFiniteSet(Awaiting) /\ IsFiniteSet(AwaitingJobs)
      /\ Cardinality(Awaiting) \in Nat /\ Cardinality(AwaitingJobs) \in Nat
      /\ Len(jobs) \in Nat /\ applied \in Nat /\ MaxJobs \in Nat /\ sentCalls \in Int
      /\ applied + Cardinality(Awaiting) <= sentCalls
      /\ Len(jobs) + Cardinality(AwaitingJobs) <= MaxJobs
  <2>1. IsFiniteSet(calls)
    BY DEF CountOK
  <2>2. IsFiniteSet(calls \ {c})
    BY <2>1, FS_RemoveElement
  <2>3. IsFiniteSet(calls')
    BY <1>1, <2>2, FS_AddElement
  <2> QED
    BY <2>1, <2>3, AwaitingFinite, JobsOK DEF CountOK
<1>4. Awaiting' = Awaiting \ {c} /\ c \in Awaiting
  BY <1>1, <1>2 DEF Awaiting
<1>5. Cardinality(Awaiting') = Cardinality(Awaiting) - 1
  BY <1>3, <1>4, FS_RemoveElement
<1>6. AwaitingJobs' = AwaitingJobs \ {c}
  BY <1>4 DEF AwaitingJobs
<1>7. Cardinality(AwaitingJobs') = IF c \in AwaitingJobs THEN Cardinality(AwaitingJobs) - 1
                                   ELSE Cardinality(AwaitingJobs)
  BY <1>3, <1>6, FS_RemoveElement
<1>8. Len(jobs') + Cardinality(AwaitingJobs') <= MaxJobs
  <2>1. CASE jobs' = jobs
    BY <1>3, <1>7, <2>1
  <2>2. CASE c.op = "create" /\ Len(jobs') = Len(jobs) + 1
    <3>1. c \in AwaitingJobs
      BY <1>4, <2>2 DEF AwaitingJobs
    <3> QED
      BY <1>3, <1>7, <2>2, <3>1
  <2> QED
    BY <2>1, <2>2
<1>9. applied' + Cardinality(Awaiting') <= sentCalls
  BY <1>1, <1>3, <1>5
<1>10. /\ applied' + Cardinality(Awaiting)' <= sentCalls'
       /\ Len(jobs)' + Cardinality(AwaitingJobs)' <= MaxJobs /\ sentCalls' \in 0 .. MaxCalls[resource]'
  BY <1>8, <1>9 DEF CountOK
<1> QED
  BY <1>3, <1>10 DEF CountOK

LEMMA CountSteps ==
    ASSUME ServerOK, CountOK, calls \subseteq CallType, [Next]_vars
    PROVE  CountOK'
<1>1. ASSUME calls' \in SUBSET calls, UNCHANGED <<sentCalls, resource, applied>>, Len(jobs') = Len(jobs)
      PROVE  CountOK'
  BY <1>1, FewerCalls
<1>2. ASSUME NEW n \in KnownNames, SubmitForm(n) PROVE CountOK'
  BY <1>2, NewCallCounts DEF SubmitForm, serverVars
<1>3. ASSUME NEW n \in Names, Upload(n) PROVE CountOK'
  BY <1>3, NewCallCounts DEF Upload, serverVars
<1>4. ASSUME ConfirmDelete PROVE CountOK'
  <2>1. PICK target : target = deleteTarget
    OBVIOUS
  <2>2. NewCall("delete", target, Accept) /\ UNCHANGED <<resource, applied, jobs>>
    BY <1>4, <2>1 DEF ConfirmDelete, serverVars
  <2> QED
    BY <2>2, NewCallCounts
<1>5. ASSUME NEW p, Go(p) PROVE CountOK'
  BY <1>5, LeaveCounts DEF Go, serverVars
<1>6. ASSUME NEW c \in calls, CarryOut(c) PROVE CountOK'
  <2>1. c.phase = "sent" /\ UNCHANGED <<resource, sentCalls>>
    BY <1>6 DEF CarryOut
  <2>2. CASE EndsInError(c) /\ UNCHANGED <<jobs, applied>>
    BY <1>1, <2>1, <2>2 DEF EndsInError
  <2>3. CASE ~(EndsInError(c) /\ UNCHANGED <<jobs, applied>>)
    <3>1. Applies(c) /\ (jobs' = jobs \/ (c.op = "create" /\ Len(jobs') = Len(jobs) + 1))
      <4>1. \A job : Len(Append(jobs, job)) = Len(jobs) + 1
        <5>1. jobs \in Seq(JobType)
          BY DEF ServerOK
        <5> QED
          BY <5>1
      <4> QED
        BY <1>6, <2>3, <4>1 DEF CarryOut, InsertJob, StoreFile, RemoveEntry, Refuses, serverVars
    <3> QED
      BY <2>1, <3>1, ApplyCounts
  <2> QED
    BY <2>2, <2>3
<1>7. ASSUME NEW i \in DOMAIN jobs, RunJob(i) PROVE CountOK'
  <2>1. UNCHANGED <<calls, sentCalls, resource, applied>> /\ \E job : jobs' = [jobs EXCEPT ![i] = job]
    BY <1>7 DEF RunJob, StartJob, Make, CompleteJob, FailJob, JobStep
  <2>2. Len(jobs') = Len(jobs)
    <3>1. jobs \in Seq(JobType)
      BY DEF ServerOK
    <3> QED
      BY <2>1, <3>1
  <2> QED
    BY <1>1, <2>1, <2>2
<1>8. CASE User
  <2>1. ASSUME ~ \/ \E p \in {"list", Elsewhere} : Go(p)
                 \/ \E n \in KnownNames : SubmitForm(n)
                 \/ \E n \in Names : Upload(n)
                 \/ ConfirmDelete
        PROVE  UNCHANGED <<calls, sentCalls, resource, applied, jobs>>
    BY <1>8, <2>1 DEF User, TypeChip, AddChip, RemoveChip, RemovesChip, Backspace, PickDelete, CancelDelete,
       Search, SortBy, PrevPage, NextPage, UsesTable, serverVars
  <2> QED
    BY <1>1, <1>2, <1>3, <1>4, <1>5, <2>1
<1>9. CASE Client
  <2>1. calls' \in SUBSET calls /\ UNCHANGED <<sentCalls, resource, applied, jobs>>
    BY <1>9 DEF Client, Arrives, GetsOld, Poll, Settle, serverVars
  <2> QED
    BY <1>1, <2>1
<1>10. CASE Server
  <2>1. ASSUME (\E k \in Keys : Read(k) \/ FetchFails(k)) \/ (\E c \in calls : LoseCall(c))
        PROVE  calls' \in SUBSET calls /\ UNCHANGED <<sentCalls, resource, applied, jobs>>
    BY <2>1 DEF Read, FetchFails, LoseCall, EndsInError, serverVars
  <2> QED
    BY <1>1, <1>6, <1>7, <1>10, <2>1 DEF Server
<1>11. CASE UNCHANGED vars
  BY <1>1, <1>11 DEF vars
<1> QED
  BY <1>8, <1>9, <1>10, <1>11 DEF Next

-----------------------------------------------------------------------------
(* What is cached is what the server has answered.                         *)

LEMMA QueriesCached ==
    ASSUME NEW k, NEW q, NEW n, DOMAIN q = Fields, CachedOK(k, q, n)
    PROVE  /\ CachedOK(k, Fetch(q), n) /\ CachedOK(k, Mounted(q), n) /\ CachedOK(k, Aged(q), n)
           /\ \A active : CachedOK(k, Errored(q, active), n) /\ CachedOK(k, Invalidated(q, active), n)
           /\ q.wire \notin {Idle, Sent} => CachedOK(k, Succeeded(q), n)
           /\ \A answer : AnswerOK(k, answer, n) => CachedOK(k, Answered(q, answer), n)
<1>1. ASSUME NEW r, r.data = q.data, r.wire \in {Idle, Sent, q.wire}
      PROVE  CachedOK(k, r, n)
  BY <1>1 DEF CachedOK
<1>2. ASSUME NEW r, DOMAIN r = Fields, r.data = q.data
      PROVE  Begin(r).data = q.data /\ Begin(r).wire = Sent
  BY <1>2 DEF Begin, Fields
<1>3. CachedOK(k, Fetch(q), n)
  BY <1>1, <1>2 DEF Fetch
<1>4. CachedOK(k, Mounted(q), n)
  BY <1>3 DEF Mounted
<1> DEFINE aged == Aged(q)
<1>5. DOMAIN aged = Fields /\ aged.data = q.data /\ aged.wire = q.wire
  BY DEF Aged, Fields
<1> HIDE DEF aged
<1>6. CachedOK(k, aged, n)
  BY <1>1, <1>5
<1>7. ASSUME NEW active PROVE CachedOK(k, Errored(q, active), n)
  <2>1. CASE active /\ ~q.retried
    <3>1. /\ [q EXCEPT !.wire = Sent, !.retried = TRUE].data = q.data
          /\ [q EXCEPT !.wire = Sent, !.retried = TRUE].wire = Sent
      BY DEF Fields
    <3> QED
      BY <1>1, <2>1, <3>1 DEF Errored
  <2>2. CASE ~(active /\ ~q.retried)
    <3> DEFINE new == [aged EXCEPT !.wire = Idle, !.retried = FALSE, !.overtaken = FALSE]
    <3>1. new.data = q.data /\ new.wire = Idle
      BY <1>5 DEF Fields
    <3>2. Errored(q, active) = new
      BY <2>2 DEF Errored, aged
    <3> HIDE DEF new
    <3> QED
      BY <1>1, <3>1, <3>2
  <2> QED
    BY <2>1, <2>2
<1>8. ASSUME NEW active PROVE CachedOK(k, Invalidated(q, active), n)
  <2> DEFINE late == [aged EXCEPT !.overtaken = Fetching(q)]
  <2>1. late.data = q.data /\ late.wire = q.wire
    BY <1>5 DEF Fields
  <2>2. Invalidated(q, active) \in {Begin(aged), late}
    BY DEF Invalidated, aged
  <2> HIDE DEF late
  <2> QED
    BY <1>1, <1>2, <1>5, <2>1, <2>2
<1>9. ASSUME q.wire \notin {Idle, Sent} PROVE CachedOK(k, Succeeded(q), n)
  <2>1. Succeeded(q).data = q.wire /\ Succeeded(q).wire = Idle
    BY DEF Succeeded, Fields
  <2> QED
    BY <1>9, <2>1 DEF CachedOK
<1>10. ASSUME NEW answer, AnswerOK(k, answer, n) PROVE CachedOK(k, Answered(q, answer), n)
  <2>1. Answered(q, answer).data = q.data /\ Answered(q, answer).wire = answer
    BY DEF Answered, Fields
  <2> QED
    BY <1>10, <2>1 DEF CachedOK
<1> QED
  BY <1>3, <1>4, <1>6, <1>7, <1>8, <1>9, <1>10 DEF aged

\* The server goes on, and what is cached is as old as it was.
LEMMA CachedLater ==
    ASSUME NEW k, NEW q, NEW n \in Nat, NEW m \in Nat, n <= m, CachedOK(k, q, n)
    PROVE  CachedOK(k, q, m)
<1>1. ASSUME NEW answer, AnswerOK(k, answer, n) PROVE AnswerOK(k, answer, m)
  <2>1. answer.at \in 0 .. m
    BY <1>1 DEF AnswerOK
  <2> QED
    BY <1>1, <2>1 DEF AnswerOK
<1> QED
  BY <1>1 DEF CachedOK

LEMMA AnswersOK ==
    ASSUME ServerOK, CountOK, NEW k \in Keys
    PROVE  AnswerOK(k, Answer(k), applied)
<1>1. applied \in 0 .. applied /\ Len(jobs) \in Nat /\ Len(jobs) <= MaxJobs
  BY JobsOK, AwaitingFinite, BoundsAreNumbers DEF CountOK
<1>2. CASE k = "jobs"
  <2> DEFINE asked == {[id |-> i, tag |-> jobs[i].tag, state |-> jobs[i].state] :
                       i \in {i \in DOMAIN jobs : jobs[i].state \in AskedStates}}
  <2>1. ASSUME NEW i \in DOMAIN jobs, jobs[i].state \in AskedStates
        PROVE  [id |-> i, tag |-> jobs[i].tag, state |-> jobs[i].state]
                 \in [id : 1 .. MaxJobs, tag : Names, state : AskedStates]
    <3>1. i \in 1 .. MaxJobs /\ jobs[i].tag \in Names
      BY <1>1, JobMember, BoundsAreNumbers DEF JobType
    <3> QED
      BY <2>1, <3>1
  <2>2. asked \in SUBSET [id : 1 .. MaxJobs, tag : Names, state : AskedStates]
    BY <2>1
  <2>3. \A x, y \in asked : x.id = y.id => x = y
    OBVIOUS
  <2>4. Answer(k).at = applied /\ Answer(k).jobs = asked
    BY <1>2 DEF Answer, fetchJobs
  <2> HIDE DEF asked
  <2> QED
    BY <1>1, <1>2, <2>2, <2>3, <2>4 DEF AnswerOK
<1>3. CASE k # "jobs"
  <2> DEFINE items == [n \in Existing |-> stored[n] = "filled"]
  <2>1. DOMAIN items \in SUBSET Names /\ items \in [DOMAIN items -> BOOLEAN]
    BY DEF Existing
  <2>2. Answer(k).at = applied /\ Answer(k).items = items
    BY <1>3 DEF Answer, fetchList
  <2> HIDE DEF items
  <2> QED
    BY <1>1, <1>3, <2>1, <2>2 DEF AnswerOK
<1> QED
  BY <1>2, <1>3

CacheTyped == \A k \in Keys : CachedOK(k, query[k], applied)

LEMMA CacheTypes ==
    ASSUME ListInv, CountOK, CacheTyped, [Next]_vars
    PROVE  /\ \A k \in Keys : CachedOK(k, query'[k], applied)
           /\ CacheTyped'
<1>1. /\ ServerOK /\ applied \in Nat /\ applied' \in Nat /\ applied <= applied'
      /\ DOMAIN query = Keys /\ \A k \in Keys : DOMAIN query[k] = Fields
  BY ServerSteps DEF ListInv, ServerOK, CacheOK, FreshFrom
<1>2. ASSUME query' = query PROVE \A k \in Keys : CachedOK(k, query'[k], applied)
  BY <1>2 DEF CacheTyped
<1>3. ASSUME NEW k \in Keys, NEW new, CachedOK(k, new, applied), query' = [query EXCEPT ![k] = new]
      PROVE  \A j \in Keys : CachedOK(j, query'[j], applied)
  BY <1>1, <1>3 DEF CacheTyped
<1>4. ASSUME NEW q, \A k \in Keys : CachedOK(k, q[k], applied) /\ DOMAIN q[k] = Fields, NEW p
      PROVE  \A k \in Keys : CachedOK(k, MountedQueries(q, p)[k], applied)
  <2> SUFFICES ASSUME NEW k \in Keys PROVE CachedOK(k, MountedQueries(q, p)[k], applied)
    OBVIOUS
  <2>1. CachedOK(k, q[k], applied) /\ CachedOK(k, Mounted(q[k]), applied)
    BY <1>4, QueriesCached
  <2> QED
    BY <2>1 DEF MountedQueries
<1>5. ASSUME NEW p, Go(p) PROVE \A k \in Keys : CachedOK(k, query'[k], applied)
  BY <1>1, <1>4, <1>5 DEF Go, CacheTyped
<1>6. ASSUME NEW k \in Keys, Read(k) \/ Arrives(k) \/ FetchFails(k) \/ GetsOld(k)
      PROVE  \A j \in Keys : CachedOK(j, query'[j], applied)
  <2>1. CachedOK(k, query[k], applied) /\ DOMAIN query[k] = Fields /\ AnswerOK(k, Answer(k), applied)
    BY <1>1, AnswersOK DEF CacheTyped
  <2>2. \E new : query' = [query EXCEPT ![k] = new] /\ CachedOK(k, new, applied)
    BY <1>6, <2>1, QueriesCached DEF Read, Arrives, HasAnswer, FetchFails, GetsOld
  <2> QED
    BY <1>3, <2>2
<1>7. ASSUME Poll PROVE \A j \in Keys : CachedOK(j, query'[j], applied)
  <2>1. "jobs" \in Keys
    BY DEF Keys
  <2>2. CachedOK("jobs", Fetch(query["jobs"]), applied)
    BY <1>1, <2>1, QueriesCached DEF CacheTyped
  <2> QED
    BY <1>3, <1>7, <2>1, <2>2 DEF Poll
<1>8. ASSUME NEW c \in calls, Settle(c) PROVE \A k \in Keys : CachedOK(k, query'[k], applied)
  <2> DEFINE keys == Invalidates(c.op)
             invalidated == [k \in Keys |-> IF k \in keys
                                            THEN Invalidated(query[k], Active(page, k)) ELSE query[k]]
  <2>1. query' = invalidated \/ query' = MountedQueries(invalidated, "list")
    BY <1>8 DEF Settle
  <2>2. ASSUME NEW k \in Keys PROVE CachedOK(k, invalidated[k], applied) /\ DOMAIN invalidated[k] = Fields
    <3>1. CachedOK(k, query[k], applied) /\ DOMAIN query[k] = Fields
      BY <1>1 DEF CacheTyped
    <3>2. CachedOK(k, Invalidated(query[k], Active(page, k)), applied)
      BY <3>1, QueriesCached
    <3>3. DOMAIN Invalidated(query[k], Active(page, k)) = Fields
      BY <3>1, InvalidatedFresh DEF FreshFrom
    <3> QED
      BY <3>1, <3>2, <3>3
  <2> HIDE DEF invalidated
  <2> QED
    BY <1>4, <2>1, <2>2
<1>9. \A k \in Keys : CachedOK(k, query'[k], applied)
  <2>1. ASSUME ~ \/ \E p \in {"list", Elsewhere} : Go(p)
                 \/ \E k \in Keys : Read(k) \/ Arrives(k) \/ FetchFails(k) \/ GetsOld(k)
                 \/ Poll
                 \/ \E c \in calls : Settle(c)
        PROVE  query' = query
    <3>1. CASE User
      BY <2>1, <3>1 DEF User, TypeChip, AddChip, RemoveChip, RemovesChip, Backspace, SubmitForm,
         Upload, PickDelete, CancelDelete, ConfirmDelete, Search, SortBy, PrevPage, NextPage, UsesTable
    <3>2. CASE Client
      BY <2>1, <3>2 DEF Client
    <3>3. CASE Server
      BY <2>1, <3>3 DEF Server, CarryOut, LoseCall, RunJob, StartJob, Make, CompleteJob, FailJob, JobStep
    <3>4. CASE UNCHANGED vars
      BY <3>4 DEF vars
    <3> QED
      BY <3>1, <3>2, <3>3, <3>4 DEF Next
  <2> QED
    BY <1>2, <1>5, <1>6, <1>7, <1>8, <2>1
<1>10. \A k \in Keys : CachedOK(k, query'[k], applied')
  BY <1>1, <1>9, CachedLater
<1> QED
  BY <1>9, <1>10 DEF CacheTyped

-----------------------------------------------------------------------------
(* The page, its form and its table.                                       *)

FieldsOK ==
    /\ acked \in [Keys -> Nat]
    /\ page \in {"list", Elsewhere}
    /\ faults \in 0 .. MaxFaults[resource]
    /\ deleteTarget \in Names \cup {NoName}

FormOK == chips \in Seq(ChipTexts) /\ IsInjective(chips) /\ chipInput \in ChipTexts \cup {Blank}

LEMMA SameResource == ASSUME [Next]_vars PROVE resource' = resource /\ Elsewhere' = Elsewhere
<1>1. resource' = resource
  <2>1. CASE User
    BY <2>1 DEF User, Go, TypeChip, AddChip, RemoveChip, RemovesChip, Backspace, SubmitForm,
       Upload, PickDelete, CancelDelete, ConfirmDelete, Search, SortBy, PrevPage, NextPage, UsesTable
  <2>2. CASE Client
    BY <2>2 DEF Client, Arrives, GetsOld, Poll, Settle
  <2>3. CASE Server
    BY <2>3 DEF Server, Read, FetchFails, CarryOut, LoseCall, RunJob, StartJob, Make, CompleteJob,
       FailJob, JobStep
  <2>4. CASE UNCHANGED vars
    BY <2>4 DEF vars
  <2> QED
    BY <2>1, <2>2, <2>3, <2>4 DEF Next
<1> QED
  BY <1>1 DEF Elsewhere, HasJobs

LEMMA FieldSteps ==
    ASSUME resource \in Resources, FieldsOK, calls \subseteq CallType, TableOK,
           Rows(query) \in Seq(Row), [Next]_vars
    PROVE  FieldsOK'
<1>1. resource' = resource /\ Elsewhere' = Elsewhere
  BY SameResource
<1>2. ASSUME acked' \in [Keys -> Nat], page' \in {"list", Elsewhere}, faults' \in 0 .. MaxFaults[resource],
             deleteTarget' \in Names \cup {NoName}
      PROVE  FieldsOK'
  BY <1>1, <1>2 DEF FieldsOK
<1>3. ASSUME UNCHANGED <<acked, page>>, faults' \in {faults, faults + 1},
             faults' # faults => faults < MaxFaults[resource],
             deleteTarget' \in {deleteTarget, NoName}
      PROVE  FieldsOK'
  <2>1. faults' \in 0 .. MaxFaults[resource]
    BY <1>3, BoundsAreNumbers DEF FieldsOK
  <2> QED
    BY <1>2, <1>3, <2>1 DEF FieldsOK
<1>4. ASSUME NEW p \in {"list", Elsewhere}, Go(p) PROVE FieldsOK'
  BY <1>2, <1>4 DEF Go, FieldsOK
<1>5. ASSUME NEW i \in 1 .. PageSize, PickDelete(i) PROVE FieldsOK'
  <2> DEFINE shownRows == Paged(table, Rows(query))
  <2>1. i \in DOMAIN shownRows /\ deleteTarget' = shownRows[i].name /\ UNCHANGED <<acked, page, faults>>
    BY <1>5 DEF PickDelete
  <2>2. table.page \in Nat \ {0}
    BY TableChanges DEF TableOK
  <2>3. \A j \in DOMAIN shownRows : shownRows[j] \in Row
    BY <2>2, PagedRows
  <2> HIDE DEF shownRows
  <2>4. shownRows[i].name \in Names
    BY <2>1, <2>3 DEF Row
  <2> QED
    BY <1>2, <2>1, <2>4 DEF FieldsOK
<1>6. CASE User
  <2>1. ASSUME ~ \/ \E p \in {"list", Elsewhere} : Go(p)
                 \/ \E i \in 1 .. PageSize : PickDelete(i)
        PROVE  UNCHANGED <<acked, page, faults>> /\ deleteTarget' \in {deleteTarget, NoName}
    BY <1>6, <2>1 DEF User, TypeChip, AddChip, RemoveChip, RemovesChip, Backspace, SubmitForm, Upload,
       CancelDelete, ConfirmDelete, Search, SortBy, PrevPage, NextPage, UsesTable, pageVars
  <2> QED
    BY <1>3, <1>4, <1>5, <2>1
<1>7. ASSUME NEW c \in calls, Settle(c) PROVE FieldsOK'
  <2>1. c.at \in Nat /\ DOMAIN acked = Keys
    BY DEF CallType, FieldsOK
  <2>2. acked' = [acked EXCEPT ![Changes(c.op)] = IF @ < c.at THEN c.at ELSE @]
    BY <1>7 DEF Settle
  <2>3. acked' \in [Keys -> Nat]
    BY <2>1, <2>2 DEF FieldsOK
  <2>4. page' \in {"list", page} /\ UNCHANGED <<faults, deleteTarget>>
    BY <1>7 DEF Settle
  <2> QED
    BY <1>2, <2>3, <2>4 DEF FieldsOK
<1>8. CASE Client
  BY <1>3, <1>7, <1>8 DEF Client, Arrives, GetsOld, Poll, SamePage
<1>9. CASE Server
  BY <1>3, <1>9 DEF Server, Read, FetchFails, SamePage, CarryOut, LoseCall, RunJob, StartJob, Make,
     CompleteJob, FailJob, JobStep, pageVars
<1>10. CASE UNCHANGED vars
  BY <1>3, <1>10 DEF vars
<1> QED
  BY <1>6, <1>8, <1>9, <1>10 DEF Next

\* The chips stay different texts.
LEMMA FormSteps == ASSUME FormOK, [Next]_vars PROVE FormOK'
<1>1. chips \in Seq(ChipTexts) /\ Len(chips) \in Nat /\ DOMAIN chips = 1 .. Len(chips)
  BY DEF FormOK
<1>2. ASSUME UNCHANGED <<chips, chipInput>> \/ (chips' = <<>> /\ chipInput' = Blank) PROVE FormOK'
  <2>1. <<>> \in Seq(ChipTexts) /\ IsInjective(<<>>)
    BY DEF IsInjective
  <2> QED
    BY <1>2, <2>1 DEF FormOK
<1>3. ASSUME NEW text \in ChipTexts, TypeChip(text) PROVE FormOK'
  BY <1>3 DEF TypeChip, FormOK
<1>4. ASSUME AddChip PROVE FormOK'
  <2>1. chipInput \in ChipTexts /\ chipInput' = Blank /\ chips' = addChip(chips, chipInput)
    BY <1>4 DEF AddChip, FormOK
  <2>2. CASE Contains(chips, chipInput)
    BY <2>1, <2>2 DEF addChip, FormOK
  <2>3. CASE ~Contains(chips, chipInput)
    <3>1. chips' = Append(chips, chipInput)
      BY <1>4, <2>1, <2>3 DEF addChip, AddChip
    <3>2. /\ chips' \in Seq(ChipTexts) /\ Len(chips') = Len(chips) + 1
          /\ \A i \in 1 .. Len(chips) : chips'[i] = chips[i]
          /\ chips'[Len(chips) + 1] = chipInput
      BY <1>1, <2>1, <3>1
    <3>3. \A i \in 1 .. Len(chips) : chips[i] # chipInput
      BY <2>3 DEF Contains
    <3>4. \A i, j \in 1 .. Len(chips) : chips[i] = chips[j] => i = j
      BY <1>1 DEF FormOK, IsInjective
    <3>5. DOMAIN chips' = 1 .. Len(chips) + 1
      BY <1>1, <3>2
    <3>6. IsInjective(chips')
      <4> SUFFICES ASSUME NEW i \in 1 .. Len(chips) + 1, NEW j \in 1 .. Len(chips) + 1, chips'[i] = chips'[j]
                   PROVE  i = j
        BY <3>5 DEF IsInjective
      <4>1. /\ i \in 1 .. Len(chips) \/ i = Len(chips) + 1
            /\ j \in 1 .. Len(chips) \/ j = Len(chips) + 1
        BY <1>1
      <4> QED
        BY <3>2, <3>3, <3>4, <4>1
    <3> QED
      BY <2>1, <3>2, <3>6 DEF FormOK
  <2> QED
    BY <2>2, <2>3
<1>5. ASSUME NEW chip, RemovesChip(chip) PROVE FormOK'
  <2> DEFINE left == {i \in DOMAIN chips : chips[i] # chip}
  <2>1. chips' = ElementsAt(chips, left) /\ chipInput' = chipInput
    BY <1>5 DEF RemovesChip, removeChip, filter
  <2>2. left \in SUBSET DOMAIN chips
    OBVIOUS
  <2> HIDE DEF left
  <2>3. ElementsAt(chips, left) \in Seq(ChipTexts) /\ IsInjective(ElementsAt(chips, left))
    BY <1>1, <2>2, ElementsOfSequence DEF FormOK
  <2> QED
    BY <2>1, <2>3 DEF FormOK
<1>6. CASE User
  <2>1. ASSUME ~ \/ \E text \in ChipTexts : TypeChip(text)
                 \/ AddChip
                 \/ \E chip \in ChipTexts : Contains(chips, chip) /\ RemoveChip(chip)
                 \/ Backspace
        PROVE  UNCHANGED <<chips, chipInput>> \/ (chips' = <<>> /\ chipInput' = Blank)
    BY <1>6, <2>1 DEF User, Go, SubmitForm, Upload, PickDelete, CancelDelete, ConfirmDelete, Search, SortBy,
       PrevPage, NextPage, UsesTable, pageVars
  <2> QED
    BY <1>2, <1>3, <1>4, <1>5, <2>1 DEF RemoveChip, Backspace
<1>7. CASE Client
  BY <1>2, <1>7 DEF Client, Arrives, GetsOld, Poll, SamePage, Settle, formVars
<1>8. CASE Server
  BY <1>2, <1>8 DEF Server, Read, FetchFails, SamePage, CarryOut, LoseCall, RunJob, StartJob, Make,
     CompleteJob, FailJob, JobStep, pageVars
<1>9. CASE UNCHANGED vars
  BY <1>2, <1>9 DEF vars
<1> QED
  BY <1>6, <1>7, <1>8, <1>9 DEF Next

LEMMA TableSteps ==
    ASSUME resource \in Resources, TableOK, Rows(query) \in Seq(Row), Rows(query') \in Seq(Row), [Next]_vars
    PROVE  TableOK'
<1>1. resource' = resource
  BY SameResource
<1>2. ASSUME NEW t \in {table, FreshTable}, TableAfter(t) PROVE TableOK'
  BY <1>1, <1>2, TableAfterOK
<1>3. ASSUME UNCHANGED <<page, query, table, shrunk>> PROVE TableOK'
  <2>1. Rows(query)' = Rows(query) /\ HasTable(page, query)' = HasTable(page, query)
    BY <1>1, <1>3, NextView
  <2>2. SortableKeys' = SortableKeys /\ Works' = Works
    BY <1>1 DEF SortableKeys, Works
  <2> QED
    BY <1>3, <2>1, <2>2 DEF TableOK
<1>4. CASE User
  <2>1. ASSUME NEW p, Go(p) PROVE TableOK'
    BY <1>2, <2>1 DEF Go
  <2>2. ASSUME ~ \/ \E p \in {"list", Elsewhere} : Go(p)
                 \/ \E matches \in SUBSET Names : Search(matches)
                 \/ \E key \in ClickedKeys : SortBy(key)
                 \/ PrevPage
                 \/ NextPage
        PROVE  UNCHANGED <<page, query, table, shrunk>>
    BY <1>4, <2>2 DEF User, TypeChip, AddChip, RemoveChip, RemovesChip, Backspace, SubmitForm, Upload,
       PickDelete, CancelDelete, ConfirmDelete, pageVars
  <2> QED
    BY <1>3, <2>1, <2>2, TableActions
<1>5. CASE Client
  BY <1>2, <1>5 DEF Client, Arrives, GetsOld, Poll, SamePage, Settle
<1>6. CASE Server
  BY <1>2, <1>3, <1>6 DEF Server, Read, FetchFails, SamePage, CarryOut, LoseCall, RunJob, StartJob, Make,
     CompleteJob, FailJob, JobStep, pageVars
<1>7. CASE UNCHANGED vars
  BY <1>3, <1>7 DEF vars
<1> QED
  BY <1>4, <1>5, <1>6, <1>7 DEF Next

PageInv ==
    /\ calls \subseteq CallType /\ CountOK
    /\ CacheTyped
    /\ FieldsOK /\ FormOK /\ TableOK

LEMMA PageInitInv == Init => PageInv
<1> SUFFICES ASSUME Init PROVE PageInv
  OBVIOUS
<1>1. resource \in Resources /\ MaxCalls[resource] \in Nat /\ MaxFaults[resource] \in Nat /\ MaxJobs \in Nat
  BY BoundsAreNumbers DEF Init
<1>2. calls \subseteq CallType
  BY DEF Init
<1>3. CountOK
  <2>1. /\ calls = {} /\ jobs = <<>> /\ sentCalls = 0 /\ applied = 0 /\ Awaiting = {} /\ AwaitingJobs = {}
    BY DEF Init, Awaiting, AwaitingJobs
  <2>2. IsFiniteSet(calls) /\ Cardinality(Awaiting) = 0 /\ Cardinality(AwaitingJobs) = 0
    BY <2>1, FS_EmptySet
  <2> QED
    BY <1>1, <2>1, <2>2 DEF CountOK
<1>4. CacheTyped
  <2>1. \A k \in Keys : query[k] = NewQuery
    BY DEF Init
  <2> QED
    BY <2>1 DEF CacheTyped, CachedOK, NewQuery
<1>5. FieldsOK
  BY <1>1 DEF Init, FieldsOK
<1>6. FormOK
  BY DEF Init, FormOK, IsInjective
<1>7. TableOK
  <2>1. FreshTable \in TableOf(SortableKeys) /\ FreshTable.page = 1
    BY DEF FreshTable, TableOf
  <2> QED
    BY <2>1 DEF Init, TableOK, InRange
<1> QED
  BY <1>2, <1>3, <1>4, <1>5, <1>6, <1>7 DEF PageInv

LEMMA RowsOK == ASSUME ListInv, PageInv PROVE Rows(query) \in Seq(Row)
BY ShownAreRows DEF ListInv, ServerOK, PageInv, CacheTyped

LEMMA PageNextInv == ListInv /\ PageInv /\ [Next]_vars => PageInv'
<1> SUFFICES ASSUME ListInv, PageInv, [Next]_vars PROVE PageInv'
  OBVIOUS
<1>1. ServerOK /\ resource \in Resources /\ applied \in Nat
  BY DEF ListInv, ServerOK
<1>2. Rows(query) \in Seq(Row)
  BY RowsOK
<1>3. CacheTyped' /\ \A k \in Keys : CachedOK(k, query'[k], applied)
  BY CacheTypes DEF PageInv
<1>4. Rows(query') \in Seq(Row)
  BY <1>1, <1>3, ShownAreRows
<1>5. (calls \subseteq CallType)'
  BY <1>1, CallTypes DEF PageInv, FieldsOK
<1>6. CountOK'
  BY <1>1, CountSteps DEF PageInv
<1>7. FieldsOK'
  BY <1>1, <1>2, FieldSteps DEF PageInv
<1>8. FormOK'
  BY FormSteps DEF PageInv
<1>9. TableOK'
  BY <1>1, <1>2, <1>4, TableSteps DEF PageInv
<1> QED
  BY <1>3, <1>5, <1>6, <1>7, <1>8, <1>9 DEF PageInv

(* PageInv holds in every state: what is cached is what the server has     *)
(* answered, the requests are within their bounds, and the table is fresh  *)
(* where it is not shown and has rows on its page unless rows have left.   *)
THEOREM PageInvariance == Spec => []PageInv
<1>1. Init => PageInv
  BY PageInitInv
<1>2. ListInv /\ PageInv /\ [Next]_vars => PageInv'
  BY PageNextInv
<1> QED
  BY <1>1, <1>2, ListInvariance, PTL DEF Spec

(* TypeOK holds for any resource, names, number of jobs, requests and      *)
(* faults; the chips of the form stay different texts.                     *)
THEOREM ListTypeCorrect == Spec => []TypeOK
<1>1. ListInv /\ PageInv => TypeOK
  <2> SUFFICES ASSUME ListInv, PageInv PROVE TypeOK
    OBVIOUS
  <2>1. /\ ServerOK /\ resource \in Resources /\ applied \in Nat /\ calls \subseteq CallType /\ CountOK
        /\ CacheTyped /\ FieldsOK /\ FormOK /\ TableOK
        /\ stored \in [Names -> {"absent", "empty", "filled"}]
    BY DEF ListInv, ServerOK, PageInv
  <2>2. /\ applied \in 0 .. MaxCalls[resource] /\ Len(jobs) <= MaxJobs
        /\ sentCalls \in 0 .. MaxCalls[resource]
    BY <2>1, AwaitingFinite, JobsOK, BoundsAreNumbers DEF CountOK
  <2>3. \A i \in DOMAIN jobs : jobs[i] \in Job
    BY <2>1, JobMember DEF JobType, Job
  <2>4. ASSUME NEW k \in Keys
        PROVE  LET Typed(a) == IF k = "jobs" THEN JobsAnswer(a) ELSE ListAnswer(a)
               IN  /\ query[k].data = NoData \/ Typed(query[k].data)
                   /\ query[k].wire \in {Idle, Sent} \/ Typed(query[k].wire)
    <3>1. ASSUME NEW a, AnswerOK(k, a, applied)
          PROVE  IF k = "jobs" THEN JobsAnswer(a) ELSE ListAnswer(a)
      <4>1. a.at \in 0 .. MaxCalls[resource]
        BY <2>1, <2>2, <3>1, BoundsAreNumbers DEF AnswerOK
      <4>2. CASE k = "jobs"
        BY <3>1, <4>1, <4>2 DEF AnswerOK, JobsAnswer
      <4>3. CASE k # "jobs"
        BY <3>1, <4>1, <4>3 DEF AnswerOK, ListAnswer
      <4> QED
        BY <4>2, <4>3
    <3>2. CachedOK(k, query[k], applied)
      BY <2>1 DEF CacheTyped
    <3> QED
      BY <3>1, <3>2 DEF CachedOK
  <2>5. calls \subseteq Call
    <3> SUFFICES ASSUME NEW c \in calls PROVE c \in Call
      OBVIOUS
    <3>1. c \in CallType /\ c.at \in Nat /\ c.at <= applied
      BY <2>1 DEF ListInv, CallOK
    <3>2. c.at \in 0 .. MaxCalls[resource]
      BY <2>1, <2>2, <3>1, BoundsAreNumbers
    <3> QED
      BY <3>1, <3>2 DEF CallType, Call
  <2>6. acked \in [Keys -> 0 .. MaxCalls[resource]]
    <3>1. \A k \in Keys : acked[k] \in Nat /\ acked[k] <= applied
      BY DEF ListInv, CacheOK
    <3>2. \A k \in Keys : acked[k] \in 0 .. MaxCalls[resource]
      BY <2>1, <2>2, <3>1, BoundsAreNumbers
    <3> QED
      BY <2>1, <3>2 DEF FieldsOK
  <2>7. Range(chips) \subseteq ChipTexts /\ IsInjective(chips) /\ chipInput \in ChipTexts \cup {Blank}
    <3>1. \A i \in DOMAIN chips : chips[i] \in ChipTexts
      BY <2>1 DEF FormOK
    <3> QED
      BY <2>1, <3>1 DEF FormOK, Range
  <2>8. /\ page \in {"list", Elsewhere} /\ table \in TableOf(SortableKeys)
        /\ deleteTarget \in Names \cup {NoName}
        /\ shrunk \in BOOLEAN /\ faults \in 0 .. MaxFaults[resource]
    BY <2>1 DEF FieldsOK, TableOK
  <2> QED
    BY <2>1, <2>2, <2>3, <2>4, <2>5, <2>6, <2>7, <2>8 DEF TypeOK
<1> QED
  BY <1>1, ListInvariance, PageInvariance, PTL

(* The table says that there is no data, though rows match its filter,     *)
(* only when rows have left it since the page was chosen: its own search,  *)
(* sort and pager never lead to an empty page, whatever the page size.     *)
THEOREM PageHasRows == Spec => []EmptyPageMeansShrunk
<1>1. ListInv /\ PageInv => EmptyPageMeansShrunk
  BY RowsOK, OutOfRangeIsEmpty DEF PageInv
<1> QED
  BY <1>1, ListInvariance, PageInvariance, PTL

=============================================================================
