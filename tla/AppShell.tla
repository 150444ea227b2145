----------------------------- MODULE AppShell -----------------------------
(***************************************************************************)
(* What surrounds the pages of the dashboard: the theme                    *)
(* (src/web/src/components/theme-provider.tsx), the sidebar with its       *)
(* navigation (Layout.tsx, ui/sidebar.tsx, hooks/use-mobile.ts), the       *)
(* command palette and the routes (App.tsx), in several tabs of a browser. *)
(*                                                                         *)
(* The tabs share the stored theme, the cookie and the colour scheme of    *)
(* the system.  The browser (external) tells the other tabs of a change of *)
(* the storage by events that arrive later, in the order of the changes,   *)
(* and tells a tab later, too, of a change of the system's scheme or of    *)
(* the window's width.  A handler and the render and effects it causes are *)
(* one step; of a new document the first render and its effects are two,   *)
(* for it hears of nothing in between.                                     *)
(*                                                                         *)
(* A path is the sequence of its segments; Id is any run.  An address may  *)
(* be typed with capitals.                                                 *)
(*                                                                         *)
(* A behaviour is a scene: the tabs there may be, and whether the user     *)
(* moves about in them, while nothing but the key d changes the theme, or  *)
(* leaves them where they are.  At most MaxUnderWay storage events wait    *)
(* for a tab when another one changes the theme.                           *)
(***************************************************************************)
EXTENDS Integers, Sequences, FiniteSets

CONSTANTS
    Tabs,
    Scenes,         \* records [tabs, moves]
    MaxUnderWay

ASSUME AppShellAssumption ==
    /\ MaxUnderWay \in Nat
    /\ \A s \in Scenes : s.tabs \subseteq Tabs /\ s.tabs # {} /\ s.moves \in BOOLEAN

VARIABLES
    scene,
    storedTheme,    \* localStorage's theme: Nothing, Junk or a theme
    system,         \* the system's colour scheme
    cookie,         \* the sidebar cookie, which nothing reads
    rendered,       \* tabs whose application has rendered, but listens to nothing yet
    running,        \* tabs in which the application runs
    theme, shown,   \* theme[t], and the class of t's document
    inbox,          \* storage events on their way to t
    schemeNews,     \* tabs that have to be told of the system's scheme
    strayed,        \* tabs that the last change of the storage does not reach (ghost)
    path, byUrl,    \* byUrl: the path was typed, not led to (ghost)
    typing,         \* the focus is in a text field
    wide, isMobile, open, openMobile    \* the window's width, and the sidebar's state

themeVars == <<storedTheme, system, theme, shown, inbox, schemeNews, strayed>>
shellVars == <<cookie, path, byUrl, typing, wide, isMobile, open, openMobile>>
docVars == <<scene, rendered, running, themeVars>>
appVars == <<docVars, shellVars>>

-----------------------------------------------------------------------------
(* Routes and navigation.                                                  *)

Sections == {"artifacts", "datasets", "indexes", "evaluations", "chat"}
Id == "<id>"

PagePaths == {<<>>} \cup {<<s>> : s \in Sections}
             \cup {<<s, "new">> : s \in {"artifacts", "indexes", "evaluations"}}
             \cup {<<"evaluations", Id>>, <<"evaluations", Id, "compare">>}

\* Addresses of pages in other letters, and two that lead nowhere.
RespelledPaths == {<<"Datasets">>, <<"Evaluations", "new">>, <<"evaluations", "NEW">>}
Paths == PagePaths \cup RespelledPaths \cup {<<"nowhere">>, <<"chat", "new">>}

Folded(p) ==
    [i \in DOMAIN p |-> CASE p[i] = "Datasets"    -> "datasets"
                          [] p[i] = "Evaluations" -> "evaluations"
                          [] p[i] = "NEW"         -> "new"
                          [] OTHER                -> p[i]]

\* App: the element of a path, whose capitals a Route does not look at; every page is
\* inside Layout, and no other path has an element.
RouteOf(address) ==
    LET p == Folded(address)
    IN  CASE p = <<>>                           -> "Dashboard"
          [] p = <<"artifacts">>                -> "Artifacts"
          [] p = <<"artifacts", "new">>         -> "ArtifactCreate"
          [] p = <<"datasets">>                 -> "Datasets"
          [] p = <<"indexes">>                  -> "Indexes"
          [] p = <<"indexes", "new">>           -> "IndexCreate"
          [] p = <<"evaluations">>              -> "RunList"
          [] p = <<"evaluations", "new">>       -> "EvalCreate"
          [] Len(p) = 2 /\ p[1] = "evaluations" -> "RunDetail"
          [] Len(p) = 3 /\ p[1] = "evaluations" /\ p[3] = "compare" -> "RunCompare"
          [] p = <<"chat">>                     -> "Chat"
          [] OTHER                              -> "nothing"

\* Where the links and buttons of each page lead, the creation forms' success included.
DashboardLinks == {<<"artifacts">>, <<"indexes">>, <<"evaluations">>, <<"datasets">>,
                   <<"evaluations", "new">>}
ArtifactsLinks == {<<"artifacts", "new">>}
ArtifactCreateLinks == {<<"artifacts">>}
IndexesLinks == {<<"indexes", "new">>}
IndexCreateLinks == {<<"indexes">>}
RunListLinks == {<<"evaluations", "new">>, <<"evaluations", Id>>, <<"evaluations", Id, "compare">>}
EvalCreateLinks == {<<"evaluations">>}
RunDetailLinks == {<<"evaluations">>}
RunCompareLinks == {<<"evaluations">>}

LinksOf(page) ==
    CASE page = "Dashboard"      -> DashboardLinks
      [] page = "Artifacts"      -> ArtifactsLinks
      [] page = "ArtifactCreate" -> ArtifactCreateLinks
      [] page = "Indexes"        -> IndexesLinks
      [] page = "IndexCreate"    -> IndexCreateLinks
      [] page = "RunList"        -> RunListLinks
      [] page = "EvalCreate"     -> EvalCreateLinks
      [] page = "RunDetail"      -> RunDetailLinks
      [] page = "RunCompare"     -> RunCompareLinks
      [] OTHER                   -> {}

InLayout(t) == t \in running /\ RouteOf(path[t]) # "nothing"

NAV_GROUPS == << {<<>>}, {<<"artifacts">>, <<"datasets">>}, {<<"indexes">>},
                 {<<"evaluations">>}, {<<"chat">>} >>
NavItems == UNION {NAV_GROUPS[g] : g \in DOMAIN NAV_GROUPS}

StartsWith(p, to) == Len(to) <= Len(p) /\ SubSeq(p, 1, Len(to)) = to

\* Faulty variant: the dashboard is no special case.
isActiveByPrefix(p, to) == StartsWith(p, to)

\* startsWith, which looks at capitals; no section's name begins another's, so that
\* segments do for it.
isActive(p, to) == IF to = <<>> THEN p = <<>> ELSE StartsWith(p, to)

-----------------------------------------------------------------------------
(* The theme.                                                              *)

Schemes == {"dark", "light"}
THEME_VALUES == Schemes \cup {"system"}
Nothing == "nothing"
Junk == "junk"
Cleared == "cleared"    \* the event of localStorage.clear(), which names no key

isTheme(v) == v \in THEME_VALUES

ThemeOf(v) == IF isTheme(v) THEN v ELSE "system"

Opposite(scheme) == IF scheme = "dark" THEN "light" ELSE "dark"
Resolved(th) == IF th = "system" THEN system ELSE th

\* Faulty variant: the key makes the system's theme dark.
nextThemeDark(th) == IF th = "dark" THEN "light" ELSE "dark"

\* What the key d makes of a theme.
nextTheme(th) == Opposite(Resolved(th))

\* Faulty variant: the listener is never removed.
Listening(t) == TRUE

\* The media listener is there only while the theme is the system's.
FollowsSystem(t) == theme[t] = "system"

\* Faulty variant: what is no theme changes nothing.
HeardTheme(t, v) == IF isTheme(v) THEN v ELSE theme[t]

\* What a storage event sets: nothing, when its key is not the theme's.
NewTheme(t, v) == IF v = Cleared THEN theme[t] ELSE ThemeOf(v)

\* setThemeState and the effect, which runs only when the theme has changed.
Applied(t, th) ==
    /\ theme' = [theme EXCEPT ![t] = th]
    /\ shown' = IF th = theme[t] THEN shown ELSE [shown EXCEPT ![t] = Resolved(th)]

-----------------------------------------------------------------------------
(* A new document in tab t, at path p, up to the first render.             *)

Opened(t, p) ==
    /\ rendered' = rendered \cup {t} /\ running' = running \ {t}
    /\ theme' = [theme EXCEPT ![t] = ThemeOf(storedTheme)]
    /\ strayed' = strayed \ {t}
    /\ inbox' = [inbox EXCEPT ![t] = <<>>]
    /\ schemeNews' = schemeNews \ {t}
    /\ path' = [path EXCEPT ![t] = p]
    /\ byUrl' = [byUrl EXCEPT ![t] = TRUE]
    /\ typing' = [typing EXCEPT ![t] = FALSE]
    /\ isMobile' = [isMobile EXCEPT ![t] = FALSE]
    /\ open' = [open EXCEPT ![t] = TRUE]
    /\ openMobile' = [openMobile EXCEPT ![t] = FALSE]

AppInit ==
    /\ scene \in Scenes
    /\ storedTheme \in {Nothing, "light"} /\ system \in Schemes /\ cookie = Nothing
    /\ rendered = {} /\ running = {CHOOSE t \in scene.tabs : TRUE}
    /\ theme = [t \in Tabs |-> ThemeOf(storedTheme)]
    /\ shown = [t \in Tabs |-> Resolved(ThemeOf(storedTheme))]
    /\ inbox = [t \in Tabs |-> <<>>] /\ schemeNews = {} /\ strayed = {}
    /\ path = [t \in Tabs |-> <<>>] /\ byUrl = [t \in Tabs |-> TRUE]
    /\ typing = [t \in Tabs |-> FALSE]
    /\ wide = [t \in Tabs |-> TRUE] /\ isMobile = [t \in Tabs |-> FALSE]
    /\ open = [t \in Tabs |-> TRUE] /\ openMobile = [t \in Tabs |-> FALSE]

-----------------------------------------------------------------------------
(* Theme actions.                                                          *)

\* A tab that starts is told nothing, and one that writes before it has heard of
\* another's change is overruled by it.
SetItem(writer, v) ==
    /\ storedTheme' = v
    /\ inbox' = [u \in Tabs |-> IF u \in running \ {writer} /\ v # storedTheme
                                THEN Append(inbox[u], v) ELSE inbox[u]]
    /\ strayed' = (IF v = storedTheme THEN strayed \ {writer} ELSE rendered)
                  \cup (IF inbox[writer] = <<>> THEN {} ELSE {writer})

Room == \A t \in running : Len(inbox[t]) < MaxUnderWay

\* The key d, when it is typed into no text field.
PressD(t) ==
    /\ t \in running /\ ~typing[t] /\ Room
    /\ SetItem(t, nextTheme(theme[t]))
    /\ Applied(t, nextTheme(theme[t]))
    /\ UNCHANGED <<scene, rendered, running, system, schemeNews, shellVars>>

handleStorageChange(t) ==
    /\ t \in running /\ inbox[t] # <<>>
    /\ Applied(t, NewTheme(t, Head(inbox[t])))
    /\ inbox' = [inbox EXCEPT ![t] = Tail(@)]
    /\ UNCHANGED <<scene, rendered, running, storedTheme, system, schemeNews, strayed, shellVars>>

\* Another page of the origin removes the theme, or stores something else under its key.
Overwrite(v) ==
    /\ ~scene.moves /\ Room /\ v # storedTheme
    /\ storedTheme' = v /\ strayed' = rendered
    /\ inbox' = [u \in Tabs |-> IF u \in running THEN Append(inbox[u], v) ELSE inbox[u]]
    /\ UNCHANGED <<scene, rendered, running, system, theme, shown, schemeNews, shellVars>>

\* Another page of the origin clears the storage.
Clear ==
    /\ ~scene.moves /\ Room /\ storedTheme # Nothing
    /\ storedTheme' = Nothing /\ strayed' = rendered \cup running
    /\ inbox' = [u \in Tabs |-> IF u \in running THEN Append(inbox[u], Cleared) ELSE inbox[u]]
    /\ UNCHANGED <<scene, rendered, running, system, theme, shown, schemeNews, shellVars>>

SystemChanges ==
    /\ ~scene.moves /\ system' = Opposite(system)
    /\ schemeNews' = running
    /\ UNCHANGED <<scene, rendered, running, storedTheme, theme, shown, inbox, strayed, shellVars>>

\* The event of the media query, heard or not.
SchemeChange(t) ==
    /\ t \in schemeNews /\ schemeNews' = schemeNews \ {t}
    /\ shown' = IF FollowsSystem(t) THEN [shown EXCEPT ![t] = system] ELSE shown
    /\ UNCHANGED <<scene, rendered, running, storedTheme, system, theme, inbox, strayed, shellVars>>

-----------------------------------------------------------------------------
(* Tabs.                                                                   *)

\* A new tab, a reload, or an address typed in.
Load(t, p) ==
    /\ t \in scene.tabs /\ (scene.moves \/ p = <<>>)
    /\ Opened(t, p)
    /\ UNCHANGED <<scene, storedTheme, system, shown, cookie, wide>>

\* The effects of the first render: the theme is shown, and the listeners are added.
Mount(t) ==
    /\ t \in rendered
    /\ rendered' = rendered \ {t} /\ running' = running \cup {t}
    /\ shown' = [shown EXCEPT ![t] = Resolved(theme[t])]
    /\ UNCHANGED <<scene, storedTheme, system, theme, inbox, schemeNews, strayed, shellVars>>

Unloaded(t) ==
    /\ rendered' = rendered \ {t} /\ running' = running \ {t}
    /\ inbox' = [inbox EXCEPT ![t] = <<>>]
    /\ schemeNews' = schemeNews \ {t}
    /\ strayed' = strayed \ {t}
    /\ UNCHANGED <<scene, storedTheme, system, theme, shown, shellVars>>

Close(t) == t \in rendered \cup running /\ ~scene.moves /\ Unloaded(t)

(* Ctrl+K opens the palette, whose input looks for the state of a Command  *)
(* around it: there is none in CommandDialog or CommandPalette, so it      *)
(* throws, and without an error boundary the whole application is gone     *)
(* until the document is loaded again.                                     *)
OpenPalette(t) == t \in running /\ scene.moves /\ Unloaded(t)

-----------------------------------------------------------------------------
(* The sidebar.                                                            *)

Moves(t) == scene.moves /\ InLayout(t)

\* What useIsMobile's effect and listener do, once the browser calls them.
Measure(t) ==
    /\ Moves(t) /\ isMobile[t] # ~wide[t]
    /\ isMobile' = [isMobile EXCEPT ![t] = ~wide[t]]
    /\ UNCHANGED <<docVars, cookie, path, byUrl, typing, wide, open, openMobile>>

Resize(t) ==
    /\ scene.moves /\ t \in running
    /\ wide' = [wide EXCEPT ![t] = ~@]
    /\ UNCHANGED <<docVars, cookie, path, byUrl, typing, isMobile, open, openMobile>>

\* Ctrl+B or Cmd+B, in a text field, too: nothing else calls it here.
toggleSidebar(t) ==
    /\ Moves(t)
    /\ IF isMobile[t]
       THEN /\ openMobile' = [openMobile EXCEPT ![t] = ~@]
            /\ UNCHANGED <<open, cookie>>
       ELSE /\ open' = [open EXCEPT ![t] = ~@]
            /\ cookie' = IF open[t] THEN "false" ELSE "true"
            /\ UNCHANGED openMobile
    /\ UNCHANGED <<docVars, path, byUrl, typing, wide, isMobile>>

\* The sheet's own ways to close.
CloseSheet(t) ==
    /\ Moves(t) /\ isMobile[t] /\ openMobile[t]
    /\ openMobile' = [openMobile EXCEPT ![t] = FALSE]
    /\ UNCHANGED <<docVars, cookie, path, byUrl, typing, wide, isMobile, open>>

(* Sidebar: a sheet on a mobile screen; otherwise a column that is as wide *)
(* as its labels or its icons, and that style sheets hide in a narrow      *)
(* window even before isMobile is told.                                    *)
SidebarForm(t) ==
    CASE isMobile[t] -> IF openMobile[t] THEN "sheet" ELSE "none"
      [] ~isMobile[t] /\ ~wide[t] -> "none"
      [] ~isMobile[t] /\ wide[t]  -> IF open[t] THEN "labels" ELSE "icons"

ShowsLabels(t) == SidebarForm(t) \in {"sheet", "labels"}

\* Faulty variant: the sheet has tooltips, too.
TooltipWhenCollapsed(t) == ~open[t]

\* SidebarMenuButton: hidden={state !== "collapsed" || isMobile}.
ShowsTooltip(t) == ~open[t] /\ ~isMobile[t]

-----------------------------------------------------------------------------
(* Moving about.  The sidebar and its sheet stay as they are.              *)

GoTo(t, p) ==
    /\ p # path[t]
    /\ path' = [path EXCEPT ![t] = p]
    /\ byUrl' = [byUrl EXCEPT ![t] = FALSE]
    /\ typing' = [typing EXCEPT ![t] = FALSE]
    /\ UNCHANGED <<docVars, cookie, wide, isMobile, open, openMobile>>

FollowItem(t, to) == Moves(t) /\ SidebarForm(t) # "none" /\ GoTo(t, to)

\* The sheet covers the page.
FollowLink(t, p) ==
    /\ Moves(t) /\ SidebarForm(t) # "sheet" /\ p \in LinksOf(RouteOf(path[t]))
    /\ GoTo(t, p)

\* The search box of a list, the fields of a form, the question of the chat.
HasField(page) == page \notin {"Dashboard", "RunDetail", "RunCompare"}

Focus(t) ==
    /\ Moves(t) /\ SidebarForm(t) # "sheet" /\ HasField(RouteOf(path[t]))
    /\ typing' = [typing EXCEPT ![t] = ~@]
    /\ UNCHANGED <<docVars, cookie, path, byUrl, wide, isMobile, open, openMobile>>

-----------------------------------------------------------------------------
AppNext ==
    \/ \E t \in Tabs : PressD(t)
    \/ \E t \in Tabs : handleStorageChange(t)
    \/ \E v \in {Nothing, Junk} : Overwrite(v)
    \/ Clear
    \/ SystemChanges
    \/ \E t \in Tabs : SchemeChange(t)
    \/ \E t \in Tabs, p \in Paths : Load(t, p)
    \/ \E t \in Tabs : Mount(t)
    \/ \E t \in Tabs : Close(t)
    \/ \E t \in Tabs : OpenPalette(t)
    \/ \E t \in Tabs : Measure(t)
    \/ \E t \in Tabs : Resize(t)
    \/ \E t \in Tabs : toggleSidebar(t)
    \/ \E t \in Tabs : CloseSheet(t)
    \/ \E t \in Tabs, to \in NavItems : FollowItem(t, to)
    \/ \E t \in Tabs, p \in PagePaths : FollowLink(t, p)
    \/ \E t \in Tabs : Focus(t)

AppSpec == AppInit /\ [][AppNext]_appVars

-----------------------------------------------------------------------------
(* Types; a link leads to a page, so that only a typed address shows none. *)
AppTypeOK ==
    /\ storedTheme \in THEME_VALUES \cup {Nothing, Junk} /\ system \in Schemes
    /\ cookie \in {"true", "false", Nothing}
    /\ rendered \cup running \subseteq scene.tabs /\ rendered \cap running = {}
    /\ schemeNews \subseteq running /\ strayed \subseteq rendered \cup running
    /\ theme \in [Tabs -> THEME_VALUES] /\ shown \in [Tabs -> Schemes]
    /\ \A t \in Tabs : Len(inbox[t]) <= MaxUnderWay
    /\ \A t \in running : path[t] \in Paths /\ (RouteOf(path[t]) = "nothing" => byUrl[t])

(* A tab that has been told everything has the stored theme, unless the    *)
(* last change of the storage could not reach it: it changed the theme     *)
(* itself before it had heard of another's change, which overrules its own *)
(* word when it comes late; it was starting, between the render that reads *)
(* the storage and the effect that listens; or the storage was cleared.    *)
TabsAgree ==
    \A t \in running \ strayed : inbox[t] = <<>> => theme[t] = ThemeOf(storedTheme)

(* What a document shows is its theme's scheme, through every change of    *)
(* theme and system, but for a change of the system it follows and has not *)
(* been told of.                                                           *)
ShownIsTheTheme ==
    \A t \in running : shown[t] = Resolved(theme[t]) \/ (theme[t] = "system" /\ t \in schemeNews)

(* The key d always changes what is shown, under the system's theme, too,  *)
(* unless a change of the system is about to be told.                      *)
KeyFlipsWhatIsShown ==
    [][\A t \in Tabs : PressD(t) /\ t \notin schemeNews => shown'[t] # shown[t]]_appVars

(* On every page the item of the page's section is marked, and no other.   *)
(* The routes do not look at capitals but the items do, so that after an   *)
(* address typed in other letters no item may be marked at all.            *)
SectionIsMarked ==
    \A t \in running : InLayout(t) =>
        LET marked  == {to \in NavItems : isActive(path[t], to)}
            section == SubSeq(Folded(path[t]), 1, IF path[t] = <<>> THEN 0 ELSE 1)
        IN  \/ marked = {section}
            \/ marked = {} /\ byUrl[t] /\ path[t] # Folded(path[t])

(* Wherever the sidebar is shown, an item is named by its label or by its  *)
(* tooltip, never by both, whatever the window's width was when the        *)
(* sidebar was toggled, and whether or not the width has been heard of.    *)
LabelOrTooltip ==
    \A t \in running : InLayout(t) /\ SidebarForm(t) # "none" => (ShowsLabels(t) <=> ~ShowsTooltip(t))
=============================================================================
