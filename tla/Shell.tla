-------------------------------- MODULE Shell --------------------------------
(***************************************************************************)
(* What may cover a page: the navigation drawer of AppShell.tsx and the    *)
(* full-screen view of ResultPanel.tsx, both an Overlay.tsx that holds the *)
(* focus and the scrolling with useFocusTrap.ts.                           *)
(*                                                                         *)
(* React renders first and runs the effects of what it has rendered later, *)
(* except after a click or a key: those effects run in the same step here, *)
(* and a click finds none still to run.  A navigation takes its time, and  *)
(* the next page is rendered whatever has been opened meanwhile.           *)
(***************************************************************************)

CONSTANT Routes

ASSUME RoutesAssumption == Routes # {}

VARIABLES
  pathname,  \* usePathname()
  going,     \* the path the router is on its way to
  applied,   \* the path for which AppShell's effect has run
  wide,      \* what the media query matches, from 1024 pixels on
  noticed,   \* what it matched at the last change event
  hasResult, \* the page shows a result, with its button "Full screen"
  opened,    \* the overlays rendered as open
  trap,      \* for those whose effect has run: [focus, overflow] as found
  overflow,  \* that of the body's style, "none" if it has none
  focus,     \* document.activeElement: a button, "page" for the rest of the page, or "body"
  openedOn   \* for the property only: the path the drawer was opened on

shellVars == <<pathname, going, applied, wide, noticed, hasResult, opened, trap, overflow, focus, openedOn>>

Overlays == {"drawer", "full"}

ShellInit ==
  /\ pathname \in Routes /\ going = pathname /\ applied = pathname /\ openedOn = pathname
  /\ wide \in BOOLEAN /\ noticed = wide
  /\ hasResult = FALSE
  /\ opened = {} /\ trap = <<>>
  /\ overflow = "none" /\ focus = "body"

\* No effect of a trap is still to run.
TrapsDone == DOMAIN trap = opened

\* What focus() takes: what is in the document and not hidden.
Focusable(element) ==
  CASE element = "menu" -> ~wide
    [] element = "full button" -> hasResult
    [] element \in Overlays -> element \in opened
    [] OTHER -> TRUE

------------------------------------------------------------------------------
(* useFocusTrap                                                             *)

\* The effect, for an overlay that is opened by a button.  Some browsers move the focus
\* to a button that is clicked.
Opens(overlay, button) ==
  /\ opened' = opened \cup {overlay}
  /\ \E found \in {focus, button, "body"} :
       trap' = [o \in DOMAIN trap \cup {overlay} |->
                  IF o = overlay THEN [focus |-> found, overflow |-> overflow] ELSE trap[o]]
  /\ overflow' = "hidden"
  /\ focus' = overlay

\* The cleanup.  What is not in the document any more is not focused, nor is what is hidden.
Releases(overlay) ==
  /\ trap' = [o \in DOMAIN trap \ {overlay} |-> trap[o]]
  /\ overflow' = trap[overlay].overflow
  /\ focus' = IF Focusable(trap[overlay].focus) THEN trap[overlay].focus
              ELSE IF focus = overlay THEN "body" ELSE focus

\* onClose, by Escape, the scrim, a button or a link in it.
Closes(overlay) == overlay \in opened /\ opened' = opened \ {overlay} /\ Releases(overlay)

\* The cleanup after a render that was not caused by a click.
Release(overlay) ==
  /\ overlay \in DOMAIN trap \ opened
  /\ Releases(overlay)
  /\ UNCHANGED <<pathname, going, applied, wide, noticed, hasResult, opened, openedOn>>

\* A render without some of the overlays: what was focused in them no longer is.
Disappear(overlays) ==
  /\ opened' = opened \ overlays
  /\ focus' = IF focus \in overlays THEN "body" ELSE focus

\* Tab, which stays inside while something is open; a toast above it can be clicked too.
MoveFocus ==
  /\ focus' \in {"body"} \cup (IF opened = {} THEN {"page", "menu", "full button"} ELSE opened)
  /\ TrapsDone /\ Focusable(focus')
  /\ UNCHANGED <<pathname, going, applied, wide, noticed, hasResult, opened, trap, overflow, openedOn>>

------------------------------------------------------------------------------
(* AppShell and ResultPanel                                                 *)

\* The button of Topbar, which a wide window has not and an overlay covers.  A browser
\* sends the change event before it paints the window as it is now.
OpenMenu ==
  /\ ~wide /\ ~noticed /\ opened = {} /\ TrapsDone /\ applied = pathname
  /\ Opens("drawer", "menu")
  /\ openedOn' = pathname
  /\ UNCHANGED <<pathname, going, applied, wide, noticed, hasResult>>

OpenFull ==
  /\ hasResult /\ opened = {} /\ TrapsDone /\ applied = pathname
  /\ Opens("full", "full button")
  /\ UNCHANGED <<pathname, going, applied, wide, noticed, hasResult, openedOn>>

Close ==
  /\ TrapsDone
  /\ \E overlay \in opened : Closes(overlay)
  /\ UNCHANGED <<pathname, going, applied, wide, noticed, hasResult, openedOn>>

\* A link of Sidebar in the drawer: onNavigate, then the router.
FollowInDrawer(next) ==
  /\ TrapsDone
  /\ Closes("drawer")
  /\ going' = next
  /\ UNCHANGED <<pathname, applied, wide, noticed, hasResult, openedOn>>

\* A link of the page or the wide window's sidebar, or the browser's Back, which needs no
\* click in the page.
Navigate(next) ==
  /\ going' = next
  /\ UNCHANGED <<pathname, applied, wide, noticed, hasResult, opened, trap, overflow, focus, openedOn>>

\* The router renders the next page; the drawer is AppShell's and stays, what was the
\* page's goes.
Arrive ==
  /\ going # pathname
  /\ pathname' = going
  /\ hasResult' = FALSE
  /\ opened' = opened \ {"full"}
  /\ focus' = IF focus \in {"full", "full button", "page"} THEN "body" ELSE focus
  /\ UNCHANGED <<going, applied, wide, noticed, trap, overflow, openedOn>>

\* Slip: the effect does not depend on the path.
PathEffectOnce ==
  /\ applied # pathname
  /\ applied' = pathname
  /\ UNCHANGED <<pathname, going, wide, noticed, hasResult, opened, trap, overflow, focus, openedOn>>

\* AppShell's first effect, with the render that it causes.
PathEffect ==
  /\ applied # pathname
  /\ applied' = pathname
  /\ Disappear({"drawer"})
  /\ UNCHANGED <<pathname, going, wide, noticed, hasResult, trap, overflow, openedOn>>

\* The window is resized; a button that is hidden loses the focus.
Resize ==
  /\ wide' = ~wide
  /\ focus' = IF focus = "menu" /\ wide' THEN "body" ELSE focus
  /\ UNCHANGED <<pathname, going, applied, noticed, hasResult, opened, trap, overflow, openedOn>>

\* AppShell's second effect: onChange, with the render that it causes.
OnChange ==
  /\ noticed # wide
  /\ noticed' = wide
  /\ Disappear(IF wide THEN {"drawer"} ELSE {})
  /\ UNCHANGED <<pathname, going, applied, wide, hasResult, trap, overflow, openedOn>>

\* A run of the page ends with a result; a new one is started, for which nothing may
\* cover the form.
ResultComes ==
  /\ ~hasResult
  /\ hasResult' = TRUE
  /\ UNCHANGED <<pathname, going, applied, wide, noticed, opened, trap, overflow, focus, openedOn>>

ResultGoes ==
  /\ hasResult /\ opened = {} /\ TrapsDone
  /\ hasResult' = FALSE
  /\ focus' = "page"
  /\ UNCHANGED <<pathname, going, applied, wide, noticed, opened, trap, overflow, openedOn>>

ShellNext ==
  \/ OpenMenu \/ OpenFull \/ Close \/ MoveFocus
  \/ \E next \in Routes : FollowInDrawer(next) \/ Navigate(next)
  \/ Arrive \/ PathEffect \/ Resize \/ OnChange \/ ResultComes \/ ResultGoes
  \/ \E overlay \in Overlays : Release(overlay)

ShellSpec == ShellInit /\ [][ShellNext]_shellVars

------------------------------------------------------------------------------
\* The page is given back: whatever is opened and closed, by whom and in whatever order
\* with navigations, resizing and results, a page that nothing holds scrolls again and
\* has the focus, one that is covered does not, and once the effects have run a drawer
\* is only open in a narrow window, on the page it was opened on.
PageGivenBack ==
  /\ DOMAIN trap = {} => overflow = "none" /\ focus \notin Overlays
  /\ DOMAIN trap # {} => overflow = "hidden" /\ focus \in opened \cup {"body"}
  /\ focus \in Overlays => focus \in opened
  /\ "drawer" \in opened =>
       /\ applied = pathname => openedOn = pathname
       /\ noticed = wide => ~wide
==============================================================================
