----------------------------- MODULE ThemeSwitch -----------------------------
(***************************************************************************)
(* The theme: src/Web/src/lib/theme.ts, hooks/useTheme.tsx and the root    *)
(* layout.  Three pieces of code decide on it in turn: the server, which   *)
(* knows the cookie; a script in the page's head, which runs before the    *)
(* first paint; and the provider, once React has taken over the page.      *)
(*                                                                         *)
(* The browser may refuse either store, or take no more into its storage;  *)
(* the cookie may expire; and another tab of the visitor has the same      *)
(* stores.                                                                 *)
(***************************************************************************)

VARIABLES
  browser,     \* [storage, cookies]: what the browser lets a page store
  stored,      \* localStorage's lg-theme, or "none"
  cookie,      \* the cookie's, or "none"
  systemDark,  \* what the media query matches
  dark,        \* the class of the document
  provider,    \* ThemeProvider: its state, the systemDark of its last render, and the
               \* theme its effect has applied, "none" before the first
  memory       \* for the properties only: [choice, taken, here, quiet, painted]

themeVars == <<browser, stored, cookie, systemDark, dark, provider, memory>>

Preferences == {"light", "dark", "system"}

parsePreference(value) == IF value \in {"light", "dark"} THEN value ELSE "system"

resolveTheme(preference, isDark) ==
  IF preference = "system" THEN (IF isDark THEN "dark" ELSE "light") ELSE preference

\* The getItem of both readers; one that throws finds nothing.
Read == IF browser.storage = "blocked" THEN "none" ELSE stored

\* THEME_INIT_SCRIPT: whether it sets the class.
Script ==
  LET p == IF Read # "none" THEN Read ELSE cookie
  IN p = "dark" \/ (p # "light" /\ systemDark)

\* The server renders with the cookie's preference, and the script runs.  The page that
\* is left remembers nothing but what was stored.
Load ==
  /\ dark' = Script
  /\ provider' = [live |-> FALSE, preference |-> parsePreference(cookie), systemDark |-> FALSE,
                  applied |-> "none"]
  /\ memory' = [memory EXCEPT !.choice = IF memory.taken THEN memory.choice ELSE "none",
                              !.here = TRUE, !.quiet = TRUE, !.painted = dark']
  /\ UNCHANGED <<browser, stored, cookie, systemDark>>

ThemeInit ==
  /\ browser \in [storage : {"works", "full", "blocked"}, cookies : BOOLEAN]
  /\ stored = "none" /\ cookie = "none"
  /\ systemDark \in BOOLEAN
  /\ dark = systemDark
  /\ provider = [live |-> FALSE, preference |-> "system", systemDark |-> FALSE, applied |-> "none"]
  /\ memory = [choice |-> "none", taken |-> FALSE, here |-> TRUE, quiet |-> TRUE, painted |-> dark]

\* Slip: the provider stays with the preference the server rendered.
MountByCookie ==
  /\ ~provider.live
  /\ provider' = [live |-> TRUE, preference |-> provider.preference, systemDark |-> systemDark,
                  applied |-> resolveTheme(provider.preference, FALSE)]
  /\ dark' = (provider'.applied = "dark")
  /\ UNCHANGED <<browser, stored, cookie, systemDark, memory>>

\* The effects of the first render, for which the system is light: the stored preference
\* becomes the state if it is another one, the rendered one is applied, and the media
\* query is looked at.
Mount ==
  /\ ~provider.live
  /\ provider' = [live |-> TRUE,
                  preference |-> IF Read # "none" THEN parsePreference(Read) ELSE provider.preference,
                  systemDark |-> systemDark,
                  applied |-> resolveTheme(provider.preference, FALSE)]
  /\ dark' = (provider'.applied = "dark")
  /\ UNCHANGED <<browser, stored, cookie, systemDark, memory>>

resolved == resolveTheme(provider.preference, provider.systemDark)

\* The effect after a render that resolves to another theme.
applyTheme ==
  /\ provider.live /\ resolved # provider.applied
  /\ provider' = [provider EXCEPT !.applied = resolved]
  /\ dark' = (resolved = "dark")
  /\ UNCHANGED <<browser, stored, cookie, systemDark, memory>>

\* The media query's change event.
Notice ==
  /\ provider.live
  /\ provider' = [provider EXCEPT !.systemDark = systemDark]
  /\ UNCHANGED <<browser, stored, cookie, systemDark, dark, memory>>

\* Each of the two stores may fail without the other.
persistPreference(preference) ==
  /\ stored' = IF browser.storage = "works" THEN preference ELSE stored
  /\ cookie' = IF browser.cookies THEN preference ELSE cookie

\* A store from which a page that is loaded later reads it.
Taken == browser.storage = "works" \/ (browser.storage = "blocked" /\ browser.cookies)

\* setPreference of the provider
setPreference(preference) ==
  /\ provider.live
  /\ provider' = [provider EXCEPT !.preference = preference]
  /\ persistPreference(preference)
  /\ memory' = [memory EXCEPT !.choice = preference, !.taken = Taken, !.here = TRUE, !.quiet = FALSE]
  /\ UNCHANGED <<browser, systemDark, dark>>

\* The menu in the bar of every page.
ThemeToggle == \E preference \in Preferences : setPreference(preference)

\* The visitor chooses in another tab.
ElsewhereChosen(preference) ==
  /\ persistPreference(preference)
  /\ memory' = [memory EXCEPT !.choice = preference, !.taken = Taken, !.here = FALSE]
  /\ UNCHANGED <<browser, systemDark, dark, provider>>

SystemTurns ==
  /\ systemDark' = ~systemDark
  /\ memory' = [memory EXCEPT !.quiet = FALSE]
  /\ UNCHANGED <<browser, stored, cookie, dark, provider>>

\* After a year, or at the visitor's wish.
CookieExpires ==
  /\ cookie' = "none"
  /\ memory' = [memory EXCEPT !.taken = memory.taken /\ browser.storage = "works"]
  /\ UNCHANGED <<browser, stored, systemDark, dark, provider>>

ThemeNext ==
  \/ Load \/ Mount \/ applyTheme \/ Notice \/ ThemeToggle \/ SystemTurns \/ CookieExpires
  \/ \E preference \in Preferences : ElsewhereChosen(preference)

ThemeSpec == ThemeInit /\ [][ThemeNext]_themeVars

------------------------------------------------------------------------------
\* The page has come to rest: no effect and no event is on its way.
Settled == provider.live /\ provider.systemDark = systemDark /\ provider.applied = resolved

\* Once a page has come to rest, it has the theme that follows from the visitor's last
\* choice, in whichever page that was made (unless in another tab while this one was
\* open); and unless something has changed since, it is the theme that was painted
\* first.  This holds with either store refused, the cookie gone, and whatever older
\* choice the cookie has.
ThemeKept == Settled =>
  /\ dark <=> resolveTheme(provider.preference, systemDark) = "dark"
  /\ memory.here /\ memory.choice # "none" => provider.preference = memory.choice
  /\ memory.here /\ memory.quiet => dark = memory.painted
==============================================================================
