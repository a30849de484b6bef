---------------------------- MODULE OwnedBrowser ----------------------------
(***************************************************************************)
(* packages/browser-playwright: an owned browser from its launch to its     *)
(* close.  The browser, its context and its page are acquired one after the *)
(* other while the caller may abort; what arrives after that is closed on   *)
(* arrival.  Then actions are submitted on the session until it is closed.  *)
(***************************************************************************)
EXTENDS Naturals

CONSTANTS Action,     \* the actions a caller invokes
          Inspecting  \* those for which one element must be counted first

Handle == {"browser", "context", "page"}
Closable == {"browser", "context"}
\* What may be wrong with the options.
Option == {"nothing", "engine", "launch", "context", "proxy"}

VARIABLES
  launch,    \* where launchOwnedBrowser is
  signal,    \* the caller has aborted
  listening, \* the abort listener is on
  stopped,   \* OwnedBrowserAcquisitionCleanup #stopped
  handle,    \* handle[h]: none, alive, or being or having been closed
  session,   \* the session: none, open, closing its context, its browser, closed
  act,       \* act[a]: where the action is
  matches,   \* matches[a]: how many elements its locator was found to match
  submitted  \* submitted[a]: how often it was submitted

browserVars == <<launch, signal, listening, stopped, handle, session, act, matches, submitted>>
acquisition == <<launch, signal, listening, stopped>>
actions == <<act, matches, submitted>>

TypeOK ==
  /\ launch \in {"new", "loading", "submitting", "browser", "context", "page", "settling", "refused", "failed", "done"}
  /\ signal \in BOOLEAN /\ listening \in BOOLEAN /\ stopped \in BOOLEAN
  /\ handle \in [Handle -> {"none", "alive", "closing", "closed"}]
  /\ session \in {"none", "open", "closingContext", "closingBrowser", "closed"}
  /\ act \in [Action -> {"new", "counting", "counted", "submitted", "over"}]
  /\ matches \in [Action -> 0 .. 2] /\ submitted \in [Action -> Nat]

Init == /\ launch = "new" /\ signal = FALSE /\ listening = FALSE
        /\ stopped = FALSE /\ handle = [h \in Handle |-> "none"] /\ session = "none"
        /\ act = [a \in Action |-> "new"] /\ matches = [a \in Action |-> 0]
        /\ submitted = [a \in Action |-> 0]
-----------------------------------------------------------------------------
(* OwnedBrowserAcquisitionCleanup                                          *)

\* stop: each handle is closed on its own, once.
Closing(held) == [h \in Handle |-> IF h \in Closable /\ held[h] = "alive" THEN "closing" ELSE held[h]]
Arrives(h) == IF stopped THEN Closing([handle EXCEPT ![h] = "alive"]) ELSE [handle EXCEPT ![h] = "alive"]

Abort == /\ ~signal /\ signal' = TRUE
         /\ IF listening THEN stopped' = TRUE /\ handle' = Closing(handle)
                         ELSE UNCHANGED <<stopped, handle>>
         /\ UNCHANGED <<launch, listening, session, actions>>

\* boundedBestEffort: the close of one handle ends, well or not.
CloseEnds(h) == /\ handle[h] = "closing" /\ session = "none"
                /\ handle' = [handle EXCEPT ![h] = "closed"]
                /\ UNCHANGED <<acquisition, session, actions>>
-----------------------------------------------------------------------------
(* launchOwnedBrowser                                                      *)

AssertEngine(options) == options # "engine"
LaunchOptions(options) == options # "launch"
ContextOptions(options) == options # "context"
ProxyOptions(options) == options # "proxy"

\* The options are read before anything is started.
ValidateOptions(options) ==
  /\ launch = "new"
  /\ launch' = IF /\ AssertEngine(options) /\ LaunchOptions(options)
                   /\ ContextOptions(options) /\ ProxyOptions(options) THEN "loading" ELSE "refused"
  /\ UNCHANGED <<signal, listening, stopped, handle, session, actions>>

LoadPlaywright ==
  /\ launch = "loading"
  /\ \/ launch' = "submitting" /\ listening' = TRUE /\ stopped' = signal
     \/ launch' = "refused" /\ UNCHANGED <<listening, stopped>>
  /\ UNCHANGED <<signal, handle, session, actions>>

\* beforeSubmit: the runner refuses, for an abort or a deadline, or the browser starts.
SubmitLaunch ==
  /\ launch = "submitting"
  /\ \/ ~signal /\ launch' = "browser" /\ UNCHANGED listening
     \/ launch' = "refused" /\ listening' = FALSE
  /\ UNCHANGED <<signal, stopped, handle, session, actions>>

Following(h) == CASE h = "browser" -> "context" [] h = "context" -> "page" [] OTHER -> "done"

\* Mutant: the signal is not asked again when the last of them is there.
Acquired_Late(h) ==
  /\ launch = h /\ handle' = Arrives(h)
  /\ IF signal /\ h # "page"
       THEN launch' = "settling" /\ UNCHANGED <<listening, session>>
       ELSE /\ launch' = Following(h)
            /\ session' = IF h = "page" THEN "open" ELSE session
            /\ listening' = (h # "page")
  /\ UNCHANGED <<signal, stopped, actions>>

\* throwIfAborted after every step; the session is handed over in the turn of the last.
Acquired(h) ==
  /\ launch = h /\ handle' = Arrives(h)
  /\ IF signal THEN launch' = "settling" /\ UNCHANGED <<listening, session>>
     ELSE /\ launch' = Following(h)
          /\ session' = IF h = "page" THEN "open" ELSE session
          /\ listening' = (h # "page")
  /\ UNCHANGED <<signal, stopped, actions>>

AcquisitionFails(h) == /\ launch = h /\ launch' = "settling"
                       /\ UNCHANGED <<signal, listening, stopped, handle, session, actions>>

\* settle stops, and waits for closes that are bounded in time.
Settle == /\ launch = "settling" /\ ~stopped
          /\ stopped' = TRUE /\ handle' = Closing(handle)
          /\ UNCHANGED <<launch, signal, listening, session, actions>>

Settled == /\ launch = "settling" /\ stopped
           /\ launch' = "failed" /\ listening' = FALSE
           /\ UNCHANGED <<signal, stopped, handle, session, actions>>
-----------------------------------------------------------------------------
(* The session                                                             *)

\* invokeSurface: an inspecting action counts the elements of its locator first.
Invoke(a) == /\ act[a] = "new" /\ session = "open"
             /\ act' = [act EXCEPT ![a] = IF a \in Inspecting THEN "counting" ELSE "counted"]
             /\ matches' = [matches EXCEPT ![a] = IF a \in Inspecting THEN 0 ELSE 1]
             /\ UNCHANGED <<acquisition, handle, session, submitted>>

InvokeClosed(a) == /\ act[a] = "new" /\ session \notin {"none", "open"}
                   /\ act' = [act EXCEPT ![a] = "over"]
                   /\ UNCHANGED <<acquisition, handle, session, matches, submitted>>

Counted(a) == /\ act[a] = "counting"
              /\ \E n \in 0 .. 2 : /\ matches' = [matches EXCEPT ![a] = n]
                                  /\ act' = [act EXCEPT ![a] = IF n = 1 THEN "counted" ELSE "over"]
              /\ UNCHANGED <<acquisition, handle, session, submitted>>

\* requireOpen and beforeSubmit, in the turn of the submission.
Submit_Counted(a) == /\ act[a] = "counted" /\ act' = [act EXCEPT ![a] = "submitted"]
                     /\ submitted' = [submitted EXCEPT ![a] = @ + 1]
                     /\ UNCHANGED <<acquisition, handle, session, matches>>
Submit(a) == /\ act[a] = "counted"
             /\ \/ /\ session = "open" /\ act' = [act EXCEPT ![a] = "submitted"]
                   /\ submitted' = [submitted EXCEPT ![a] = @ + 1]
                \/ act' = [act EXCEPT ![a] = "over"] /\ UNCHANGED submitted
             /\ UNCHANGED <<acquisition, handle, session, matches>>

ActionEnds(a) == /\ act[a] = "submitted" /\ act' = [act EXCEPT ![a] = "over"]
                 /\ UNCHANGED <<acquisition, handle, session, matches, submitted>>

\* close: once, the context before the browser that owns it, whatever becomes of it.
Close == /\ session = "open" /\ session' = "closingContext"
         /\ handle' = [handle EXCEPT !["context"] = "closing"]
         /\ UNCHANGED <<acquisition, actions>>

ContextCloses == /\ session = "closingContext" /\ session' = "closingBrowser"
                 /\ handle' \in {[handle EXCEPT !["context"] = c, !["browser"] = "closing"] : c \in {"alive", "closed"}}
                 /\ UNCHANGED <<acquisition, actions>>

BrowserCloses == /\ session = "closingBrowser" /\ session' = "closed"
                 /\ handle' \in {[handle EXCEPT !["browser"] = c] : c \in {"alive", "closed"}}
                 /\ UNCHANGED <<acquisition, actions>>

Next == \/ Abort \/ LoadPlaywright \/ SubmitLaunch \/ Settle \/ Settled
        \/ \E options \in Option : ValidateOptions(options)
        \/ \E h \in Handle : CloseEnds(h) \/ Acquired(h) \/ AcquisitionFails(h)
        \/ \E a \in Action : Invoke(a) \/ InvokeClosed(a) \/ Counted(a) \/ Submit(a) \/ ActionEnds(a)
        \/ Close \/ ContextCloses \/ BrowserCloses
-----------------------------------------------------------------------------
(* Properties                                                              *)

\* A browser is handed over or closed: a session is open on handles no cleanup has
\* begun to close, and once a launch was rejected each handle that had arrived,
\* before or after the abort, is at least being closed, with no session of it.
HandedOverOrClosed ==
  /\ session = "open" => ~stopped /\ \A h \in Handle : handle[h] = "alive"
  /\ launch \in {"refused", "failed"} => /\ session = "none"
                                         /\ \A h \in Closable : handle[h] # "alive"

\* An action is submitted once at most, after its element was found to be the only one,
\* and on a session that is open then: a close may come while the element is counted.
OnOpen == \A a \in Action : submitted'[a] # submitted[a] =>
            session = "open" /\ submitted'[a] = 1 /\ matches[a] = 1
SubmittedOnOpen == [][OnOpen]_browserVars
=============================================================================
