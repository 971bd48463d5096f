------------------------------- MODULE Browse -------------------------------
(***************************************************************************)
(* One call of ChromiumBrowser.Browse (webutils/browser.go): a fresh       *)
(* headless Chromium loads a page while every request it makes is paused,  *)
(* checked against the URL policy by a goroutine of its own and then       *)
(* failed or continued, and the first error of these goroutines stops the  *)
(* browser.  Search runs the same machine on the search engine's page.     *)
(*                                                                         *)
(* Chromium and chromedp are modelled as Browse uses them: a context that  *)
(* is done makes every Run fail, browserCancel waits until the process is  *)
(* gone, a page is loaded when none of the requests it waits for is in     *)
(* flight, and it may make more requests afterwards.  A URL is the policy's *)
(* verdict on it; the extraction of text and links is left out.            *)
(***************************************************************************)
EXTENDS Naturals

CONSTANTS
  Requests,      \* the requests a page makes
  Doc,           \* the request of Navigate
  Late,          \* the requests made after the page has loaded
  MaxRedirects,  \* limits.MaxRedirects
  MaxHops        \* bound: redirects a site answers with

ASSUME RequestsAssumption == Doc \in Requests /\ Late \subseteq Requests \ {Doc}
ASSUME RedirectsAssumption == MaxRedirects \in Nat /\ MaxHops \in Nat

VARIABLES
  main,       \* where the goroutine of Browse is
  result,     \* what it returns
  checkErr,   \* the first error of the paused requests, guarded by checkErrMtx
  locked,     \* checkErrMtx is held while browserCancel waits
  context,    \* why browserCtx is done, or "live"
  caller,     \* the caller has cancelled its context
  browser,    \* the Chromium process
  profile,    \* the temporary profile directory exists
  redirects,  \* redirects counted
  net,        \* the browser's view of each request
  allowed,    \* the policy's verdict on its present URL
  aborted,    \* the requests the page gave up while they were paused
  handler,    \* the goroutine of its last EventRequestPaused
  error       \* the error that goroutine records

callVars == <<main, result, caller, profile>>
errVars == <<checkErr, locked>>
browserVars == <<context, browser>>
requestVars == <<redirects, net, allowed, aborted, handler, error>>
vars == <<callVars, errVars, browserVars, requestVars>>

NoError == "none"
Loading == {"navigate", "extract"}
InFlight == {"paused", "sent"}

Live == context = "live"

Init == /\ main = "validate" /\ result = NoError
        /\ checkErr = NoError /\ locked = FALSE
        /\ context = "live" /\ caller = FALSE
        /\ browser = "none" /\ profile = FALSE
        /\ redirects = 0
        /\ net = [r \in Requests |-> "unmade"]
        /\ allowed = [r \in Requests |-> TRUE]
        /\ aborted = {}
        /\ handler = [r \in Requests |-> "none"]
        /\ error = [r \in Requests |-> NoError]

-----------------------------------------------------------------------------
(* The goroutine of Browse.                                                *)

Return(outcome) == result' = outcome /\ main' = "unwind"

\* The URL, the executable, its arguments or the profile directory fail.
Reject == /\ main = "validate"
          /\ Return("rejected")
          /\ UNCHANGED <<caller, profile, errVars, browserVars, requestVars>>

\* The first Run starts the browser, unless the context is done by then.
Launch == /\ main = "validate"
          /\ main' = "enable"
          /\ profile' = TRUE
          /\ browser' = IF Live THEN "running" ELSE "none"
          /\ UNCHANGED <<result, caller, errVars, context, requestVars>>

EnableFails == /\ main = "enable"
               /\ Return("enable failed")
               /\ UNCHANGED <<caller, profile, errVars, browserVars, requestVars>>

Enable == /\ main = "enable" /\ Live
          /\ main' = "navigate"
          /\ UNCHANGED <<result, caller, profile, errVars, browserVars, requestVars>>

Loaded == /\ main = "navigate" /\ Live
          /\ net[Doc] = "loaded"
          /\ \A r \in Requests : net[r] \notin InFlight
          /\ main' = "extract"
          /\ UNCHANGED <<result, caller, profile, errVars, browserVars, requestVars>>

NavigateFails == /\ main = "navigate"
                 /\ net[Doc] = "failed"
                 /\ main' = "failed"
                 /\ UNCHANGED <<result, caller, profile, errVars, browserVars, requestVars>>

RunFails == /\ main \in Loading /\ ~Live
            /\ main' = "failed"
            /\ UNCHANGED <<result, caller, profile, errVars, browserVars, requestVars>>

Extracted == /\ main = "extract" /\ Live
             /\ main' = "check"
             /\ UNCHANGED <<result, caller, profile, errVars, browserVars, requestVars>>

\* getCheckErr waits for the mutex; a recorded error explains the failure.
Explain == /\ main = "failed" /\ ~locked
           /\ Return(IF checkErr # NoError THEN checkErr
                     ELSE IF context = "deadline" THEN "deadline"
                     ELSE "navigation failed")
           /\ UNCHANGED <<caller, profile, errVars, browserVars, requestVars>>

Blocked == /\ main = "check" /\ ~locked /\ checkErr # NoError
           /\ Return(checkErr)
           /\ UNCHANGED <<caller, profile, errVars, browserVars, requestVars>>

NotBlocked == /\ main = "check" /\ ~locked /\ checkErr = NoError
              /\ main' = "final"
              /\ UNCHANGED <<result, caller, profile, errVars, browserVars, requestVars>>

\* The address the page ended at is checked with the caller's context.
Finish == /\ main = "final"
          /\ \/ ~caller /\ Return("ok")
             \/ Return("final destination")
             \/ Return("screenshot too large")
          /\ UNCHANGED <<caller, profile, errVars, browserVars, requestVars>>

(* The deferred calls, last first: browserCancel, which waits, then the    *)
(* removal of the profile.                                                 *)
Stop == /\ main = "unwind"
        /\ main' = "stopping"
        /\ context' = IF Live THEN "stopped" ELSE context
        /\ UNCHANGED <<result, caller, profile, errVars, browser, requestVars>>

\* A faulty variant of the step below: the defers are in the other order.
RemoveFirst == /\ main = "stopping"
               /\ main' = "returned"
               /\ profile' = FALSE
               /\ UNCHANGED <<result, caller, errVars, browserVars, requestVars>>

RemoveProfile == /\ main = "stopping" /\ browser # "running"
                 /\ main' = "returned"
                 /\ profile' = FALSE
                 /\ UNCHANGED <<result, caller, errVars, browserVars, requestVars>>

Main == \/ Reject \/ Launch \/ EnableFails \/ Enable
        \/ Loaded \/ NavigateFails \/ RunFails \/ Extracted
        \/ Explain \/ Blocked \/ NotBlocked \/ Finish
        \/ Stop \/ RemoveProfile

-----------------------------------------------------------------------------
(* setCheckErr: the first error is kept and stops the browser, under the   *)
(* mutex, which is held until browserCancel returns.                       *)

\* A faulty variant of the operator below: the last error is kept.
RecordLast(e) == /\ ~locked
                 /\ checkErr' = e
                 /\ locked' = TRUE
                 /\ context' = IF Live THEN "stopped" ELSE context

Record(e) == /\ ~locked
             /\ IF checkErr = NoError
                THEN /\ checkErr' = e
                     /\ locked' = TRUE
                     /\ context' = IF Live THEN "stopped" ELSE context
                ELSE UNCHANGED <<errVars, context>>

\* A faulty variant of the step below: the mutex outlives the call.
UnlockLate == /\ locked /\ main = "returned"
              /\ locked' = FALSE
              /\ UNCHANGED <<callVars, checkErr, browserVars, requestVars>>

Unlock == /\ locked /\ browser # "running"
          /\ locked' = FALSE
          /\ UNCHANGED <<callVars, checkErr, browserVars, requestVars>>

(* The goroutine of EventRequestPaused.  A lookup fails once the context   *)
(* is done; a literal address needs none.                                  *)
\* A faulty variant of the step below: a redirected request is not checked.
ValidateOnce(r) ==
  /\ handler[r] = "validate"
  /\ \/ (allowed[r] \/ redirects > 0) /\ handler' = [handler EXCEPT ![r] = "continue"]
     \/ (~allowed[r] \/ ~Live) /\ handler' = [handler EXCEPT ![r] = "fail"]
  /\ UNCHANGED <<callVars, errVars, browserVars, redirects, net, allowed, aborted, error>>

Validate(r) ==
  /\ handler[r] = "validate"
  /\ \/ allowed[r] /\ handler' = [handler EXCEPT ![r] = "continue"]
     \/ (~allowed[r] \/ ~Live) /\ handler' = [handler EXCEPT ![r] = "fail"]
  /\ UNCHANGED <<callVars, errVars, browserVars, redirects, net, allowed, aborted, error>>

\* A command of the goroutine reaches the browser's paused request.
Reaches(r) == Live /\ r \notin aborted

FailRequest(r) ==
  /\ handler[r] = "fail"
  /\ handler' = [handler EXCEPT ![r] = "record"]
  /\ IF Reaches(r)
     THEN /\ net' = [net EXCEPT ![r] = "failed"]
          /\ error' = [error EXCEPT ![r] = "blocked"]
     ELSE /\ error' = [error EXCEPT ![r] = "fail request"]
          /\ UNCHANGED net
  /\ UNCHANGED <<callVars, errVars, browserVars, redirects, allowed, aborted>>

ContinueRequest(r) ==
  /\ handler[r] = "continue"
  /\ IF Reaches(r)
     THEN /\ net' = [net EXCEPT ![r] = "sent"]
          /\ handler' = [handler EXCEPT ![r] = "none"]
          /\ UNCHANGED error
     ELSE /\ handler' = [handler EXCEPT ![r] = "record"]
          /\ error' = [error EXCEPT ![r] = "continue request"]
          /\ UNCHANGED net
  /\ UNCHANGED <<callVars, errVars, browserVars, redirects, allowed, aborted>>

RecordError(r) == /\ handler[r] = "record"
                  /\ Record(error[r])
                  /\ handler' = [handler EXCEPT ![r] = "none"]
                  /\ UNCHANGED <<callVars, browser, redirects, net, allowed, aborted, error>>

Handler(r) == Validate(r) \/ FailRequest(r) \/ ContinueRequest(r) \/ RecordError(r)

-----------------------------------------------------------------------------
(* Chromium.                                                               *)

Loadable(r) == IF r = Doc THEN main = "navigate"
               ELSE net[Doc] = "loaded" /\ main = IF r \in Late THEN "extract" ELSE "navigate"

Paused(r) == /\ net' = [net EXCEPT ![r] = "paused"]
             /\ handler' = [handler EXCEPT ![r] = "validate"]
             /\ \E verdict \in BOOLEAN : allowed' = [allowed EXCEPT ![r] = verdict]

MakeRequest(r) == /\ Live /\ Loadable(r) /\ net[r] = "unmade"
                  /\ Paused(r)
                  /\ UNCHANGED <<callVars, errVars, browserVars, redirects, aborted, error>>

\* EventRequestWillBeSent counts the redirect before the request is paused
\* again; past the limit setCheckErr runs in the listener itself.
Redirect(r) == /\ Live /\ net[r] = "sent" /\ redirects < MaxHops
               /\ redirects' = redirects + 1
               /\ Paused(r)
               /\ IF redirects + 1 > MaxRedirects
                  THEN Record("redirect limit")
                  ELSE UNCHANGED <<errVars, context>>
               /\ UNCHANGED <<callVars, browser, aborted, error>>

Respond(r) == /\ Live /\ net[r] = "sent"
              /\ \E end \in {"loaded", "failed"} : net' = [net EXCEPT ![r] = end]
              /\ UNCHANGED <<callVars, errVars, browserVars, redirects, allowed, aborted,
                             handler, error>>

Abort(r) == /\ Live /\ net[r] = "paused" /\ r # Doc
            /\ net' = [net EXCEPT ![r] = "failed"]
            /\ aborted' = aborted \cup {r}
            /\ UNCHANGED <<callVars, errVars, browserVars, redirects, allowed, handler, error>>

Exit == /\ browser = "running" /\ ~Live
        /\ browser' = "gone"
        /\ UNCHANGED <<callVars, errVars, context, requestVars>>

Crash == /\ browser = "running" /\ Live
         /\ browser' = "gone" /\ context' = "lost"
         /\ UNCHANGED <<callVars, errVars, requestVars>>

Chromium == \/ \E r \in Requests : MakeRequest(r) \/ Redirect(r) \/ Respond(r) \/ Abort(r)
            \/ Crash

-----------------------------------------------------------------------------
(* The end of runCtx from outside: its timeout, or the caller.             *)

Deadline == /\ main # "validate" /\ Live
            /\ context' = "deadline"
            /\ UNCHANGED <<callVars, errVars, browser, requestVars>>

Cancel == /\ main # "returned" /\ ~caller
          /\ caller' = TRUE
          /\ context' = IF Live THEN "cancelled" ELSE context
          /\ UNCHANGED <<main, result, profile, errVars, browser, requestVars>>

Next == \/ Main
        \/ \E r \in Requests : Handler(r)
        \/ Unlock
        \/ Chromium
        \/ Exit
        \/ Deadline
        \/ Cancel

Spec == Init /\ [][Next]_vars

(* Browse and its goroutines run on, the timeout passes, and a Chromium    *)
(* whose context is done is killed; a page or a site owes nothing.         *)
FairSpec == /\ Spec
            /\ WF_vars(Main) /\ WF_vars(Unlock)
            /\ \A r \in Requests : WF_vars(Handler(r))
            /\ WF_vars(Exit) /\ WF_vars(Deadline)

-----------------------------------------------------------------------------

(* The policy on "redirects/frames/subresources" (README.md:158-160): a    *)
(* request that the browser may send has a URL the policy allows, after    *)
(* every redirect and whatever the other goroutines do, and a page that is *)
(* redirected more often than MaxRedirects is not let go on.               *)
OnlyAllowedSent ==
  /\ \A r \in Requests : net[r] \in {"sent", "loaded"} => allowed[r]
  /\ Live => redirects <= MaxRedirects

(* The first error wins (browser.go:215-224): the commands that fail       *)
(* because setCheckErr stopped the browser are never what Browse reports.  *)
(* Such an error is reported only if the context was ended by something    *)
(* else, or the page gave the request up.                                  *)
CauseIsReported ==
  result \in {"fail request", "continue request"}
    => context # "stopped" \/ aborted # {}

(* Every return path stops the browser and then removes its profile: the   *)
(* directory outlives the process that uses it, and neither outlives the   *)
(* call.                                                                   *)
NothingLeftBehind ==
  /\ browser = "running" => profile
  /\ main = "returned" => browser # "running" /\ ~profile

(* The timeout bounds the call, although the error path waits for the      *)
(* browser's end while it holds the mutex that Browse asks for.            *)
BrowseReturns == <>(main = "returned")

(* What browser_test.go:517-519 expects: a page with a request that was    *)
(* blocked does not succeed.                                               *)
BlockedFailsBrowse ==
  result = "ok" => \A r \in Requests : error[r] # "blocked"
=============================================================================
