---------------------------- MODULE BrowseProofs ----------------------------
(***************************************************************************)
(* Proofs about Browse: the browser sends only what the policy allows, the *)
(* error that is reported is the cause, and nothing outlives the call.     *)
(*                                                                         *)
(* The argument: a request the browser may send, or is about to be told to *)
(* send, is allowed (Sendable); the first recorded error ends the context, *)
(* so a live context has none (LiveIsClean), and before the deferred calls *)
(* a context that was stopped was stopped by such an error (StoppedByError); *)
(* a command fails only if the context is over or the page gave a request  *)
(* up (FailedCommands), and then the error recorded first is another one   *)
(* unless the context was ended from outside (Recorded, Reported).         *)
(***************************************************************************)
EXTENDS Browse, TLAPS

CommandErrors == {"fail request", "continue request"}
Errors == CommandErrors \cup {"blocked"}
Unwinding == {"stopping", "returned"}

TypeOK == /\ net \in [Requests -> {"unmade", "paused", "sent", "loaded", "failed"}]
          /\ allowed \in [Requests -> BOOLEAN]
          /\ handler \in [Requests -> {"none", "validate", "continue", "fail", "record"}]
          /\ error \in [Requests -> Errors \cup {NoError}]
          /\ redirects \in Nat

Sendable == \A r \in Requests :
                net[r] \in {"sent", "loaded"} \/ handler[r] = "continue" => allowed[r]
LiveIsClean == Live => checkErr = NoError /\ redirects <= MaxRedirects
StoppedByError == context = "stopped" /\ main \notin Unwinding => checkErr # NoError
FailedCommands == \A r \in Requests : handler[r] = "record" =>
                      /\ error[r] \in Errors
                      /\ error[r] \in CommandErrors => ~Live \/ aborted # {}

\* The context was ended from outside, or a request was given up.
Excused == context \notin {"live", "stopped"} \/ aborted # {}
Recorded == main \notin Unwinding /\ checkErr \in CommandErrors => Excused
Reported == result \in CommandErrors => Excused

CauseInv == LiveIsClean /\ StoppedByError /\ FailedCommands /\ Recorded /\ Reported
BrowseInv == TypeOK /\ Sendable /\ CauseInv
-----------------------------------------------------------------------------
LEMMA BrowseInvInit == Init => BrowseInv
  BY RedirectsAssumption
     DEF Init, BrowseInv, CauseInv, TypeOK, Sendable, LiveIsClean, StoppedByError, FailedCommands,
         Recorded, Reported, CommandErrors, Errors, NoError, Live

(* The steps of the goroutine of Browse leave the requests as they are. *)
LEMMA MainOnly == Main => UNCHANGED <<checkErr, requestVars>>
  BY DEF Main, Reject, Launch, EnableFails, Enable, Loaded, NavigateFails, RunFails, Extracted,
         Explain, Blocked, NotBlocked, Finish, Stop, RemoveProfile, errVars

(* The goroutines of the requests and the page leave Browse where it is, *)
(* and start no browser. *)
LEMMA HandlerOnly ==
  ASSUME NEW r, Handler(r)
  PROVE  UNCHANGED <<main, result, profile, browser>>
  <1>1. CASE Validate(r)
    BY <1>1 DEF Validate, callVars, browserVars
  <1>2. CASE FailRequest(r)
    BY <1>2 DEF FailRequest, callVars, browserVars
  <1>3. CASE ContinueRequest(r)
    BY <1>3 DEF ContinueRequest, callVars, browserVars
  <1>4. CASE RecordError(r)
    BY <1>4 DEF RecordError, callVars
  <1> QED
    BY <1>1, <1>2, <1>3, <1>4 DEF Handler

LEMMA ChromiumOnly ==
  ASSUME Chromium
  PROVE  UNCHANGED <<main, result, profile>> /\ browser' \in {browser, "gone"}
  <1> USE DEF callVars, browserVars
  <1>1. CASE \E r \in Requests : MakeRequest(r)
    BY <1>1 DEF MakeRequest
  <1>2. CASE \E r \in Requests : Redirect(r)
    BY <1>2 DEF Redirect
  <1>3. CASE \E r \in Requests : Respond(r) \/ Abort(r)
    BY <1>3 DEF Respond, Abort
  <1>4. CASE Crash
    BY <1>4 DEF Crash
  <1> QED
    BY <1>1, <1>2, <1>3, <1>4 DEF Chromium

LEMMA CountedRedirect ==
  ASSUME NEW n \in Nat
  PROVE  n + 1 \in Nat /\ (~(n + 1 > MaxRedirects) => n + 1 <= MaxRedirects)
  BY RedirectsAssumption

(* Types, and what may be sent. *)
LEMMA SendableNext ==
  ASSUME BrowseInv, [Next]_vars
  PROVE  TypeOK' /\ Sendable'
  <1> USE DEF BrowseInv, TypeOK, Sendable, Errors, CommandErrors, NoError
  <1>1. CASE Main
    BY <1>1, MainOnly DEF requestVars
  <1>2. CASE \E r \in Requests : Handler(r)
    <2> PICK r \in Requests : Handler(r)
      BY <1>2
    <2>1. CASE Validate(r)
      BY <2>1 DEF Validate
    <2>2. CASE FailRequest(r)
      BY <2>2 DEF FailRequest
    <2>3. CASE ContinueRequest(r)
      BY <2>3 DEF ContinueRequest
    <2>4. CASE RecordError(r)
      BY <2>4 DEF RecordError
    <2> QED
      BY <2>1, <2>2, <2>3, <2>4 DEF Handler
  <1>3. CASE Chromium
    <2>1. CASE \E r \in Requests : MakeRequest(r)
      BY <2>1, ZenonT(40) DEF MakeRequest, Paused
    <2>2. CASE \E r \in Requests : Redirect(r)
      <3>1. PICK r \in Requests : Redirect(r)
        BY <2>2
      <3>2. UNCHANGED error /\ redirects' = redirects + 1 /\ Paused(r)
        BY <3>1 DEF Redirect
      <3>3. /\ net' = [net EXCEPT ![r] = "paused"]
            /\ handler' = [handler EXCEPT ![r] = "validate"]
        BY <3>2 DEF Paused
      <3>4. PICK verdict \in BOOLEAN : allowed' = [allowed EXCEPT ![r] = verdict]
        BY <3>2 DEF Paused
      <3>5. Sendable'
        BY <3>3, <3>4
      <3>6. UNCHANGED error /\ redirects' \in Nat
        BY <3>2, CountedRedirect
      <3>7. TypeOK'
        BY <3>3, <3>4, <3>6
      <3> QED
        BY <3>5, <3>7
    <2>3. CASE \E r \in Requests : Respond(r)
      BY <2>3 DEF Respond
    <2>4. CASE \E r \in Requests : Abort(r)
      BY <2>4 DEF Abort
    <2>5. CASE Crash
      BY <2>5 DEF Crash, requestVars
    <2> QED
      BY <1>3, <2>1, <2>2, <2>3, <2>4, <2>5 DEF Chromium
  <1>4. CASE Unlock \/ Exit \/ Deadline \/ Cancel \/ UNCHANGED vars
    BY <1>4 DEF Unlock, Exit, Deadline, Cancel, vars, requestVars
  <1> QED
    BY <1>1, <1>2, <1>3, <1>4 DEF Next

(* The goroutine of Browse reports the error that was recorded. *)
LEMMA CauseNextMain ==
  ASSUME BrowseInv, Main
  PROVE  CauseInv'
  <1> USE MainOnly
      DEF BrowseInv, CauseInv, LiveIsClean, StoppedByError, FailedCommands, Recorded, Reported,
          Excused, Live, Unwinding, CommandErrors, requestVars
  <1>1. CASE Reject \/ EnableFails \/ Explain \/ Blocked \/ Finish
    BY <1>1 DEF Reject, EnableFails, Explain, Blocked, Finish, Return, browserVars, NoError
  <1>2. CASE Launch \/ Enable \/ Loaded \/ NavigateFails \/ RunFails \/ Extracted \/ NotBlocked
    BY <1>2 DEF Launch, Enable, Loaded, NavigateFails, RunFails, Extracted, NotBlocked, browserVars,
                Loading
  <1>3. CASE Stop
    BY <1>3 DEF Stop
  <1>4. CASE RemoveProfile
    BY <1>4 DEF RemoveProfile, browserVars
  <1> QED
    BY <1>1, <1>2, <1>3, <1>4 DEF Main

(* Recording an error ends the context, and keeps the first one. *)
LEMMA CauseNextHandler ==
  ASSUME BrowseInv, NEW r \in Requests, Handler(r)
  PROVE  CauseInv'
  <1> USE DEF BrowseInv, CauseInv, LiveIsClean, StoppedByError, FailedCommands, Recorded, Reported,
              Excused, Live, Unwinding, CommandErrors, Errors, TypeOK, callVars, errVars,
              browserVars
  <1>1. CASE Validate(r)
    BY <1>1 DEF Validate
  <1>2. CASE FailRequest(r)
    BY <1>2 DEF FailRequest, Reaches
  <1>3. CASE ContinueRequest(r)
    BY <1>3 DEF ContinueRequest, Reaches
  <1>4. CASE RecordError(r)
    BY <1>4 DEF RecordError, Record, NoError
  <1> QED
    BY <1>1, <1>2, <1>3, <1>4 DEF Handler

(* A redirect past the limit ends the context as well. *)
LEMMA CauseNextChromium ==
  ASSUME BrowseInv, Chromium
  PROVE  CauseInv'
  <1> USE DEF BrowseInv, CauseInv, LiveIsClean, StoppedByError, FailedCommands, Recorded, Reported,
              Excused, Live, Unwinding, CommandErrors, Errors, TypeOK, callVars, errVars,
              browserVars
  <1>1. CASE \E r \in Requests : MakeRequest(r)
    BY <1>1 DEF MakeRequest, Paused
  <1>2. CASE \E r \in Requests : Redirect(r)
    <2>1. PICK r \in Requests : Redirect(r)
      BY <1>2
    <2>2. /\ Live /\ UNCHANGED <<main, result, aborted, error>>
          /\ redirects' = redirects + 1
          /\ \A q \in Requests : handler'[q] = "record" => handler[q] = "record"
      BY <2>1 DEF Redirect, Paused
    <2>3. CASE redirects + 1 > MaxRedirects
      <3>1. checkErr' = "redirect limit" /\ context' = "stopped"
        BY <2>1, <2>2, <2>3 DEF Redirect, Record
      <3> QED
        BY <2>2, <3>1 DEF NoError
    <2>4. CASE ~(redirects + 1 > MaxRedirects)
      <3>1. UNCHANGED <<checkErr, context>>
        BY <2>1, <2>4 DEF Redirect
      <3>2. redirects' <= MaxRedirects
        BY <2>2, <2>4, CountedRedirect
      <3> QED
        BY <2>2, <3>1, <3>2
    <2> QED
      BY <2>3, <2>4
  <1>3. CASE \E r \in Requests : Respond(r)
    BY <1>3 DEF Respond
  <1>4. CASE \E r \in Requests : Abort(r)
    BY <1>4 DEF Abort
  <1>5. CASE Crash
    BY <1>5 DEF Crash, requestVars
  <1> QED
    BY <1>1, <1>2, <1>3, <1>4, <1>5 DEF Chromium

LEMMA CauseNext ==
  ASSUME BrowseInv, [Next]_vars
  PROVE  CauseInv'
  <1>1. CASE Unlock \/ Exit \/ Deadline \/ Cancel \/ UNCHANGED vars
    BY <1>1
       DEF BrowseInv, CauseInv, LiveIsClean, StoppedByError, FailedCommands, Recorded, Reported,
           Excused, Live, Unwinding, CommandErrors, callVars, errVars, browserVars, requestVars,
           Unlock, Exit, Deadline, Cancel, vars
  <1> QED
    BY <1>1, CauseNextMain, CauseNextHandler, CauseNextChromium DEF Next

LEMMA BrowseInvariant == Spec => []BrowseInv
  <1>1. BrowseInv /\ [Next]_vars => BrowseInv'
    BY SendableNext, CauseNext DEF BrowseInv
  <1> QED
    BY BrowseInvInit, <1>1, PTL DEF Spec
-----------------------------------------------------------------------------
(* However many requests and redirects a page makes, and whatever the      *)
(* verdicts: only URLs the policy allows are sent, and no more than        *)
(* MaxRedirects redirects are let go on (browser.go:215-300).              *)
THEOREM PolicyIsEnforced == Spec => []OnlyAllowedSent
  <1>1. BrowseInv => OnlyAllowedSent
    BY DEF BrowseInv, CauseInv, Sendable, LiveIsClean, OnlyAllowedSent
  <1> QED
    BY BrowseInvariant, <1>1, PTL

(* However the goroutines of the requests race: an error of a command that *)
(* failed because of an earlier one is not reported (browser.go:215-224).  *)
THEOREM FirstErrorWins == Spec => []CauseIsReported
  <1>1. BrowseInv => CauseIsReported
    BY DEF BrowseInv, CauseInv, Reported, Excused, CommandErrors, CauseIsReported
  <1> QED
    BY BrowseInvariant, <1>1, PTL

(* On every return path the browser ends before its profile is removed,    *)
(* and both before Browse returns (browser.go, the deferred calls).        *)
THEOREM NothingOutlivesTheCall == Spec => []NothingLeftBehind
  <1>1. Init => NothingLeftBehind
    BY DEF Init, NothingLeftBehind
  <1>2. ASSUME NothingLeftBehind, [Next]_vars
        PROVE  NothingLeftBehind'
    <2> USE DEF NothingLeftBehind, callVars, browserVars
    <2>1. CASE Main
      BY <1>2, <2>1 DEF Main, Reject, Launch, EnableFails, Enable, Loaded, NavigateFails, RunFails,
                        Extracted, Explain, Blocked, NotBlocked, Finish, Stop, RemoveProfile,
                        Return
    <2>2. CASE \E r \in Requests : Handler(r)
      BY <1>2, <2>2, HandlerOnly
    <2>3. CASE Chromium
      BY <1>2, <2>3, ChromiumOnly
    <2>4. CASE Unlock \/ Exit \/ Deadline \/ Cancel \/ UNCHANGED vars
      BY <1>2, <2>4 DEF Unlock, Exit, Deadline, Cancel, vars
    <2> QED
      BY <1>2, <2>1, <2>2, <2>3, <2>4 DEF Next
  <1> QED
    BY <1>1, <1>2, PTL DEF Spec
=============================================================================
