----------------------------- MODULE UsageMeter -----------------------------
(***************************************************************************)
(* A vendor poller that is asked to poll now: pollnow.Signal and Ticker,   *)
(* driving the loop of claudeusagemeter.Poller, which reads the usage with *)
(* a session taken from the browser and reads the browser again when the   *)
(* vendor refuses it.                                                      *)
(*                                                                         *)
(* The browser and the vendor are external.  A call to either is a step    *)
(* that anything may happen before.                                        *)
(***************************************************************************)
EXTENDS Integers, FiniteSets

CONSTANTS
  MeterSetups,  \* the circumstances explored, see MeterSetup
  MinGap,       \* the Signal's minGap
  MaxUsed,      \* bound on how often the usage changes
  MaxLogins     \* bound on the sessions the browser gets

MeterSetup == [
  interval : BOOLEAN,  \* does the interval pass, or is it too long to matter?
  logins   : BOOLEAN,  \* does anybody use the browser?
  faults   : Nat,      \* bound on calls, to the vendor or the browser, that fail
  time     : Nat]      \* bound on the clock

ASSUME MeterAssumption ==
  /\ \A s \in MeterSetups : s \in MeterSetup
  /\ {MinGap, MaxUsed, MaxLogins} \subseteq Nat

NoSession == 0
NoStamp   == -1

VARIABLES
  meterSetup, \* which of MeterSetups, chosen once
  signal,     \* Signal: when it last fired
  chans,      \* what waits in the channels refresh, t.C and Ticker.C
  meter,      \* Poller: where its scan is, and its fields
  publishedUse, \* the latest reading published
  browser,    \* its session, and the stamp of its cookie store
  vendor,     \* the session the vendor accepts, and the usage
  meterNow,   \* the clock
  meterFaults,\* failed calls so far
  asked       \* history: is a refresh accepted that no scan has begun after?

meterMoving == <<signal, chans, meter, publishedUse, browser, vendor, meterNow, meterFaults,
                 asked>>
meterVars == <<meterSetup, meterMoving>>

outside == <<browser, vendor, meterNow>>

MeterInit ==
  /\ meterSetup \in MeterSetups
  /\ signal = NoStamp /\ chans = {} /\ publishedUse = NoStamp
  /\ meter = [at |-> "begin", session |-> NoSession, orgID |-> FALSE, again |-> FALSE,
              stamp |-> NoStamp, staleStamp |-> NoStamp, failed |-> NoStamp,
              usage |-> NoStamp, lastPublished |-> NoStamp]
  /\ \E s \in (IF meterSetup.logins THEN {NoSession, 1} ELSE {1}) :
       browser = [session |-> s, stamp |-> 0] /\ vendor = [accepts |-> s, used |-> 0]
  /\ meterNow = 0 /\ meterFaults = 0 /\ asked = FALSE

-----------------------------------------------------------------------------
(***************************************************************************)
(* The signal and the ticker.                                              *)
(***************************************************************************)

\* Fire, when the last refresh is not too recent; one that is pending is
\* enough.
Fire ==
  /\ signal = NoStamp \/ meterNow - signal >= MinGap
  /\ signal' = meterNow
  /\ chans' = chans \cup {"refresh"} /\ asked' = TRUE
  /\ UNCHANGED <<meter, publishedUse, outside, meterFaults>>

\* The interval's timer.
Interval ==
  /\ meterSetup.interval
  /\ chans' = chans \cup {"timer"}
  /\ UNCHANGED <<signal, meter, publishedUse, outside, meterFaults, asked>>

\* Seeded fault: a tick is only delivered to a poller that waits for it.
Forward_Unbuffered(c) ==
  /\ c \in chans \cap {"refresh", "timer"}
  /\ chans' = (chans \ {c}) \cup (IF meter.at = "idle" THEN {"tick"} ELSE {})
  /\ UNCHANGED <<signal, meter, publishedUse, outside, meterFaults, asked>>

\* The ticker's goroutine sends on, unless a tick is already pending.
Forward(c) ==
  /\ c \in chans \cap {"refresh", "timer"}
  /\ chans' = (chans \ {c}) \cup {"tick"}
  /\ UNCHANGED <<signal, meter, publishedUse, outside, meterFaults, asked>>

-----------------------------------------------------------------------------
(***************************************************************************)
(* Poller.Run and scan.                                                    *)
(***************************************************************************)

\* Run takes a tick.
TakeTick ==
  /\ meter.at = "idle" /\ "tick" \in chans
  /\ chans' = chans \ {"tick"} /\ meter' = [meter EXCEPT !.at = "begin"]
  /\ UNCHANGED <<signal, publishedUse, outside, meterFaults, asked>>

\* A scan begins; with no session at all the browser is read first.
Scan ==
  /\ meter.at = "begin"
  /\ meter' = [meter EXCEPT !.at = IF meter.session = NoSession THEN "stamp" ELSE "ask",
                            !.again = FALSE]
  /\ asked' = FALSE
  /\ UNCHANGED <<signal, chans, publishedUse, outside, meterFaults>>

\* Back from a refreshCookies that found nothing newer: the scan ends, or goes
\* on to its first request.
NotRefreshed == IF meter.again THEN "idle" ELSE "ask"

\* refreshCookies: a cookie store that had nothing new and has not changed is
\* not read.
CookieStamp ==
  /\ meter.at = "stamp"
  /\ meter' = IF browser.stamp = meter.staleStamp
              THEN [meter EXCEPT !.at = NotRefreshed]
              ELSE [meter EXCEPT !.at = "cookies", !.stamp = browser.stamp,
                                 !.staleStamp = NoStamp, !.failed = NoStamp]
  /\ UNCHANGED <<signal, chans, publishedUse, outside, meterFaults, asked>>

\* Seeded fault: the stamp is taken after the store was read.
Cookies_StampAfter ==
  /\ meter.at \in {"cookies", "late"}
  /\ meter' = IF meter.at = "late"
              THEN [meter EXCEPT !.at = NotRefreshed, !.staleStamp = browser.stamp]
              ELSE IF browser.session \in {NoSession, meter.session}
              THEN [meter EXCEPT !.at = "late"]
              ELSE [meter EXCEPT !.at = "ask", !.session = browser.session]
  /\ UNCHANGED <<signal, chans, publishedUse, outside, meterFaults, asked>>

\* The store is read; a session unlike the one in use is worth a retry.
Cookies ==
  /\ meter.at = "cookies"
  /\ meter' = IF browser.session \in {NoSession, meter.session}
              THEN [meter EXCEPT !.at = NotRefreshed, !.staleStamp = meter.stamp]
              ELSE [meter EXCEPT !.at = "ask", !.session = browser.session]
  /\ UNCHANGED <<signal, chans, publishedUse, outside, meterFaults, asked>>

\* The read fails, and its stamp is remembered all the same.
CookiesFail ==
  /\ meter.at = "cookies" /\ meterFaults < meterSetup.faults
  /\ meter' = [meter EXCEPT !.at = NotRefreshed, !.staleStamp = meter.stamp, !.failed = meter.stamp]
  /\ meterFaults' = meterFaults + 1
  /\ UNCHANGED <<signal, chans, publishedUse, outside, asked>>

Accepted == meter.session # NoSession /\ meter.session = vendor.accepts

\* A refused request reads the browser, once per request.
Refused ==
  /\ meter.at = "ask" /\ ~Accepted
  /\ meter' = IF meter.again THEN [meter EXCEPT !.at = "idle"]
              ELSE [meter EXCEPT !.at = "stamp", !.again = TRUE]
  /\ UNCHANGED <<signal, chans, publishedUse, outside, meterFaults, asked>>

\* Any other error ends the scan.
AskFails ==
  /\ meter.at = "ask" /\ meterFaults < meterSetup.faults
  /\ meter' = [meter EXCEPT !.at = "idle"] /\ meterFaults' = meterFaults + 1
  /\ UNCHANGED <<signal, chans, publishedUse, outside, asked>>

\* resolveOrg, while the organisation is not known.
ResolveOrg ==
  /\ meter.at = "ask" /\ ~meter.orgID /\ Accepted
  /\ meter' = [meter EXCEPT !.orgID = TRUE, !.again = FALSE]
  /\ UNCHANGED <<signal, chans, publishedUse, outside, meterFaults, asked>>

\* Usage: a reading like the last one published is not published again.
Usage ==
  /\ meter.at = "ask" /\ meter.orgID /\ Accepted
  /\ meter' = [meter EXCEPT !.at = IF meter.lastPublished = vendor.used THEN "idle" ELSE "publish",
                            !.usage = vendor.used, !.lastPublished = vendor.used]
  /\ UNCHANGED <<signal, chans, publishedUse, outside, meterFaults, asked>>

\* publishWait.
PublishUsage ==
  /\ meter.at = "publish"
  /\ publishedUse' = meter.usage /\ meter' = [meter EXCEPT !.at = "idle"]
  /\ UNCHANGED <<signal, chans, outside, meterFaults, asked>>

-----------------------------------------------------------------------------
(***************************************************************************)
(* The operator, the browser and the vendor.                               *)
(***************************************************************************)

\* The vendor stops accepting the session.
SessionExpires ==
  /\ meterSetup.logins /\ vendor.accepts # NoSession /\ browser.session < MaxLogins
  /\ vendor' = [vendor EXCEPT !.accepts = NoSession]
  /\ UNCHANGED <<signal, chans, meter, publishedUse, browser, meterNow, meterFaults, asked>>

\* The operator signs in again in the browser.
SignIn ==
  /\ meterSetup.logins /\ vendor.accepts = NoSession /\ browser.session < MaxLogins
  /\ browser' = [session |-> browser.session + 1, stamp |-> browser.stamp + 1]
  /\ vendor' = [vendor EXCEPT !.accepts = browser.session + 1]
  /\ UNCHANGED <<signal, chans, meter, publishedUse, meterNow, meterFaults, asked>>

UsageGrows ==
  /\ vendor.used < MaxUsed
  /\ vendor' = [vendor EXCEPT !.used = @ + 1]
  /\ UNCHANGED <<signal, chans, meter, publishedUse, browser, meterNow, meterFaults, asked>>

MeterTick ==
  /\ meterNow < meterSetup.time /\ meterNow' = meterNow + 1
  /\ UNCHANGED <<signal, chans, meter, publishedUse, browser, vendor, meterFaults, asked>>

-----------------------------------------------------------------------------

ScanStep ==
  \/ TakeTick \/ Scan \/ CookieStamp \/ Cookies \/ Refused \/ ResolveOrg \/ Usage
  \/ PublishUsage

MeterNext ==
  /\ \/ Fire \/ Interval \/ \E c \in chans : Forward(c)
     \/ ScanStep \/ CookiesFail \/ AskFails
     \/ SessionExpires \/ SignIn \/ UsageGrows \/ MeterTick
  /\ UNCHANGED meterSetup

ForwardStep == \E c \in chans : Forward(c)

(***************************************************************************)
(* Calls return or time out, so the scan goes on; the ticker's goroutine   *)
(* runs; the interval passes.                                              *)
(***************************************************************************)
MeterFairness ==
  WF_meterMoving(ScanStep) /\ WF_meterMoving(ForwardStep) /\ WF_meterMoving(Interval)

MeterSpec == MeterInit /\ [][MeterNext]_meterVars /\ MeterFairness

-----------------------------------------------------------------------------
(***************************************************************************)
(* Properties.                                                             *)
(***************************************************************************)

\* "Fire asks every subscribed poller to poll now" (pollnow.go): a scan begins
\* after every refresh that was accepted, also one that comes in the middle of
\* a scan or while a tick is pending, and without the interval's help.
RefreshIsPolled == (asked /\ ~meterSetup.interval) ~> ~asked

\* The browser holds a session the vendor accepts, and a read of the cookie
\* store as it is now has not failed.
Connectable ==
  /\ browser.session # NoSession /\ browser.session = vendor.accepts
  /\ meter.failed # browser.stamp

\* "how the meter keeps working" (refreshCookies): once the operator has signed
\* in again, the vendor's figure is published at last, although a store that
\* had nothing newer is not read again until it changes, and whenever between
\* two looks at the store they signed in. A read that fails is remembered like
\* one that found nothing, which is the exception.
MeterReconnects ==
  (Connectable /\ meterSetup.interval) ~> (~Connectable \/ publishedUse = vendor.used)
=============================================================================
