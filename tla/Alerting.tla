------------------------------- MODULE Alerting -------------------------------
(***************************************************************************)
(* pkg/alerting/manager.go and retry.go: DefaultAlertManager sends an      *)
(* alert to its channels one after the other, each with up to three        *)
(* retries after 1, 2 and 4 seconds, unless a silence window is open.      *)
(*                                                                         *)
(* The manager has no lock.  Its one caller is the orchestrator's worker,  *)
(* so there is one SendAlert at a time, and channels and windows change    *)
(* between calls only.  A Send may fail before or after the notification   *)
(* got through, and the caller's context may be cancelled during the call. *)
(***************************************************************************)
EXTENDS Integers, Sequences, FiniteSets

CONSTANTS AlertNamespace,  \* namespaces alerts are about
          RequestedType,   \* channel types ConfigureChannel is called with
          WindowTime,      \* starts and ends of silence windows
          maxRetries,      \* 3 in the code
          MaxChannels,     \* bound: configured channels
          MaxAlerts,       \* bound: alerts sent
          MaxTime          \* bound: the clock between calls

ASSUME RetriesAreNat == maxRetries \in Nat
ASSUME BoundsAreNat == MaxChannels \in Nat /\ MaxAlerts \in Nat

VARIABLES channels,        \* configured senders, in order
          silenceWindows,  \* windows in force
          now,             \* the clock, in seconds
          pc,              \* where SendAlert is
          alert,           \* the alert it was called with
          i, attempt,      \* the loops over channels and retries
          errs,            \* channels that failed
          cancelled,       \* the context
          \* history of the call, per channel:
          tries,           \* Sends
          acked,           \* those that returned nil
          reached,         \* notifications that got through
          waited,          \* seconds spent in backoff
          alerts           \* calls so far

callVars == <<pc, alert, i, attempt, errs, cancelled, tries, acked, reached, waited>>
vars == <<channels, silenceWindows, now, callVars, alerts>>

ChannelType == {"slack", "email", "pagerduty", "sns"}
Window == [start : WindowTime, end : WindowTime]

\* Only the two fields that validateAlert wants matter.
Alert == [namespace : AlertNamespace \cup {""}, recommendedAction : BOOLEAN]

NoAlert == [namespace |-> "", recommendedAction |-> FALSE]

Channel == DOMAIN channels
Zero == [c \in 1..MaxChannels |-> 0]

TypeOK ==
    /\ \E k \in 0..MaxChannels : channels \in [1..k -> ChannelType]
    /\ silenceWindows \subseteq Window
    /\ now \in Nat
    /\ pc \in {"idle", "send", "backoff", "sent", "suppressed", "invalid"}
    /\ alert \in Alert
    /\ i \in 1..(MaxChannels + 1)
    /\ attempt \in 0..maxRetries
    /\ errs \subseteq Channel
    /\ cancelled \in BOOLEAN
    /\ tries \in [1..MaxChannels -> 0..(maxRetries + 1)]
    /\ acked \subseteq Channel
    /\ reached \in [1..MaxChannels -> 0..(maxRetries + 1)]
    /\ waited \in Nat
    /\ alerts \in 0..MaxAlerts

CallInit ==
    /\ pc = "idle" /\ alert = NoAlert /\ i = 1 /\ attempt = 0
    /\ errs = {} /\ cancelled = FALSE
    /\ tries = Zero /\ acked = {} /\ reached = Zero /\ waited = 0

Init ==
    /\ channels = << >>
    /\ silenceWindows = {}
    /\ now = 0
    /\ CallInit
    /\ alerts = 0

----------------------------------------------------------------------------
\* An unsupported type is an error and changes nothing.
ConfigureChannel(t) ==
    /\ pc = "idle"
    /\ Len(channels) < MaxChannels
    /\ channels' = IF t \in ChannelType THEN Append(channels, t) ELSE channels
    /\ UNCHANGED <<silenceWindows, now, callVars, alerts>>

\* The windows replace all others.
SetSilenceWindows(ws) ==
    /\ pc = "idle"
    /\ silenceWindows' = ws
    /\ UNCHANGED <<channels, now, callVars, alerts>>

Tick ==
    /\ pc = "idle"
    /\ now < MaxTime
    /\ now' = now + 1
    /\ UNCHANGED <<channels, silenceWindows, callVars, alerts>>

\* The namespace is not looked at.
IsInSilenceWindow(namespace) ==
    \E w \in silenceWindows : now >= w.start /\ now < w.end

validateAlert(a) == a.namespace # "" /\ a.recommendedAction

\* SendAlert up to its loop over the channels.
SendAlert(a) ==
    /\ pc = "idle"
    /\ alerts < MaxAlerts
    /\ alerts' = alerts + 1
    /\ alert' = a
    /\ pc' = IF IsInSilenceWindow(a.namespace) THEN "suppressed"
             ELSE IF ~validateAlert(a) THEN "invalid"
             ELSE IF channels = << >> THEN "sent" ELSE "send"
    /\ UNCHANGED <<channels, silenceWindows, now, i, attempt, errs, cancelled,
                   tries, acked, reached, waited>>

\* The loop over the channels goes on, or the call ends.
NextChannel ==
    /\ i' = i + 1
    /\ attempt' = 0
    /\ pc' = IF i < Len(channels) THEN "send" ELSE "sent"

\* Faulty variant: the first failure ends the call.
AbortOnFailure ==
    /\ errs' = errs \cup {i}
    /\ pc' = "sent"
    /\ UNCHANGED <<i, attempt>>

\* sendWithRetry returns an error.
ChannelFails ==
    /\ errs' = errs \cup {i}
    /\ NextChannel

\* Faulty variant: the last retry is not made.
RetriesLeftShort == attempt + 1 < maxRetries

\* Faulty variant: one retry too many.
RetriesLeftLong == attempt <= maxRetries

RetriesLeft == attempt < maxRetries

\* One Send of sendWithRetry and what follows it.  through: it got through.
Send(ok, through) ==
    /\ pc = "send"
    /\ ok => through
    /\ tries' = [tries EXCEPT ![i] = @ + 1]
    /\ reached' = [reached EXCEPT ![i] = @ + (IF through THEN 1 ELSE 0)]
    /\ \/ /\ ok
          /\ acked' = acked \cup {i}
          /\ NextChannel
          /\ UNCHANGED errs
       \/ /\ ~ok /\ RetriesLeft
          /\ attempt' = attempt + 1
          /\ pc' = "backoff"
          /\ UNCHANGED <<i, errs, acked>>
       \/ /\ ~ok /\ ~RetriesLeft
          /\ ChannelFails
          /\ UNCHANGED acked
    /\ UNCHANGED <<channels, silenceWindows, now, alert, cancelled, waited, alerts>>

\* Faulty variant: the delay grows by a factor of four.
delayFourfold == 4 ^ (attempt - 1)

delay == 2 ^ (attempt - 1)

\* Faulty variant: the wait ends only when the context is cancelled.
BackoffForever ==
    /\ pc = "backoff"
    /\ cancelled
    /\ pc' = "send"
    /\ UNCHANGED <<channels, silenceWindows, now, alert, i, attempt, errs, cancelled,
                   tries, acked, reached, waited, alerts>>

\* The delay passes before the context is cancelled (or at the same time:
\* select then takes either case) ...
Backoff ==
    /\ pc = "backoff"
    /\ now' = now + delay
    /\ waited' = waited + delay
    /\ pc' = "send"
    /\ UNCHANGED <<channels, silenceWindows, alert, i, attempt, errs, cancelled,
                   tries, acked, reached, alerts>>

\* ... or the context is cancelled first, at some second of the delay.
BackoffCancelled ==
    /\ pc = "backoff"
    /\ cancelled
    /\ \E seconds \in 0..delay :
          /\ now' = now + seconds
          /\ waited' = waited + seconds
    /\ ChannelFails
    /\ UNCHANGED <<channels, silenceWindows, alert, cancelled, tries, acked, reached, alerts>>

Cancel ==
    /\ pc \in {"send", "backoff"}
    /\ ~cancelled
    /\ cancelled' = TRUE
    /\ UNCHANGED <<channels, silenceWindows, now, pc, alert, i, attempt, errs,
                   tries, acked, reached, waited, alerts>>

\* SendAlert has returned: nil when suppressed, or sent with no errs.
Return ==
    /\ pc \in {"sent", "suppressed", "invalid"}
    /\ pc' = "idle" /\ alert' = NoAlert /\ i' = 1 /\ attempt' = 0
    /\ errs' = {} /\ cancelled' = FALSE
    /\ tries' = Zero /\ acked' = {} /\ reached' = Zero /\ waited' = 0
    /\ UNCHANGED <<channels, silenceWindows, now, alerts>>

Sending ==
    \/ \E ok, through \in BOOLEAN : Send(ok, through)
    \/ Backoff
    \/ BackoffCancelled
    \/ Return

Next ==
    \/ \E t \in RequestedType : ConfigureChannel(t)
    \/ \E ws \in SUBSET Window : SetSilenceWindows(ws)
    \/ Tick
    \/ \E a \in Alert : SendAlert(a)
    \/ Sending
    \/ Cancel

Spec == Init /\ [][Next]_vars

\* A Send returns and a timer fires.
FairSpec == Spec /\ WF_vars(Sending)

----------------------------------------------------------------------------
\* SendAlert's "failures on individual channels do not block other channels":
\* when it returns, every channel has been tried, its error names exactly the
\* channels that never acknowledged, and an acknowledged channel was reached.
EveryChannelTried ==
    pc = "sent" =>
        \A k \in Channel : /\ tries[k] > 0
                           /\ k \in errs <=> k \notin acked
                           /\ k \in acked => reached[k] > 0

\* sendWithRetry reports a channel as failed only after the first Send and all
\* maxRetries retries of it, unless the context was cancelled; it never sends
\* again to a channel that acknowledged.
GivesUpLast ==
    /\ \A k \in errs : cancelled \/ tries[k] = maxRetries + 1
    /\ \A k \in acked : k < i

\* The delays 1, 2, 4 of sendWithRetry add up: the orchestrator's worker, which
\* is blocked in SendAlert, waits at most 2^maxRetries - 1 seconds per channel
\* tried so far, however Sends fail and whenever the context is cancelled.
WaitIsBounded ==
    waited <= (2 ^ maxRetries - 1) * Cardinality({k \in Channel : tries[k] > 0})

\* A call of SendAlert returns, whatever the channels answer.
CallReturns == pc # "idle" ~> pc = "idle"
=============================================================================
