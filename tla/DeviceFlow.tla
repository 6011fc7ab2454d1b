----------------------------- MODULE DeviceFlow -----------------------------
(***************************************************************************)
(* Google's device authorization (src/pelmeni/auth/oauth/google.py): the   *)
(* client asks for a code, prints it, and polls until Google hands out a   *)
(* token, refuses, or a deadline of the client's own clock passes.         *)
(*                                                                         *)
(* now is time.monotonic.  A poll takes up to MaxDelay seconds, of which   *)
(* its answer may be on the way for any part, a sleeper is woken on time,  *)
(* and the steps between them take none.                                   *)
(***************************************************************************)
EXTENDS Naturals

CONSTANTS Intervals,  \* seconds between polls Google may ask for
          Lifetimes,  \* seconds a device code may live
          SlowStep,   \* seconds "slow_down" adds: 5 in the code
          MaxDelay    \* bound: seconds a poll takes (timeout=30 in _post)

ASSUME FlowAssumption ==
  /\ Intervals \subseteq Nat \ {0} /\ Lifetimes \subseteq Nat \ {0}
  /\ SlowStep \in Nat \ {0} /\ MaxDelay \in Nat

VARIABLES
  now,        \* the client's clock
  flowPc,     \* "idle", "asking", "checking", "polling", "sleeping", or how
              \* the flow ended: "token", "failed" (a RuntimeError), "escaped"
  deadline,   \* when poll_device_token gives up
  interval,   \* seconds to sleep between polls
  wake,       \* when the sleep is over
  cause,      \* why the flow failed
  consent,    \* what the user has decided on Google's page
  consentAt,  \* when
  verdict,    \* Google's answer to the poll, on its way: "none", "pending",
              \* "slow_down", "granted", "denied"
  announced,  \* the interval Google asked for at first
  slowDowns,  \* answers "slow_down" so far
  pollAt,     \* when the last poll was sent, 0: none yet
  answerAt    \* when the last poll was answered, 0: none yet

timing == << deadline, interval, wake, announced >>
history == << slowDowns, pollAt, answerAt >>
user == << consent, consentAt >>
flowVars == << now, flowPc, cause, verdict, timing, history, user >>

FlowInit ==
  /\ now = 1 /\ flowPc = "idle"
  /\ deadline = 0 /\ interval = 0 /\ wake = 0 /\ announced = 0
  /\ cause = "none" /\ consent = "pending" /\ consentAt = 0
  /\ verdict = "none"
  /\ slowDowns = 0 /\ pollAt = 0 /\ answerAt = 0

\* GoogleOAuthFlow.login begins.
BeginFlow ==
  /\ flowPc = "idle"
  /\ flowPc' = "asking"
  /\ UNCHANGED << now, timing, history, cause, user, verdict >>

FailFor(why) ==
  /\ flowPc' = "failed"
  /\ cause' = why
  /\ verdict' = "none"
  /\ UNCHANGED << now, timing, user >>

\* A body that lacks a field it must have: KeyError or ValueError, which
\* is not the RuntimeError that AuthManager expects.
Escape ==
  /\ flowPc' = "escaped"
  /\ verdict' = "none"
  /\ UNCHANGED << now, timing, cause, user >>

\* initiate_device_flow; poll_device_token computes the deadline.
Initiate ==
  /\ flowPc = "asking"
  /\ \/ \E life \in Lifetimes, every \in Intervals :
          /\ deadline' = now + life
          /\ interval' = every
          /\ announced' = every
          /\ flowPc' = "checking"
          /\ UNCHANGED << now, wake, cause, user, verdict >>
     \/ FailFor("request")
     \/ Escape
  /\ UNCHANGED history

\* Mutant: gives up when the next sleep would pass the deadline.
CheckNextSleep ==
  /\ flowPc = "checking"
  /\ \/ /\ now + interval < deadline
        /\ flowPc' = "polling"
        /\ pollAt' = now
        /\ UNCHANGED << now, timing, cause, user, verdict >>
     \/ /\ now + interval >= deadline
        /\ FailFor("expired")
        /\ UNCHANGED pollAt
  /\ UNCHANGED << slowDowns, answerAt >>

\* The head of the while loop.
Check ==
  /\ flowPc = "checking"
  /\ \/ /\ now < deadline
        /\ flowPc' = "polling"
        /\ pollAt' = now
        /\ UNCHANGED << now, timing, cause, user, verdict >>
     \/ /\ now >= deadline
        /\ FailFor("expired")
        /\ UNCHANGED pollAt
  /\ UNCHANGED << slowDowns, answerAt >>

\* Google answers, by what the user has decided until then.
Answer ==
  /\ flowPc = "polling" /\ verdict = "none"
  /\ IF consent = "pending" THEN verdict' \in {"pending", "slow_down"}
     ELSE verdict' = consent
  /\ UNCHANGED << now, flowPc, timing, history, cause, user >>

SlowSteps == IF verdict = "slow_down" THEN 1 ELSE 0

\* Mutant: forgets the interval "slow_down" has added.
SleepOnAnew ==
  /\ flowPc = "polling" /\ verdict \in {"pending", "slow_down"}
  /\ slowDowns' = slowDowns + SlowSteps
  /\ interval' = announced + SlowSteps * SlowStep
  /\ wake' = now + interval'
  /\ answerAt' = now
  /\ flowPc' = "sleeping" /\ verdict' = "none"
  /\ UNCHANGED << now, deadline, cause, user, announced, pollAt >>

\* "authorization_pending" or "slow_down" arrives, whatever the user has done
\* in the meantime, and the client sleeps.
SleepOn ==
  /\ flowPc = "polling" /\ verdict \in {"pending", "slow_down"}
  /\ slowDowns' = slowDowns + SlowSteps
  /\ interval' = interval + SlowSteps * SlowStep
  /\ wake' = now + interval'
  /\ answerAt' = now
  /\ flowPc' = "sleeping" /\ verdict' = "none"
  /\ UNCHANGED << now, deadline, cause, user, announced, pollAt >>

\* Mutant: a poll that fails is tried again at once.
FinishRetried ==
  /\ flowPc = "polling" /\ verdict' = "none"
  /\ \/ /\ verdict = "granted"
        /\ flowPc' = "token"
     \/ flowPc' = "checking"
  /\ UNCHANGED << now, timing, history, cause, user >>

\* Any other answer arrives: a token, without a refresh token perhaps or
\* without a field it needs; an error code.  Or _post fails, at any time.
Finish ==
  /\ flowPc = "polling"
  /\ \/ /\ verdict = "granted"
        /\ \/ /\ flowPc' = "token" /\ verdict' = "none"
              /\ UNCHANGED << now, timing, cause, user >>
           \/ FailFor("no refresh token")
           \/ Escape
     \/ /\ verdict = "denied"
        /\ FailFor("denied")
     \/ FailFor("request")
  /\ UNCHANGED history

Wake ==
  /\ flowPc = "sleeping" /\ now >= wake
  /\ flowPc' = "checking"
  /\ UNCHANGED << now, timing, history, cause, user, verdict >>

\* The user grants or denies access, or Google lets the code expire.
Decide ==
  /\ flowPc \in {"checking", "polling", "sleeping"}
  /\ consent = "pending"
  /\ consent' \in {"granted", "denied"}
  /\ consentAt' = now
  /\ UNCHANGED << now, flowPc, timing, history, cause, verdict >>

Tick ==
  /\ \/ flowPc = "polling" /\ now < pollAt + MaxDelay
     \/ flowPc = "sleeping" /\ now < wake
  /\ now' = now + 1
  /\ UNCHANGED << flowPc, timing, history, cause, user, verdict >>

\* What the client does, and all there is.
FlowStep == Initiate \/ Check \/ SleepOn \/ Finish \/ Wake
FlowNext == FlowStep \/ Answer \/ Decide \/ Tick

\* The process that ran the flow is gone, its clock and variables with it.
ForgetFlow ==
  /\ now' = 1 /\ flowPc' = "idle"
  /\ deadline' = 0 /\ interval' = 0 /\ wake' = 0 /\ announced' = 0
  /\ cause' = "none" /\ consent' = "pending" /\ consentAt' = 0
  /\ verdict' = "none"
  /\ slowDowns' = 0 /\ pollAt' = 0 /\ answerAt' = 0

FlowOver == flowPc \in {"token", "failed", "escaped"}

-----------------------------------------------------------------------------
(* Two polls are as far apart as Google has asked for: the interval        *)
(* announced with the code, and SlowStep more for every slow_down since,   *)
(* counted from the answer to the first poll (the loop of                  *)
(* poll_device_token).                                                     *)
PollsSpaced ==
  flowPc = "polling" /\ answerAt # 0 =>
    pollAt >= answerAt + announced + slowDowns * SlowStep

(* A consent given before the deadline is noticed, but for one that came   *)
(* too late for the last poll: a flow that gives up because its time is    *)
(* over was polling last before the user consented or while he did, and    *)
(* that was no longer before the deadline than a poll and a sleep take.    *)
GrantFetched ==
  cause = "expired" /\ consent = "granted" =>
    /\ consentAt >= pollAt
    /\ consentAt + MaxDelay + interval >= deadline

=============================================================================
