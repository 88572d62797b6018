----------------------------- MODULE Freshness -----------------------------
(***************************************************************************)
(* How a phone learns whether a machine still waits at its prompt, in real *)
(* time: the announce loop of the machine (main.go), the record that       *)
(* discovery dates, checkAgainst and LookupRecord (mobile.go,              *)
(* discovery.go), and the loop of the Android application that concludes   *)
(* from the age of the record that an unlock succeeded (verifyUnlocked in  *)
(* MainActivity.kt).                                                       *)
(*                                                                         *)
(* Time is counted in units of any length.  What the code does at once     *)
(* takes no time: Pass is disabled while a step of it is due.              *)
(***************************************************************************)
EXTENDS Integers

CONSTANTS
  Interval,  \* --announce-interval: UnlockAnnounceInterval
  Recheck,   \* the period of the recheck ticker
  Timeout,   \* of the POST
  Gap,       \* how long a restarted server takes to its first announcement
  Linger,    \* how long a POST may be on its way after its sender is gone
  Fresh,     \* freshRecordAge
  Lookup,    \* the timeout of a lookup
  Skew,      \* by how much the clocks of phone and discovery may differ
  Poll,      \* VERIFY_POLL_MILLIS
  Window     \* VERIFY_WINDOW_MILLIS

(***************************************************************************)
(* What the constants of the code must satisfy.  Between two announcements *)
(* that reach discovery in time lie, at worst, an interval, a POST that    *)
(* fails with the wait for the recheck, a POST cut off by a restart, the   *)
(* restart, and the POST that succeeds; the answer to a lookup is as old   *)
(* as the lookup took, and dated by another clock.                         *)
(***************************************************************************)
Retry == IF Timeout <= Recheck THEN Recheck ELSE Timeout
MaxAge == Interval + Retry + Timeout + Gap + Timeout

ASSUME FreshnessAssumption ==
  /\ Interval \in Nat /\ Recheck \in Nat /\ Timeout \in Nat /\ Gap \in Nat
  /\ Linger \in Nat /\ Fresh \in Nat /\ Lookup \in Nat /\ Skew \in Nat
  /\ Poll \in Nat /\ Window \in Nat
  /\ 0 < Recheck /\ Recheck <= Interval /\ Timeout <= Interval
  /\ MaxAge + Lookup + Skew <= Fresh
  /\ Fresh + Skew + Linger + Poll < Window

VARIABLES
  machine,    \* whether it is at its prompt or past it
  pc,         \* where the announce goroutine is; "down" without a server
  down,       \* how long there has been no server
  tickAge,    \* time since the interval ticker fired, or was started
  recheckAge, \* the same of the recheck ticker
  tick,       \* whether ticker.C holds a tick
  recheck,    \* whether recheck.C holds one
  last,       \* whether lastAnnounced is an address and not forgotten
  busy,       \* how long the POST has been under way
  late,       \* until when a POST without a sender may take effect
  record,     \* age of the record by discovery's clock, or None
  known,      \* whether it is of this boot
  missed,     \* whether a POST failed since the last one in time
  restarted,  \* whether the server was restarted since
  unlisted,   \* whether a check had no address: since the transfer, or
              \* since the announcement before it
  gone,       \* time since the machine got past its prompt
  phone,      \* where verifyUnlocked is
  elapsed,    \* time since the transfer
  step,       \* how long the lookup or the sleep has taken
  reading,    \* the record that was looked up, or None
  shown,      \* the last answer of CheckServerStatus
  reached,    \* reachedDiscovery
  opened,     \* whether the passphrase transferred was the right one
  verdict     \* what the application tells the user

server == <<pc, down, tickAge, recheckAge, tick, recheck, last, busy>>
world == <<machine, late, record, known, missed, restarted, unlisted, gone>>
app == <<phone, elapsed, step, reading, shown, reached, opened, verdict>>
vars == <<server, world, app>>

None == -1
Cap == Window
Older(n) == IF n < Cap THEN n + 1 ELSE Cap

Init ==
  /\ machine = "prompt"
  /\ pc = "down" /\ down = 0
  /\ tickAge = 0 /\ recheckAge = 0 /\ tick = FALSE /\ recheck = FALSE
  /\ last = FALSE /\ busy = 0
  /\ late = 0
  /\ record \in {None, Cap} /\ known = FALSE
  /\ missed = FALSE /\ restarted = TRUE /\ unlisted = FALSE
  /\ gone = 0
  /\ phone = "idle" /\ elapsed = 0 /\ step = 0 /\ reading = None
  /\ shown = "none" /\ reached = FALSE /\ opened = FALSE /\ verdict = "none"

-----------------------------------------------------------------------------
(* The announce goroutine. *)
Start ==
  /\ pc = "down" /\ machine = "prompt"
  /\ pc' = "check" /\ down' = 0
  /\ UNCHANGED <<tickAge, recheckAge, tick, recheck, last, busy, world, app>>

(* What addresses() returns: nothing while the relay client has no URI,    *)
(* the address announced last, or one of another relay.                    *)
Check(current) ==
  /\ pc = "check"
  /\ pc' = IF current = "none" \/ (current = "same" /\ last) THEN "wait" ELSE "post"
  /\ unlisted' = (unlisted \/ current = "none")
  /\ UNCHANGED <<down, tickAge, recheckAge, tick, recheck, last, busy>>
  /\ UNCHANGED <<machine, late, record, known, missed, restarted, gone, app>>

(* Discovery applies the announcement, and the answer arrives or not. *)
PostApplied ==
  /\ pc = "post"
  /\ record' = 0 /\ known' = TRUE
  /\ missed' = FALSE /\ restarted' = FALSE
  /\ unlisted' = (unlisted /\ phone # "idle")
  /\ pc' = "applied"
  /\ UNCHANGED <<down, tickAge, recheckAge, tick, recheck, last, busy>>
  /\ UNCHANGED <<machine, late, gone, app>>

PostAnswered ==
  /\ pc = "applied"
  /\ last' = TRUE /\ busy' = 0
  /\ pc' = "wait"
  /\ UNCHANGED <<down, tickAge, recheckAge, tick, recheck, world, app>>

PostFails_Remembered ==
  /\ pc \in {"post", "applied"} /\ ~missed
  /\ missed' = TRUE
  /\ last' = TRUE /\ busy' = 0
  /\ pc' = "wait"
  /\ UNCHANGED <<down, tickAge, recheckAge, tick, recheck>>
  /\ UNCHANGED <<machine, late, record, known, restarted, unlisted, gone, app>>

PostFails ==
  /\ pc \in {"post", "applied"} /\ ~missed
  /\ missed' = TRUE
  /\ pc' = "wait" /\ busy' = 0
  /\ UNCHANGED late \/ (pc = "post" /\ late' = Linger + 1)
  /\ UNCHANGED <<down, tickAge, recheckAge, tick, recheck, last>>
  /\ UNCHANGED <<machine, record, known, restarted, unlisted, gone, app>>

(* An announcement takes effect whose sender gave it up. *)
LateApplied ==
  /\ late > 0
  /\ late' = 0
  /\ record' = 0 /\ known' = TRUE
  /\ UNCHANGED <<server, machine, missed, restarted, unlisted, gone, app>>

TakeTick ==
  /\ pc = "wait" /\ tick
  /\ tick' = FALSE /\ last' = FALSE
  /\ pc' = "check"
  /\ UNCHANGED <<down, tickAge, recheckAge, recheck, busy, world, app>>

TakeRecheck ==
  /\ pc = "wait" /\ recheck
  /\ recheck' = FALSE
  /\ pc' = "check"
  /\ UNCHANGED <<down, tickAge, recheckAge, tick, last, busy, world, app>>

(* The server ends, and with it a POST that may still take effect. *)
ServerEnds ==
  /\ pc # "down"
  /\ pc' = "down" /\ down' = 0
  /\ tickAge' = 0 /\ recheckAge' = 0 /\ tick' = FALSE /\ recheck' = FALSE
  /\ last' = FALSE /\ busy' = 0
  /\ UNCHANGED late \/ (pc = "post" /\ late' = Linger + 1)

(* It is restarted by the agent after five minutes or a failed session; at *)
(* most once before it has announced itself, and some time after it has.   *)
Restart ==
  /\ machine = "prompt" /\ ~restarted /\ record # 0
  /\ ServerEnds
  /\ restarted' = TRUE
  /\ UNCHANGED <<machine, record, known, missed, unlisted, gone, app>>

(* Somebody types the passphrase at the console. *)
ConsoleUnlocks ==
  /\ machine = "prompt"
  /\ ServerEnds
  /\ machine' = "past" /\ gone' = 0
  /\ UNCHANGED <<record, known, missed, restarted, unlisted, app>>

(* Discovery forgets a record that has not been renewed for long. *)
Expire ==
  /\ record = Cap
  /\ record' = None
  /\ UNCHANGED <<server, machine, late, known, missed, restarted, unlisted, gone, app>>

-----------------------------------------------------------------------------
(***************************************************************************)
(* UnlockLUKS returned: the passphrase is with the machine, whose server   *)
(* ends with the session.  The right one takes the machine past its        *)
(* prompt; after a wrong one the agent starts another server.              *)
(***************************************************************************)
Transfer(right) ==
  /\ phone = "idle" /\ machine = "prompt" /\ known
  /\ ServerEnds
  /\ IF right THEN machine' = "past" /\ UNCHANGED restarted
              ELSE ~restarted /\ restarted' = TRUE /\ UNCHANGED machine
  /\ opened' = right
  /\ phone' = "top" /\ elapsed' = 0
  /\ UNCHANGED <<record, known, missed, unlisted, gone>>
  /\ UNCHANGED <<step, reading, shown, reached, verdict>>

(* verifyUnlocked: the condition of its loop, and the verdict after it. *)
Ask ==
  /\ phone = "top" /\ elapsed < Window
  /\ phone' = "asking"
  /\ reading' = record
  /\ UNCHANGED <<server, world, elapsed, step, shown, reached, opened, verdict>>

DeadlinePasses_OnlyReached ==
  /\ phone = "top" /\ elapsed >= Window /\ reached
  /\ phone' = "done"
  /\ verdict' = "NotAccepted"
  /\ UNCHANGED <<server, world, elapsed, step, reading, shown, reached, opened>>

DeadlinePasses_Early ==
  /\ phone = "top" /\ elapsed >= Fresh
  /\ phone' = "done"
  /\ verdict' = IF reached THEN "NotAccepted" ELSE "Unverified"
  /\ UNCHANGED <<server, world, elapsed, step, reading, shown, reached, opened>>

DeadlinePasses ==
  /\ phone = "top" /\ elapsed >= Window
  /\ phone' = "done"
  /\ verdict' = IF reached THEN "NotAccepted" ELSE "Unverified"
  /\ UNCHANGED <<server, world, elapsed, step, reading, shown, reached, opened>>

(* checkAgainst, on what LookupRecord returned: an error, no record, one   *)
(* without a usable date, or one with an age.                              *)
CheckAgainst_Presence(age) == "WAITING"

CheckAgainst(age) ==
  IF (IF age < 0 THEN 0 ELSE age) <= Fresh THEN "WAITING" ELSE "STALE"

LookupRecord == {"NO_NETWORK"} \cup
  IF reading = None THEN {"ABSENT"}
  ELSE {"UNDATED"} \cup {CheckAgainst(reading + skew) : skew \in -Skew..Skew}

Answer ==
  /\ phone = "asking"
  /\ shown' \in LookupRecord
  /\ phone' = "judge"
  /\ reading' = None /\ step' = 0
  /\ UNCHANGED <<server, world, elapsed, reached, opened, verdict>>

(* An undated record has the state STALE as well. *)
Judge ==
  /\ phone = "judge"
  /\ IF shown \in {"STALE", "UNDATED", "ABSENT"}
       THEN phone' = "done" /\ verdict' = "Success" /\ UNCHANGED reached
       ELSE /\ phone' = "rest"
            /\ reached' = (reached \/ shown = "WAITING")
            /\ UNCHANGED verdict
  /\ UNCHANGED <<server, world, elapsed, step, reading, shown, opened>>

Wake ==
  /\ phone = "rest" /\ step = Poll
  /\ phone' = "top" /\ step' = 0
  /\ UNCHANGED <<server, world, elapsed, reading, shown, reached, opened, verdict>>

-----------------------------------------------------------------------------
(* A unit of time passes; the tickers fire.  The model ends with the       *)
(* verdict.                                                                *)
ServerMayPass ==
  \/ pc = "down" /\ (machine = "prompt" => down < Gap)
  \/ pc \in {"post", "applied"} /\ busy < Timeout
  \/ pc = "wait" /\ ~tick /\ ~recheck

PhoneMayPass ==
  \/ phone = "idle"
  \/ phone = "asking" /\ step < Lookup
  \/ phone = "rest" /\ step < Poll

ServerPasses ==
  IF pc = "down"
    THEN /\ down' = IF down < Gap THEN down + 1 ELSE down
         /\ UNCHANGED <<tickAge, recheckAge, tick, recheck, busy>>
    ELSE /\ tickAge' = IF tickAge + 1 = Interval THEN 0 ELSE tickAge + 1
         /\ recheckAge' = IF recheckAge + 1 = Recheck THEN 0 ELSE recheckAge + 1
         /\ tick' = (tick \/ tickAge + 1 = Interval)
         /\ recheck' = (recheck \/ recheckAge + 1 = Recheck)
         /\ busy' = IF pc = "wait" THEN busy ELSE busy + 1
         /\ UNCHANGED down

PhonePasses ==
  /\ elapsed' = IF phone = "idle" THEN 0 ELSE Older(elapsed)
  /\ step' = IF phone \in {"asking", "rest"} THEN step + 1 ELSE step
  /\ reading' = IF phone = "asking" /\ reading # None THEN Older(reading) ELSE reading

Pass ==
  /\ ServerMayPass /\ PhoneMayPass
  /\ ServerPasses /\ PhonePasses
  /\ record' = IF record = None THEN None ELSE Older(record)
  /\ late' = IF late = 0 THEN 0 ELSE late - 1
  /\ gone' = IF machine = "past" THEN Older(gone) ELSE 0
  /\ UNCHANGED <<machine, pc, last, known, missed, restarted, unlisted>>
  /\ UNCHANGED <<phone, shown, reached, opened, verdict>>

Announce ==
  \/ \E current \in {"none", "same", "other"} : Check(current)
  \/ PostApplied \/ PostAnswered \/ PostFails \/ TakeTick \/ TakeRecheck
Verify == Ask \/ DeadlinePasses \/ Answer \/ Judge \/ Wake
Next ==
  \/ Start \/ Announce \/ LateApplied \/ Expire
  \/ Restart \/ ConsoleUnlocks
  \/ \E right \in BOOLEAN : Transfer(right)
  \/ Verify \/ Pass

Spec == Init /\ [][Next]_vars

(* Time goes on, goroutines and threads run: no more is needed than that   *)
(* one of them does as long as one can.                                    *)
FairSpec == Spec /\ WF_vars(Start \/ Announce \/ Verify \/ Pass)

-----------------------------------------------------------------------------
(* The values the variables take. *)
Ages == 0..Cap
TypeOK ==
  /\ machine \in {"prompt", "past"}
  /\ pc \in {"down", "check", "post", "applied", "wait"}
  /\ down \in 0..Gap /\ busy \in 0..Timeout /\ late \in 0..(Linger + 1)
  /\ tickAge \in 0..(Interval - 1) /\ recheckAge \in 0..(Recheck - 1)
  /\ record \in Ages \cup {None} /\ reading \in Ages \cup {None}
  /\ gone \in Ages /\ elapsed \in Ages
  /\ step \in 0..(Lookup + Poll)
  /\ phone \in {"idle", "top", "asking", "judge", "rest", "done"}
  /\ shown \in {"none", "WAITING", "STALE", "UNDATED", "ABSENT", "NO_NETWORK"}
  /\ verdict \in {"none", "Success", "NotAccepted", "Unverified"}
  /\ tick \in BOOLEAN /\ recheck \in BOOLEAN /\ last \in BOOLEAN /\ known \in BOOLEAN
  /\ missed \in BOOLEAN /\ restarted \in BOOLEAN /\ reached \in BOOLEAN
  /\ opened \in BOOLEAN /\ unlisted \in BOOLEAN

(* "this reports the machine as waiting after it has already booted" must  *)
(* not happen for long: an answer of WAITING is at most the fresh age, the *)
(* skew and the delay of a last announcement behind the machine.           *)
WaitingIsRecent ==
  (phone = "judge" /\ shown = "WAITING") => gone <= Fresh + Skew + Linger

(* "Only a stale or absent record counts as confirmation": the application *)
(* reports success only for a machine that is past its prompt, even if an  *)
(* announcement was lost, the server restarted and its relay changed;      *)
(* undated records apart, and if the announce loop always had an address.  *)
(* (A machine at its prompt whose relay client has no URI announces        *)
(* nothing; its record goes stale and is taken for a success.)             *)
SuccessIsReal ==
  (verdict = "Success" /\ shown # "UNDATED" /\ ~unlisted) => machine = "past"

(* "Still announcing at the deadline means it never left its prompt": a    *)
(* passphrase that opened the volume is not reported as refused, if the    *)
(* last check before the deadline reached discovery.                       *)
RefusalIsReal == (verdict = "NotAccepted" /\ shown = "WAITING") => ~opened

(* Every verification comes to a verdict, whatever the network does. *)
VerdictGiven == (phone = "top") ~> (phone = "done")
=============================================================================
