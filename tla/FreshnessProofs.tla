-------------------------- MODULE FreshnessProofs --------------------------
(***************************************************************************)
(* What the age of a record says about the machine, for every choice of    *)
(* intervals, timeouts, skew and window that satisfies FreshnessAssumption:*)
(* an answer of WAITING is recent, a success is real, and so is a refusal. *)
(*                                                                         *)
(* The invariant bounds the age of the record by the place the announce    *)
(* loop is at, and the time the machine is gone by the age of the record.  *)
(*                                                                         *)
(* The last section is about the same loop without the clock, Announce.    *)
(***************************************************************************)
EXTENDS Freshness, TLAPS

(* The variables that hold a truth value. *)
Flags ==
  /\ tick \in BOOLEAN /\ recheck \in BOOLEAN /\ last \in BOOLEAN /\ known \in BOOLEAN
  /\ missed \in BOOLEAN /\ restarted \in BOOLEAN /\ reached \in BOOLEAN
  /\ opened \in BOOLEAN /\ unlisted \in BOOLEAN

(* The announce loop between its steps. *)
Loop ==
  /\ pc = "down" => ~last
  /\ pc \in {"check", "wait", "down"} => busy = 0
  /\ pc = "post" => recheck \/ busy <= recheckAge
  /\ pc = "down" /\ machine = "prompt" => restarted
  /\ machine = "past" => pc = "down"

(* How old the record of a waiting machine may be when a POST is started,  *)
(* if the loop had an address: an interval, more after a POST that failed, *)
(* and after a restart.                                                    *)
Due == Interval + (IF missed THEN Retry ELSE 0)
Latest == Due + (IF restarted THEN Timeout + Gap ELSE 0)

Renewal ==
  machine = "prompt" /\ known /\ ~unlisted =>
    /\ record # None
    /\ pc = "down" => record <= Due + Timeout + down
    /\ pc = "check" /\ ~last => record <= Latest
    /\ pc = "post" => record <= Latest + busy
    /\ pc = "post" /\ last => tick \/ record <= tickAge
    /\ pc = "applied" => record <= busy /\ (tick \/ record <= tickAge)
    /\ pc = "wait" /\ ~last =>
         record <= Latest /\ (recheck \/ record + Recheck - recheckAge <= Latest)
    /\ pc \in {"check", "wait"} /\ last =>
         record <= Latest /\ (tick \/ record <= tickAge)

(* A machine that is gone no longer renews its record: what is left of it, *)
(* of a lookup under way and of an announcement is as old.                 *)
Gone ==
  /\ machine = "prompt" => gone = 0
  /\ record # None => gone <= record + Linger
  /\ reading # None => gone <= reading + Linger
  /\ machine = "past" /\ late > 0 => gone + late <= Linger + 1
  /\ WaitingIsRecent

(* verifyUnlocked between its steps. *)
Verification ==
  /\ phone = "idle" => ~opened /\ elapsed = 0 /\ shown = "none"
  /\ phone # "idle" => known
  /\ phone # "done" => verdict = "none"
  /\ phone # "asking" => reading = None
  /\ phone \notin {"asking", "rest"} => step = 0
  /\ phone = "asking" => step <= Lookup
  /\ phone = "rest" => step <= Poll
  /\ opened => machine = "past" /\ gone = elapsed
  /\ phone = "asking" /\ machine = "prompt" /\ ~unlisted =>
       reading # None /\ reading <= MaxAge + step
  /\ shown \in {"STALE", "ABSENT"} => machine = "past" \/ unlisted
  /\ phone = "rest" /\ shown = "WAITING" /\ opened =>
       elapsed <= Fresh + Skew + Linger + step
  /\ phone = "top" /\ shown = "WAITING" /\ opened =>
       elapsed <= Fresh + Skew + Linger + Poll
  /\ phone = "done" /\ verdict = "Success" => shown \in {"STALE", "UNDATED", "ABSENT"}
  /\ RefusalIsReal

IInv == TypeOK /\ Loop /\ Renewal /\ Gone /\ Verification

(* A waiting machine that is known to discovery, and whose announce loop   *)
(* had an address, has a record no older than MaxAge, wherever the loop is.*)
LEMMA RecordBounded ==
  ASSUME TypeOK, Loop, Renewal, machine = "prompt", known, ~unlisted
  PROVE  record # None /\ record \in Nat /\ record <= MaxAge /\ record < Cap
BY FreshnessAssumption
   DEF TypeOK, Loop, Renewal, Due, Latest, MaxAge, Retry, Cap, Ages, None

(* Every step keeps the types. *)
LEMMA TypeInductive ==
  ASSUME IInv, [Next]_vars
  PROVE  TypeOK'
<1> USE FreshnessAssumption DEF IInv
<1>1. CASE Start
  BY <1>1
  DEF Start, TypeOK, Ages, None, Cap, server, world, app
<1>2. ASSUME NEW current \in {"none", "same", "other"}, Check(current)
      PROVE  TypeOK'
  BY <1>2
  DEF Check, TypeOK, Ages, None, Cap, server, world, app
<1>3. CASE PostApplied
  <2>1. Flags'
    BY <1>3, Zenon DEF PostApplied, TypeOK, Flags, server, world, app
  <2> QED
    BY <1>3, <2>1 DEF PostApplied, TypeOK, Ages, None, Cap, server, world, app,
        Flags
<1>4. CASE PostAnswered
  BY <1>4
  DEF PostAnswered, TypeOK, Ages, None, Cap, server, world, app
<1>5. CASE PostFails
  BY <1>5
  DEF PostFails, TypeOK, Ages, None, Cap, server, world, app
<1>6. CASE TakeTick
  <2>1. Flags'
    BY <1>6, Zenon DEF TakeTick, TypeOK, Flags, server, world, app
  <2> QED
    BY <1>6, <2>1 DEF TakeTick, TypeOK, Ages, None, Cap, server, world, app,
        Flags
<1>7. CASE TakeRecheck
  <2>1. Flags'
    BY <1>7, Zenon DEF TakeRecheck, TypeOK, Flags, server, world, app
  <2> QED
    BY <1>7, <2>1 DEF TakeRecheck, TypeOK, Ages, None, Cap, server, world, app,
        Flags
<1>8. CASE LateApplied
  BY <1>8
  DEF LateApplied, TypeOK, Ages, None, Cap, server, world, app
<1>9. CASE Expire
  BY <1>9
  DEF Expire, TypeOK, Ages, None, Cap, server, world, app
<1>10. CASE Restart
  <2>1. Flags'
    BY <1>10, Zenon DEF Restart, ServerEnds, TypeOK, Flags, server, world, app
  <2> QED
    BY <1>10, <2>1 DEF Restart, ServerEnds, TypeOK, Ages, None, Cap, server,
        world, app, Flags
<1>11. CASE ConsoleUnlocks
  <2>1. Flags'
    BY <1>11, Zenon DEF ConsoleUnlocks, ServerEnds, TypeOK, Flags, server,
        world, app
  <2> QED
    BY <1>11, <2>1 DEF ConsoleUnlocks, ServerEnds, TypeOK, Ages, None, Cap,
        server, world, app, Flags
<1>12. ASSUME NEW right \in BOOLEAN, Transfer(right)
       PROVE  TypeOK'
  <2>1. Flags'
    BY <1>12, Zenon DEF Transfer, ServerEnds, TypeOK, Flags, server, world, app
  <2> QED
    BY <1>12, <2>1 DEF Transfer, ServerEnds, TypeOK, Ages, None, Cap, server,
        world, app, Flags
<1>13. CASE Ask
  BY <1>13
  DEF Ask, TypeOK, Ages, None, Cap, server, world, app
<1>14. CASE DeadlinePasses
  BY <1>14
  DEF DeadlinePasses, TypeOK, Ages, None, Cap, server, world, app
<1>15. CASE Answer
  BY <1>15
  DEF Answer, LookupRecord, CheckAgainst, TypeOK, Ages, None, Cap, server,
      world, app
<1>16. CASE Judge
  <2>1. Flags'
    BY <1>16, Zenon DEF Judge, TypeOK, Flags, server, world, app
  <2> QED
    BY <1>16, <2>1 DEF Judge, TypeOK, Ages, None, Cap, server, world, app, Flags
<1>17. CASE Wake
  BY <1>17
  DEF Wake, TypeOK, Ages, None, Cap, server, world, app
<1>18. CASE Pass
  <2>1. Flags'
    BY <1>18, Zenon DEF Pass, ServerMayPass, PhoneMayPass, ServerPasses,
        PhonePasses, Older, Loop, Verification, TypeOK, Flags, server, world,
        app
  <2> QED
    BY <1>18, <2>1 DEF Pass, ServerMayPass, PhoneMayPass, ServerPasses,
        PhonePasses, Older, Loop, Verification, TypeOK, Ages, None, Cap, server,
        world, app, Flags
<1>19. CASE UNCHANGED vars
  BY <1>19 DEF vars, server, world, app, TypeOK, Ages, None, Cap, server, world,
      app
<1> HIDE DEF IInv
<1> QED
  BY <1>1, <1>2, <1>3, <1>4, <1>5, <1>6, <1>7, <1>8, <1>9, <1>10, <1>11, <1>12,
      <1>13, <1>14, <1>15, <1>16, <1>17, <1>18, <1>19 DEF Next, Announce, Verify

(* Every step keeps the order of the announce loop. *)
LEMMA LoopInductive ==
  ASSUME IInv, [Next]_vars
  PROVE  Loop'
<1> USE FreshnessAssumption DEF IInv
<1>1. CASE Start
  BY <1>1
  DEF Start, Loop, TypeOK, server, world, app
<1>2. ASSUME NEW current \in {"none", "same", "other"}, Check(current)
      PROVE  Loop'
  BY <1>2
  DEF Check, Loop, TypeOK, server, world, app
<1>3. CASE PostApplied
  BY <1>3
  DEF PostApplied, Loop, TypeOK, server, world, app
<1>4. CASE PostAnswered
  BY <1>4
  DEF PostAnswered, Loop, TypeOK, server, world, app
<1>5. CASE PostFails
  BY <1>5
  DEF PostFails, Loop, TypeOK, server, world, app
<1>6. CASE TakeTick
  BY <1>6
  DEF TakeTick, Loop, TypeOK, server, world, app
<1>7. CASE TakeRecheck
  BY <1>7
  DEF TakeRecheck, Loop, TypeOK, server, world, app
<1>8. CASE LateApplied
  BY <1>8
  DEF LateApplied, Loop, TypeOK, server, world, app
<1>9. CASE Expire
  BY <1>9
  DEF Expire, Loop, TypeOK, server, world, app
<1>10. CASE Restart
  BY <1>10
  DEF Restart, ServerEnds, Loop, TypeOK, server, world, app
<1>11. CASE ConsoleUnlocks
  BY <1>11
  DEF ConsoleUnlocks, ServerEnds, Loop, TypeOK, server, world, app
<1>12. ASSUME NEW right \in BOOLEAN, Transfer(right)
       PROVE  Loop'
  BY <1>12
  DEF Transfer, ServerEnds, Loop, TypeOK, server, world, app
<1>13. CASE Ask
  BY <1>13
  DEF Ask, Loop, TypeOK, server, world, app
<1>14. CASE DeadlinePasses
  BY <1>14
  DEF DeadlinePasses, Loop, TypeOK, server, world, app
<1>15. CASE Answer
  BY <1>15
  DEF Answer, Loop, TypeOK, server, world, app
<1>16. CASE Judge
  BY <1>16
  DEF Judge, Loop, TypeOK, server, world, app
<1>17. CASE Wake
  BY <1>17
  DEF Wake, Loop, TypeOK, server, world, app
<1>18. CASE Pass
  <2>1. pc # "down" => (recheck' <=> recheck \/ recheckAge + 1 = Recheck)
    BY <1>18, Zenon DEF Pass, ServerPasses
  <2>2. pc = "post" => recheck' \/ busy' <= recheckAge'
    BY <1>18, <2>1 DEF Pass, ServerPasses, Loop, TypeOK
  <2> QED
    BY <1>18, <2>2 DEF Pass, ServerMayPass, PhoneMayPass, ServerPasses,
        PhonePasses, Older, Loop, TypeOK, server, world, app
<1>19. CASE UNCHANGED vars
  BY <1>19 DEF vars, server, world, app, Loop, TypeOK, server, world, app
<1> HIDE DEF IInv
<1> QED
  BY <1>1, <1>2, <1>3, <1>4, <1>5, <1>6, <1>7, <1>8, <1>9, <1>10, <1>11, <1>12,
      <1>13, <1>14, <1>15, <1>16, <1>17, <1>18, <1>19 DEF Next, Announce, Verify

(* Every step keeps the record of a waiting machine young. *)
LEMMA RenewalInductive ==
  ASSUME IInv, [Next]_vars
  PROVE  Renewal'
<1> USE FreshnessAssumption DEF IInv
<1>1. CASE Start
  BY <1>1
  DEF Start, Renewal, Due, Latest, Retry, Loop, TypeOK, None, Ages, server,
      world, app
<1>2. ASSUME NEW current \in {"none", "same", "other"}, Check(current)
      PROVE  Renewal'
  <2> SUFFICES ASSUME machine = "prompt", known, ~unlisted, current # "none"
               PROVE  Renewal'
    BY <1>2, Zenon DEF Check, Renewal
  <2>1. unlisted' = FALSE /\ pc' \in {"wait", "post"} /\ (pc' = "wait" => last)
    BY <1>2 DEF Check
  <2>2. QED
    BY <1>2, <2>1 DEF Check, Renewal, Due, Latest, Retry, Loop, TypeOK, None, app
<1>3. CASE PostApplied
  BY <1>3
  DEF PostApplied, Renewal, Due, Latest, Retry, Loop, TypeOK, None, Ages,
      server, world, app
<1>4. CASE PostAnswered
  BY <1>4
  DEF PostAnswered, Renewal, Due, Latest, Retry, Loop, TypeOK, None, Ages,
      server, world, app
<1>5. CASE PostFails
  BY <1>5
  DEF PostFails, Renewal, Due, Latest, Retry, Loop, TypeOK, None, Ages, server,
      world, app
<1>6. CASE TakeTick
  BY <1>6
  DEF TakeTick, Renewal, Due, Latest, Retry, Loop, TypeOK, None, Ages, server,
      world, app
<1>7. CASE TakeRecheck
  BY <1>7
  DEF TakeRecheck, Renewal, Due, Latest, Retry, Loop, TypeOK, None, Ages,
      server, world, app
<1>8. CASE LateApplied
  BY <1>8
  DEF LateApplied, Renewal, Due, Latest, Retry, Loop, TypeOK, None, Ages,
      server, world, app
<1>9. CASE Expire
  BY <1>9, RecordBounded
  DEF Expire, Cap, Renewal, Due, Latest, Retry, Loop, TypeOK, None, Ages,
      server, world, app
<1>10. CASE Restart
  BY <1>10
  DEF Restart, ServerEnds, Renewal, Due, Latest, Retry, Loop, TypeOK, None,
      Ages, server, world, app
<1>11. CASE ConsoleUnlocks
  BY <1>11
  DEF ConsoleUnlocks, ServerEnds, Renewal, Due, Latest, Retry, Loop, TypeOK,
      None, Ages, server, world, app
<1>12. ASSUME NEW right \in BOOLEAN, Transfer(right)
       PROVE  Renewal'
  BY <1>12
  DEF Transfer, ServerEnds, Renewal, Due, Latest, Retry, Loop, TypeOK, None,
      Ages, server, world, app
<1>13. CASE Ask
  BY <1>13
  DEF Ask, Renewal, Due, Latest, Retry, Loop, TypeOK, None, Ages, server, world,
      app
<1>14. CASE DeadlinePasses
  BY <1>14
  DEF DeadlinePasses, Renewal, Due, Latest, Retry, Loop, TypeOK, None, Ages,
      server, world, app
<1>15. CASE Answer
  BY <1>15
  DEF Answer, Renewal, Due, Latest, Retry, Loop, TypeOK, None, Ages, server,
      world, app
<1>16. CASE Judge
  BY <1>16
  DEF Judge, Renewal, Due, Latest, Retry, Loop, TypeOK, None, Ages, server,
      world, app
<1>17. CASE Wake
  BY <1>17
  DEF Wake, Renewal, Due, Latest, Retry, Loop, TypeOK, None, Ages, server,
      world, app
<1>18. CASE Pass
  <2>1. pc # "down" => (recheck' <=> recheck \/ recheckAge + 1 = Recheck)
    BY <1>18, Zenon DEF Pass, ServerPasses
  <2>2. pc # "down" => (tick' <=> tick \/ tickAge + 1 = Interval)
    BY <1>18, Zenon DEF Pass, ServerPasses
  <2>3. SUFFICES ASSUME machine = "prompt", known, ~unlisted PROVE Renewal'
    BY <1>18 DEF Pass, Renewal
  <2>4. record \in Nat /\ record # None /\ record' = record + 1 /\ record' # None
    BY <1>18, <2>3, RecordBounded DEF Pass, Older, None
  <2> USE DEF Pass, ServerPasses, ServerMayPass, Renewal, Due, Latest, Retry, Loop, TypeOK
  <2>5. CASE pc = "down"
    BY <1>18, <2>3, <2>4, <2>5
  <2>6. CASE pc = "post"
    BY <1>18, <2>2, <2>3, <2>4, <2>6
  <2>7. CASE pc = "applied"
    BY <1>18, <2>2, <2>3, <2>4, <2>7
  <2>8. CASE pc = "wait" /\ last
    BY <1>18, <2>1, <2>2, <2>3, <2>4, <2>8
  <2>9. CASE pc = "wait" /\ ~last
    BY <1>18, <2>1, <2>2, <2>3, <2>4, <2>9
  <2> QED
    BY <1>18, <2>5, <2>6, <2>7, <2>8, <2>9
<1>19. CASE UNCHANGED vars
  BY <1>19 DEF vars, server, world, app, Renewal, Due, Latest, Retry, Loop,
      TypeOK, None, Ages, server, world, app
<1> HIDE DEF IInv
<1> QED
  BY <1>1, <1>2, <1>3, <1>4, <1>5, <1>6, <1>7, <1>8, <1>9, <1>10, <1>11, <1>12,
      <1>13, <1>14, <1>15, <1>16, <1>17, <1>18, <1>19 DEF Next, Announce, Verify

(* Every step keeps the bound on the time the machine is gone. *)
LEMMA GoneInductive ==
  ASSUME IInv, [Next]_vars
  PROVE  Gone'
<1> USE FreshnessAssumption DEF IInv
<1>1. CASE Start
  BY <1>1
  DEF Start, Gone, WaitingIsRecent, Loop, TypeOK, None, Ages, Cap, server,
      world, app
<1>2. ASSUME NEW current \in {"none", "same", "other"}, Check(current)
      PROVE  Gone'
  BY <1>2
  DEF Check, Gone, WaitingIsRecent, Loop, TypeOK, None, Ages, Cap, server,
      world, app
<1>3. CASE PostApplied
  BY <1>3
  DEF PostApplied, Gone, WaitingIsRecent, Loop, TypeOK, None, Ages, Cap, server,
      world, app
<1>4. CASE PostAnswered
  BY <1>4
  DEF PostAnswered, Gone, WaitingIsRecent, Loop, TypeOK, None, Ages, Cap,
      server, world, app
<1>5. CASE PostFails
  BY <1>5
  DEF PostFails, Gone, WaitingIsRecent, Loop, TypeOK, None, Ages, Cap, server,
      world, app
<1>6. CASE TakeTick
  BY <1>6
  DEF TakeTick, Gone, WaitingIsRecent, Loop, TypeOK, None, Ages, Cap, server,
      world, app
<1>7. CASE TakeRecheck
  BY <1>7
  DEF TakeRecheck, Gone, WaitingIsRecent, Loop, TypeOK, None, Ages, Cap, server,
      world, app
<1>8. CASE LateApplied
  BY <1>8
  DEF LateApplied, Gone, WaitingIsRecent, Loop, TypeOK, None, Ages, Cap, server,
      world, app
<1>9. CASE Expire
  BY <1>9
  DEF Expire, Gone, WaitingIsRecent, Loop, TypeOK, None, Ages, Cap, server,
      world, app
<1>10. CASE Restart
  BY <1>10
  DEF Restart, ServerEnds, Gone, WaitingIsRecent, Loop, TypeOK, None, Ages, Cap,
      server, world, app
<1>11. CASE ConsoleUnlocks
  BY <1>11
  DEF ConsoleUnlocks, ServerEnds, Gone, WaitingIsRecent, Loop, TypeOK, None,
      Ages, Cap, server, world, app
<1>12. ASSUME NEW right \in BOOLEAN, Transfer(right)
       PROVE  Gone'
  BY <1>12
  DEF Transfer, ServerEnds, Gone, WaitingIsRecent, Loop, TypeOK, None, Ages,
      Cap, server, world, app
<1>13. CASE Ask
  BY <1>13
  DEF Ask, Gone, WaitingIsRecent, Loop, TypeOK, None, Ages, Cap, server, world,
      app
<1>14. CASE DeadlinePasses
  BY <1>14
  DEF DeadlinePasses, Gone, WaitingIsRecent, Loop, TypeOK, None, Ages, Cap,
      server, world, app
<1>15. CASE Answer
  BY <1>15
  DEF Answer, LookupRecord, CheckAgainst, Gone, WaitingIsRecent, Loop, TypeOK,
      None, Ages, Cap, server, world, app
<1>16. CASE Judge
  BY <1>16
  DEF Judge, Gone, WaitingIsRecent, Loop, TypeOK, None, Ages, Cap, server,
      world, app
<1>17. CASE Wake
  BY <1>17
  DEF Wake, Gone, WaitingIsRecent, Loop, TypeOK, None, Ages, Cap, server, world,
      app
<1>18. CASE Pass
  <2> USE DEF Pass, PhonePasses, Older, Cap, None, Ages, TypeOK
  <2>1. (machine = "prompt" => gone = 0)'
    BY <1>18
  <2>2. (record # None => gone <= record + Linger)'
    BY <1>18 DEF Gone
  <2>3. (reading # None => gone <= reading + Linger)'
    BY <1>18 DEF Gone, Verification
  <2>4. (machine = "past" /\ late > 0 => gone + late <= Linger + 1)'
    BY <1>18 DEF Gone
  <2>5. WaitingIsRecent'
    BY <1>18 DEF PhoneMayPass, WaitingIsRecent
  <2> QED
    BY <2>1, <2>2, <2>3, <2>4, <2>5 DEF Gone
<1>19. CASE UNCHANGED vars
  BY <1>19 DEF vars, server, world, app, Gone, WaitingIsRecent, Loop, TypeOK,
      None, Ages, Cap, server, world, app
<1> HIDE DEF IInv
<1> QED
  BY <1>1, <1>2, <1>3, <1>4, <1>5, <1>6, <1>7, <1>8, <1>9, <1>10, <1>11, <1>12,
      <1>13, <1>14, <1>15, <1>16, <1>17, <1>18, <1>19 DEF Next, Announce, Verify

(* Every step keeps what verifyUnlocked has concluded true. *)
LEMMA VerificationInductive ==
  ASSUME IInv, [Next]_vars
  PROVE  Verification'
<1> USE FreshnessAssumption DEF IInv
<1>1. CASE Start
  BY <1>1
  DEF Start, Verification, RefusalIsReal, MaxAge, Retry, Gone, WaitingIsRecent,
      Loop, TypeOK, None, Ages, Cap, server, world, app
<1>2. ASSUME NEW current \in {"none", "same", "other"}, Check(current)
      PROVE  Verification'
  BY <1>2
  DEF Check, Verification, RefusalIsReal, MaxAge, Retry, Gone, WaitingIsRecent,
      Loop, TypeOK, None, Ages, Cap, server, world, app
<1>3. CASE PostApplied
  BY <1>3
  DEF PostApplied, Verification, RefusalIsReal, MaxAge, Retry, Gone,
      WaitingIsRecent, Loop, TypeOK, None, Ages, Cap, server, world, app
<1>4. CASE PostAnswered
  BY <1>4
  DEF PostAnswered, Verification, RefusalIsReal, MaxAge, Retry, Gone,
      WaitingIsRecent, Loop, TypeOK, None, Ages, Cap, server, world, app
<1>5. CASE PostFails
  BY <1>5
  DEF PostFails, Verification, RefusalIsReal, MaxAge, Retry, Gone,
      WaitingIsRecent, Loop, TypeOK, None, Ages, Cap, server, world, app
<1>6. CASE TakeTick
  BY <1>6
  DEF TakeTick, Verification, RefusalIsReal, MaxAge, Retry, Gone,
      WaitingIsRecent, Loop, TypeOK, None, Ages, Cap, server, world, app
<1>7. CASE TakeRecheck
  BY <1>7
  DEF TakeRecheck, Verification, RefusalIsReal, MaxAge, Retry, Gone,
      WaitingIsRecent, Loop, TypeOK, None, Ages, Cap, server, world, app
<1>8. CASE LateApplied
  BY <1>8
  DEF LateApplied, Verification, RefusalIsReal, MaxAge, Retry, Gone,
      WaitingIsRecent, Loop, TypeOK, None, Ages, Cap, server, world, app
<1>9. CASE Expire
  BY <1>9
  DEF Expire, Verification, RefusalIsReal, MaxAge, Retry, Gone, WaitingIsRecent,
      Loop, TypeOK, None, Ages, Cap, server, world, app
<1>10. CASE Restart
  BY <1>10
  DEF Restart, ServerEnds, Verification, RefusalIsReal, MaxAge, Retry, Gone,
      WaitingIsRecent, Loop, TypeOK, None, Ages, Cap, server, world, app
<1>11. CASE ConsoleUnlocks
  BY <1>11
  DEF ConsoleUnlocks, ServerEnds, Verification, RefusalIsReal, MaxAge, Retry,
      Gone, WaitingIsRecent, Loop, TypeOK, None, Ages, Cap, server, world, app
<1>12. ASSUME NEW right \in BOOLEAN, Transfer(right)
       PROVE  Verification'
  BY <1>12
  DEF Transfer, ServerEnds, Verification, RefusalIsReal, MaxAge, Retry, Gone,
      WaitingIsRecent, Loop, TypeOK, None, Ages, Cap, server, world, app
<1>13. CASE Ask
  BY <1>13, RecordBounded
  DEF Ask, Verification, RefusalIsReal, MaxAge, Retry, Gone, WaitingIsRecent,
      Loop, TypeOK, None, Ages, Cap, server, world, app
<1>14. CASE DeadlinePasses
  <2>1. verdict' \in {"NotAccepted", "Unverified"}
    BY <1>14 DEF DeadlinePasses
  <2>2. ~ (shown = "WAITING" /\ opened)
    BY <1>14 DEF DeadlinePasses, Verification, TypeOK, Ages, Cap
  <2>3. ~ (shown \in {"STALE", "ABSENT"} /\ machine = "prompt" /\ ~unlisted)
    BY <1>14 DEF DeadlinePasses, Verification
  <2> QED
    BY <1>14, <2>1, <2>2, <2>3
    DEF DeadlinePasses, Verification, RefusalIsReal, TypeOK, server, world
<1>15. CASE Answer
  BY <1>15
  DEF Answer, LookupRecord, CheckAgainst, Verification, RefusalIsReal, MaxAge,
      Retry, Gone, WaitingIsRecent, Loop, TypeOK, None, Ages, Cap, server,
      world, app
<1>16. CASE Judge
  BY <1>16
  DEF Judge, Verification, RefusalIsReal, MaxAge, Retry, Gone, WaitingIsRecent,
      Loop, TypeOK, None, Ages, Cap, server, world, app
<1>17. CASE Wake
  BY <1>17
  DEF Wake, Verification, RefusalIsReal, MaxAge, Retry, Gone, WaitingIsRecent,
      Loop, TypeOK, None, Ages, Cap, server, world, app
<1>18. CASE Pass
  <2> USE DEF Pass, PhoneMayPass, PhonePasses, Older, TypeOK, Ages, Cap, None
  <2>1. opened' => machine' = "past" /\ gone' = elapsed'
    BY <1>18 DEF Verification
  <2>2. phone' = "asking" /\ machine' = "prompt" /\ ~unlisted' =>
          reading' # None /\ reading' <= MaxAge + step'
    BY <1>18 DEF Verification, MaxAge, Retry
  <2>3. phone' = "rest" /\ shown' = "WAITING" /\ opened' =>
          elapsed' <= Fresh + Skew + Linger + step'
    BY <1>18 DEF Verification
  <2>4. /\ phone' # "asking" => reading' = None
        /\ phone' \notin {"asking", "rest"} => step' = 0
        /\ phone' = "asking" => step' <= Lookup
        /\ phone' = "rest" => step' <= Poll
        /\ phone' = "idle" => elapsed' = 0
        /\ phone' \notin {"top", "judge", "done"}
    BY <1>18 DEF Verification
  <2> QED
    BY <1>18, <2>1, <2>2, <2>3, <2>4 DEF Verification, RefusalIsReal
<1>19. CASE UNCHANGED vars
  BY <1>19 DEF vars, server, world, app, Verification, RefusalIsReal, MaxAge,
      Retry, Gone, WaitingIsRecent, Loop, TypeOK, None, Ages, Cap, server,
      world, app
<1> HIDE DEF IInv
<1> QED
  BY <1>1, <1>2, <1>3, <1>4, <1>5, <1>6, <1>7, <1>8, <1>9, <1>10, <1>11, <1>12,
      <1>13, <1>14, <1>15, <1>16, <1>17, <1>18, <1>19 DEF Next, Announce, Verify

(* The invariant holds in every reachable state. *)
THEOREM Invariant == Spec => []IInv
<1>1. Init => IInv
  <2> SUFFICES ASSUME Init PROVE IInv
    OBVIOUS
  <2>1. Flags
    BY Zenon DEF Init, Flags
  <2>2. TypeOK
    BY <2>1, FreshnessAssumption DEF Init, TypeOK, Flags, Ages, Cap, None
  <2>3. Loop /\ Renewal
    BY DEF Init, Loop, Renewal
  <2>4. Gone /\ Verification
    BY FreshnessAssumption
    DEF Init, Gone, Verification, WaitingIsRecent, RefusalIsReal, Cap, None
  <2> QED
    BY <2>2, <2>3, <2>4 DEF IInv
<1>2. IInv /\ [Next]_vars => IInv'
  BY TypeInductive, LoopInductive, RenewalInductive, GoneInductive,
     VerificationInductive DEF IInv
<1> QED
  BY <1>1, <1>2, PTL DEF Spec

(* Types of the timed model: ages, timers and the state of verifyUnlocked. *)
THEOREM TypeCorrect == Spec => []TypeOK
<1>1. IInv => TypeOK
  BY DEF IInv
<1> QED
  BY <1>1, Invariant, PTL

(* checkAgainst (mobile.go) never reports a machine as waiting longer than *)
(* the fresh age, the skew and the last announcement's delay after it left.*)
THEOREM WaitingRecent == Spec => []WaitingIsRecent
<1>1. IInv => WaitingIsRecent
  BY DEF IInv, Gone
<1> QED
  BY <1>1, Invariant, PTL

(* verifyUnlocked (MainActivity.kt) reports success only for a machine     *)
(* that is past its prompt, for all timings the assumption admits, if the  *)
(* announce loop always had an address: the bound on the age of a record   *)
(* survives a lost POST, a restart and every change of relay.              *)
THEOREM SuccessReal == Spec => []SuccessIsReal
<1>1. IInv => SuccessIsReal
  BY DEF IInv, Verification, SuccessIsReal, TypeOK
<1> QED
  BY <1>1, Invariant, PTL

(* It reports a refusal after a last answer of WAITING only for a          *)
(* passphrase that did not open the volume: the window is long enough.     *)
THEOREM RefusalReal == Spec => []RefusalIsReal
<1>1. IInv => RefusalIsReal
  BY DEF IInv, Verification
<1> QED
  BY <1>1, Invariant, PTL

(* What the code does at once: a step of the server or of verifyUnlocked,  *)
(* or of the agent that starts the server, is due.                         *)
StepDue ==
  \/ pc = "down" /\ machine = "prompt"
  \/ pc \in {"check", "post", "applied"}
  \/ pc = "wait" /\ (tick \/ recheck)
  \/ phone \in {"top", "asking", "judge"}
  \/ phone = "rest" /\ step = Poll

ClockGoesOn == phone = "done" \/ (ServerMayPass /\ PhoneMayPass) \/ StepDue

(* Until there is a verdict time can pass, or a step of the code is due:   *)
(* no bound above is met because the clock of the model has stopped, for   *)
(* any intervals and timeouts.                                             *)
THEOREM ClockNeverStops == Spec => []ClockGoesOn
<1>1. IInv => ClockGoesOn
  <2> SUFFICES ASSUME IInv, phone # "done", ~StepDue
               PROVE  ServerMayPass /\ PhoneMayPass
    BY DEF ClockGoesOn
  <2>1. ServerMayPass
    BY DEF IInv, TypeOK, StepDue, ServerMayPass
  <2>2. PhoneMayPass
    BY FreshnessAssumption DEF IInv, TypeOK, Verification, StepDue, PhoneMayPass
  <2>3. QED
    BY <2>1, <2>2
<1> QED
  BY <1>1, Invariant, PTL

-----------------------------------------------------------------------------
(***************************************************************************)
(* The announce loop once more, without the clock and with the addresses   *)
(* it announces: Announce, for any relays and any Expiry.  `loop' holds    *)
(* the variables of that module.                                           *)
(***************************************************************************)
CONSTANTS Relays, DirectPorts, Expiry
VARIABLE loop

A == INSTANCE Announce
     WITH direct <- loop.direct, uri <- loop.uri, pc <- loop.pc,
          current <- loop.current, last <- loop.last, ticker <- loop.ticker,
          recheck <- loop.recheck, late <- loop.late, age <- loop.age,
          ctxDone <- loop.ctxDone

(* An address was announced since the tick before the one that waits. *)
Ticks == IF loop.ticker THEN 1 ELSE 0
Recent(s) == \A a \in s : loop.age[a] <= Ticks

(* What is remembered was announced since, and so was what a POST that     *)
(* waits for its answer has brought to discovery.                          *)
Published ==
  /\ Recent(loop.last)
  /\ loop.pc \in {"post", "applied"} => loop.current # {}
  /\ loop.pc = "applied" => Recent(loop.current)

AnnounceInv == A!TypeOK /\ Published

(* A step does not change which sets may be announced, and all of them are *)
(* sets of addresses.                                                      *)
LEMMA AnnouncedSets ==
  /\ loop'.direct = loop.direct => A!AddressSets' = A!AddressSets
  /\ A!AnnounceAddresses = A!AddressesOf(loop.uri)
  /\ \A u \in Relays \cup {A!NoRelay} : A!AddressesOf(u) \in A!AddressSets
  /\ \A s \in A!AddressSets : s \subseteq A!Addresses
BY DEF A!AddressSets, A!AddressesOf, A!Addresses, A!AnnounceAddresses

(* The goroutine starts with nothing announced. *)
LEMMA AnnounceInit == ASSUME Expiry \in Nat PROVE A!Init => AnnounceInv
<1>1. A!Init => loop.age \in [A!Addresses -> 0..Expiry]
  BY DEF A!Init
<1>2. QED
  BY <1>1, Zenon DEF A!Init, AnnounceInv, A!TypeOK, Published, Recent

(* The steps keep the types. *)
LEMMA AnnounceTypes ==
  ASSUME Expiry \in Nat, AnnounceInv, A!Next
  PROVE  A!TypeOK'
<1> USE AnnouncedSets DEF AnnounceInv, A!TypeOK
<1>1. CASE A!RelayChanges \/ A!RecheckFires \/ A!CancelContext
  BY <1>1, Zenon DEF A!RelayChanges, A!RecheckFires, A!CancelContext
<1>2. CASE A!TickerFires
  <2>1. loop'.age \in [A!Addresses -> 0..Expiry]
    BY <1>2 DEF A!TickerFires
  <2>2. QED
    BY <1>2, <2>1, Zenon DEF A!TickerFires
<1>3. CASE A!Check
  BY <1>3 DEF A!Check
<1>4. CASE A!PostApplied
  BY <1>4 DEF A!PostApplied, A!Merge
<1>5. CASE A!PostAnswered
  BY <1>5 DEF A!PostAnswered
<1>6. CASE A!PostFails
  BY <1>6 DEF A!PostFails, Published
<1>7. CASE A!TakeTick \/ A!TakeRecheck \/ A!Stop
  BY <1>7, Zenon DEF A!TakeTick, A!TakeRecheck, A!Stop
<1>8. ASSUME NEW a \in loop.late, A!LateApplied(a) PROVE A!TypeOK'
  BY <1>8 DEF A!LateApplied, A!Merge
<1>9. QED
  BY <1>1, <1>2, <1>3, <1>4, <1>5, <1>6, <1>7, <1>8 DEF A!Next, A!Post

(* A tick ages what was announced by one, and is taken with what is        *)
(* remembered; only discovery's answer makes the loop remember.            *)
LEMMA AnnouncePublished ==
  ASSUME Expiry \in Nat, AnnounceInv, A!Next
  PROVE  Published'
<1>0. /\ loop.age \in [A!Addresses -> 0..Expiry]
      /\ loop.last \subseteq A!Addresses /\ loop.current \subseteq A!Addresses
  BY AnnouncedSets DEF AnnounceInv, A!TypeOK
<1> USE DEF AnnounceInv, Published, Recent, Ticks
<1>1. CASE A!RelayChanges \/ A!RecheckFires \/ A!CancelContext
  BY <1>1 DEF A!RelayChanges, A!RecheckFires, A!CancelContext
<1>2. CASE A!TickerFires
  BY <1>0, <1>2 DEF A!TickerFires
<1>3. CASE A!Check
  BY <1>3 DEF A!Check
<1>4. CASE A!PostApplied
  BY <1>0, <1>4 DEF A!PostApplied, A!Merge
<1>5. CASE A!PostAnswered
  BY <1>5 DEF A!PostAnswered
<1>6. CASE A!PostFails
  BY <1>6 DEF A!PostFails
<1>7. CASE A!TakeTick \/ A!TakeRecheck \/ A!Stop
  BY <1>7 DEF A!TakeTick, A!TakeRecheck, A!Stop
<1>8. ASSUME NEW a \in loop.late, A!LateApplied(a) PROVE Published'
  BY <1>0, <1>8 DEF A!LateApplied, A!Merge
<1>9. QED
  BY <1>1, <1>2, <1>3, <1>4, <1>5, <1>6, <1>7, <1>8 DEF A!Next, A!Post

(* The invariant of the announce loop holds in every reachable state. *)
THEOREM AnnounceInvariant == ASSUME Expiry \in Nat PROVE A!Spec => []AnnounceInv
<1>1. AnnounceInv /\ [A!Next]_(A!vars) => AnnounceInv'
  <2> SUFFICES ASSUME AnnounceInv, [A!Next]_(A!vars) PROVE AnnounceInv'
    OBVIOUS
  <2>1. CASE A!Next
    BY <2>1, AnnounceTypes, AnnouncePublished DEF AnnounceInv
  <2>2. CASE UNCHANGED A!vars
    BY <2>2, AnnouncedSets DEF A!vars, AnnounceInv, A!TypeOK, Published, Recent, Ticks
  <2>3. QED
    BY <2>1, <2>2
<1>2. QED
  BY <1>1, AnnounceInit, PTL DEF A!Spec

(* The variables of the announce loop keep their types: it announces the   *)
(* addresses of one relay at a time, and never none.                       *)
THEOREM AnnounceTypeCorrect == ASSUME Expiry \in Nat PROVE A!Spec => []A!TypeOK
<1>1. AnnounceInv => A!TypeOK
  BY DEF AnnounceInv
<1>2. QED
  BY <1>1, AnnounceInvariant, PTL

(* What lastAnnounced keeps the loop from announcing again is in the       *)
(* record, whatever relays there are and whatever became of the POSTs, if  *)
(* discovery keeps an address for longer than the interval.                *)
THEOREM RememberedPublished ==
  ASSUME Expiry \in Nat PROVE A!Spec => []A!RememberedIsPublished
<1>1. AnnounceInv => A!RememberedIsPublished
  BY AnnouncedSets
  DEF AnnounceInv, A!TypeOK, Published, Recent, Ticks, A!RememberedIsPublished, A!Record
<1>2. QED
  BY <1>1, AnnounceInvariant, PTL
=============================================================================
