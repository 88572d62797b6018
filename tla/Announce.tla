------------------------------ MODULE Announce ------------------------------
(***************************************************************************)
(* The announce goroutine for one discovery server and announceAddresses   *)
(* (main.go), against a relay client that changes relays and a discovery   *)
(* server that may refuse, lose or, after the client has given up on it,   *)
(* still apply an announcement.  "global discovery merges announcements    *)
(* instead of replacing them" (main.go 676-678): an address stays in the   *)
(* record until it has not been announced for some intervals.  The         *)
(* goroutines of different discovery servers share nothing but the         *)
(* addresses they read.                                                    *)
(***************************************************************************)
EXTENDS Naturals

CONSTANTS
  Relays,       \* the relays the relay client may pick
  DirectPorts,  \* the values explored of: --direct-port is set
  Expiry        \* intervals after which discovery forgets an address

NoRelay == "none"

ASSUME AnnounceAssumption ==
  /\ DirectPorts \subseteq BOOLEAN
  /\ Expiry \in Nat \ {0}
  /\ NoRelay \notin Relays

Addresses == Relays \cup {"direct"}

VARIABLES
  direct,    \* whether there is a direct port to announce
  uri,       \* the URI of the relay client
  pc,        \* where the goroutine is
  current,   \* the addresses it read
  last,      \* lastAnnounced
  ticker,    \* whether ticker.C holds a tick
  recheck,   \* whether recheck.C holds a tick
  late,      \* announcements given up that the server may still apply
  age,       \* intervals since discovery was told of each address
  ctxDone    \* whether the context is cancelled

vars == <<direct, uri, pc, current, last, ticker, recheck, late, age, ctxDone>>

(* announceAddresses: the relay in use now, and the direct port. *)
AddressesOf(u) == ({u} \ {NoRelay}) \cup (IF direct THEN {"direct"} ELSE {})
AnnounceAddresses == AddressesOf(uri)

(* The addresses of the discovery record, and what a POST does to it. *)
Record == {a \in Addresses : age[a] < Expiry}
Merge(new) == age' = [a \in Addresses |-> IF a \in new THEN 0 ELSE age[a]]

Init ==
  /\ direct \in DirectPorts
  /\ uri \in Relays \cup {NoRelay}
  /\ pc = "check"
  /\ current = {} /\ last = {}
  /\ ticker = FALSE /\ recheck = FALSE
  /\ late = {} /\ age = [a \in Addresses |-> Expiry]
  /\ ctxDone = FALSE

-----------------------------------------------------------------------------
(* The relay client, the two tickers and the caller. *)
RelayChanges ==
  /\ \E u \in (Relays \cup {NoRelay}) \ {uri} : uri' = u
  /\ UNCHANGED <<direct, pc, current, last, ticker, recheck, late, age, ctxDone>>

(* An interval passes; it is longer than the goroutine is ever busy. *)
TickerFires ==
  /\ ~ticker /\ ticker' = TRUE
  /\ age' = [a \in Addresses |-> IF age[a] < Expiry THEN age[a] + 1 ELSE Expiry]
  /\ UNCHANGED <<direct, uri, pc, current, last, recheck, late, ctxDone>>

RecheckFires ==
  /\ ~recheck /\ recheck' = TRUE
  /\ UNCHANGED <<direct, uri, pc, current, last, ticker, late, age, ctxDone>>

CancelContext ==
  /\ ~ctxDone /\ ctxDone' = TRUE
  /\ UNCHANGED <<direct, uri, pc, current, last, ticker, recheck, late, age>>

-----------------------------------------------------------------------------
(* The top of the loop: nothing to say, nothing new, or a POST. *)
Check_Accumulates ==
  /\ pc = "check"
  /\ current' = current \cup AnnounceAddresses
  /\ pc' = IF current' = {} \/ current' = last THEN "wait" ELSE "post"
  /\ UNCHANGED <<direct, uri, last, ticker, recheck, late, age, ctxDone>>

Check ==
  /\ pc = "check"
  /\ current' = AnnounceAddresses
  /\ pc' = IF current' = {} \/ current' = last THEN "wait" ELSE "post"
  /\ UNCHANGED <<direct, uri, last, ticker, recheck, late, age, ctxDone>>

(* The POST: applied and answered, refused, or lost on the way there or on *)
(* the way back.  Only an answer of 204 is remembered.                     *)
PostApplied ==
  /\ pc = "post"
  /\ Merge(current)
  /\ pc' = "applied"
  /\ UNCHANGED <<direct, uri, current, last, ticker, recheck, late, ctxDone>>

PostAnswered ==
  /\ pc = "applied"
  /\ last' = current
  /\ pc' = "wait"
  /\ UNCHANGED <<direct, uri, current, ticker, recheck, late, age, ctxDone>>

PostFails_Remembered ==
  /\ pc = "post"
  /\ pc' = "wait"
  /\ last' = current
  /\ UNCHANGED <<direct, uri, current, ticker, recheck, late, age, ctxDone>>

PostFails ==
  /\ pc = "post" \/ pc = "applied"
  /\ pc' = "wait"
  /\ \/ UNCHANGED late
     \/ pc = "post" /\ late' = late \cup {current}
  /\ UNCHANGED <<direct, uri, current, last, ticker, recheck, age, ctxDone>>

LateApplied(a) ==
  /\ a \in late
  /\ late' = late \ {a}
  /\ Merge(a)
  /\ UNCHANGED <<direct, uri, pc, current, last, ticker, recheck, ctxDone>>

(* The two selects of the loop do the same. *)
TakeTick_NoRefresh ==
  /\ pc = "wait" /\ ticker
  /\ ticker' = FALSE
  /\ pc' = "check"
  /\ UNCHANGED <<direct, uri, current, last, recheck, late, age, ctxDone>>

TakeTick ==
  /\ pc = "wait" /\ ticker
  /\ ticker' = FALSE
  /\ last' = {}
  /\ pc' = "check"
  /\ UNCHANGED <<direct, uri, current, recheck, late, age, ctxDone>>

TakeRecheck ==
  /\ pc = "wait" /\ recheck
  /\ recheck' = FALSE
  /\ pc' = "check"
  /\ UNCHANGED <<direct, uri, current, last, ticker, late, age, ctxDone>>

Stop ==
  /\ pc = "wait" /\ ctxDone
  /\ pc' = "stopped"
  /\ UNCHANGED <<direct, uri, current, last, ticker, recheck, late, age, ctxDone>>

-----------------------------------------------------------------------------
Post == PostApplied \/ PostAnswered \/ PostFails
Next ==
  \/ RelayChanges \/ TickerFires \/ RecheckFires \/ CancelContext
  \/ Check \/ Post \/ TakeTick \/ TakeRecheck \/ Stop
  \/ \E a \in late : LateApplied(a)

Spec == Init /\ [][Next]_vars

(***************************************************************************)
(* The goroutine runs, a POST ends after ten seconds at the latest, the    *)
(* recheck ticker ticks, the interval may or may not elapse, a select      *)
(* with several ready cases does not pass the same one over for ever, and  *)
(* the discovery server does not fail for ever.                            *)
(***************************************************************************)
Fairness ==
  /\ WF_vars(Check) /\ WF_vars(Post)
  /\ WF_vars(RecheckFires)
  /\ SF_vars(TakeTick) /\ SF_vars(TakeRecheck) /\ SF_vars(Stop)
  /\ SF_vars(PostApplied) /\ SF_vars(PostAnswered)
  /\ \A a \in SUBSET (Relays \cup {"direct"}) : WF_vars(LateApplied(a))

FairSpec == Spec /\ Fairness

-----------------------------------------------------------------------------
(* The values the variables take. *)
AddressSets == {AddressesOf(u) : u \in Relays \cup {NoRelay}}
TypeOK ==
  /\ direct \in DirectPorts
  /\ uri \in Relays \cup {NoRelay}
  /\ pc \in {"check", "post", "applied", "wait", "stopped"}
  /\ {current, last} \subseteq AddressSets \cup {{}}
  /\ late \subseteq AddressSets \ {{}}
  /\ age \in [Addresses -> 0..Expiry]
  /\ \A f \in {ticker, recheck, ctxDone} : f \in BOOLEAN

(* What lastAnnounced keeps the loop from announcing again is in discovery,*)
(* unless discovery forgets within the interval: it is remembered only     *)
(* when discovery has confirmed it, and until the next tick.               *)
RememberedIsPublished == Expiry > 1 => last \subseteq Record

(* A relay the client stays on is found in discovery, without waiting for  *)
(* the interval to elapse, and again and again however often it elapses,   *)
(* whatever relays came before it and whatever announcements were refused, *)
(* lost or answered too late.                                              *)
RelayIsFindable ==
  \A r \in Relays : <>[](uri = r /\ ~ctxDone) => []<>(r \in Record)

(* Once the client stays on a relay, discovery forgets those it has left   *)
(* as the intervals go by: announceAddresses is evaluated anew for every   *)
(* announcement.                                                           *)
LeftRelaysForgotten ==
  \A r \in Relays :
    ([]<>ticker /\ <>[](uri = r /\ ~ctxDone)) => <>[](Record \subseteq AddressesOf(r))
=============================================================================
