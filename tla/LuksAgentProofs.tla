-------------------------- MODULE LuksAgentProofs --------------------------
(***************************************************************************)
(* Proofs about LuksAgent for any number of request files and volumes and  *)
(* any luks.conf and headers: whom the agent answers, how often and with   *)
(* what, and that it goes on looking at what it has not answered.          *)
(***************************************************************************)
EXTENDS LuksAgent, SequenceTheorems, TLAPS

(***************************************************************************)
(* The strengthening.  A request in the hands of the agent is one of       *)
(* cryptsetup's and has not been sent anything, unless it has gone: it was *)
(* not in the map when the pass began, and only the agent sends.           *)
(***************************************************************************)
InHand == todo \cup ({req} \cap Paths)

HandIsOurs ==
  \A p \in InHand : want[p] \in Volumes /\ inbox[p] = << >> /\ file[p] # "absent"

(* The request being handled is not met again in the same pass, and there  *)
(* is none between two of them.                                            *)
ReqLeftTodo ==
  /\ req \notin todo
  /\ pc \in {"sleep", "config", "handle"} => req = NoRequest

(* A request that exists and was sent something is in the map. *)
SentIsMarked == \A p \in Existing : inbox[p] # << >> => p \in answered

(* A file that has not appeared yet was sent nothing. *)
AbsentUntouched == \A p \in Paths : file[p] = "absent" => inbox[p] = << >>

(* Only a verified key is on its way. *)
ReplyVerified == pc = "reply" => Verified

(* The device of the configuration is one with a usable token, so the only *)
(* one in the documented case.                                             *)
DeviceIsToken ==
  \A r \in Volumes :
    (OnlyToken(r) /\ pc \in {"handle", "fetch", "verify", "reply"}) => device = r

IInv ==
  /\ TypeOK /\ OnlyCryptsetupAnswered /\ AnsweredOnce /\ NoTryWasted
  /\ HandIsOurs /\ ReqLeftTodo /\ SentIsMarked /\ AbsentUntouched
  /\ ReplyVerified /\ DeviceIsToken

-----------------------------------------------------------------------------
(* The initial state satisfies the invariant: no file has appeared. *)
LEMMA InitInvariant == Init => IInv
<1> SUFFICES ASSUME Init PROVE IInv
  OBVIOUS
<1>1. inbox \in [Paths -> Seq(Keys)] /\ \A p \in Paths : inbox[p] = << >>
  <2>1. << >> \in Seq(Keys)
    OBVIOUS
  <2>2. QED
    BY <2>1 DEF Init
<1>2. TypeOK
  BY <1>1 DEF Init, TypeOK, Wants, Keys
<1>3. InHand = {}
  BY AgentAssumption DEF Init, InHand
<1>4. OnlyCryptsetupAnswered /\ NoTryWasted /\ SentIsMarked /\ AbsentUntouched
  BY <1>1 DEF OnlyCryptsetupAnswered, NoTryWasted, SentIsMarked, AbsentUntouched,
              Existing
<1>5. AnsweredOnce
  <2>1. Len(<< >>) <= 1
    OBVIOUS
  <2>2. QED
    BY <1>1, <2>1, Zenon DEF AnsweredOnce
<1>6. HandIsOurs /\ ReqLeftTodo
  BY <1>3 DEF HandIsOurs, ReqLeftTodo, Init
<1>7. ReplyVerified /\ DeviceIsToken
  BY DEF ReplyVerified, DeviceIsToken, Init
<1>8. QED
  BY <1>2, <1>4, <1>5, <1>6, <1>7 DEF IInv

(* What is the documented case depends on luks.conf and the headers alone. *)
LEMMA SameSetup ==
  ASSUME setup' = setup
  PROVE  \A r \in Volumes : OnlyToken(r)' = OnlyToken(r)
<1>1. ParseLuksConf(setup.conf)' = ParseLuksConf(setup.conf)
  OBVIOUS
<1>2. \A v \in Volumes : Usable(v)' = Usable(v)
  BY Zenon DEF Usable, TokenIDs, ParseLUKSToken
<1>3. QED
  BY <1>1, <1>2 DEF OnlyToken

(***************************************************************************)
(* A step of systemd sends nothing, and turns a file that it had created   *)
(* neither back into an absent one nor to another asker.                   *)
(***************************************************************************)
LEMMA SystemdInvariant == IInv /\ Systemd => IInv'
<1> SUFFICES ASSUME IInv, Systemd PROVE IInv'
  OBVIOUS
<1> USE DEF IInv
<1>1. UNCHANGED <<setup, inbox, agentVars>>
  BY DEF Systemd, NetworkUp, DeviceAppears, Ask, NotAfterPasses, Withdraw, TakeAnswer,
         ConsoleUnlocks, Judge
<1>2. /\ file' \in [Paths -> {"absent", "open", "late", "gone"}]
      /\ want' \in [Paths -> Wants]
  <2>1. CASE NetworkUp \/ \E v \in Volumes : DeviceAppears(v)
    BY <2>1 DEF NetworkUp, DeviceAppears, TypeOK
  <2>2. CASE \E p \in Paths, w \in Wants : Ask(p, w)
    <3>1. PICK p \in Paths, w \in Wants : Ask(p, w)
      BY <2>2
    <3>2. file' = [file EXCEPT ![p] = "open"] /\ want' = [want EXCEPT ![p] = w]
      BY <3>1 DEF Ask
    <3>3. QED
      BY <3>2 DEF TypeOK
  <2>3. CASE \E p \in Paths : NotAfterPasses(p) \/ Withdraw(p)
    BY <2>3 DEF NotAfterPasses, Withdraw, TypeOK
  <2>4. CASE \E p \in Paths : TakeAnswer(p) \/ ConsoleUnlocks(p)
    BY <2>4 DEF TakeAnswer, ConsoleUnlocks, Judge, TypeOK
  <2>5. QED
    BY <2>1, <2>2, <2>3, <2>4 DEF Systemd
<1>3. volume' \in [Volumes -> {"absent", "locked", "unlocked"}]
  BY DEF Systemd, NetworkUp, DeviceAppears, Ask, NotAfterPasses, Withdraw, TakeAnswer,
         ConsoleUnlocks, Judge, TypeOK
<1>4. refused' \in BOOLEAN /\ network' \in BOOLEAN
  BY DEF Systemd, NetworkUp, DeviceAppears, Ask, NotAfterPasses, Withdraw, TakeAnswer,
         ConsoleUnlocks, Judge, TypeOK
<1>5. \A p \in Paths : file[p] # "absent" => want'[p] = want[p] /\ file'[p] # "absent"
  BY DEF Systemd, NetworkUp, DeviceAppears, Ask, NotAfterPasses, Withdraw, TakeAnswer,
         ConsoleUnlocks, Judge, TypeOK, Existing
<1>6. \A p \in Paths : file'[p] = "absent" => file[p] = "absent"
  BY <1>5
<1>7. \A p \in Paths : inbox[p] # << >> => file[p] # "absent"
  BY DEF AbsentUntouched
<1>8. TypeOK'
  BY <1>1, <1>2, <1>3, <1>4 DEF TypeOK, agentVars
<1>9. OnlyCryptsetupAnswered' /\ NoTryWasted' /\ AnsweredOnce'
  <2>1. \A r \in Volumes : OnlyToken(r)' = OnlyToken(r)
    BY <1>1, SameSetup
  <2>2. QED
    BY <1>1, <1>5, <1>7, <2>1 DEF OnlyCryptsetupAnswered, NoTryWasted, AnsweredOnce
<1>10. HandIsOurs' /\ ReqLeftTodo'
  BY <1>1, <1>5 DEF HandIsOurs, InHand, ReqLeftTodo, agentVars, TypeOK
<1>11. SentIsMarked' /\ AbsentUntouched'
  <2>1. \A p \in Existing' : inbox[p] # << >> => p \in Existing
    BY <1>7 DEF Systemd, NetworkUp, DeviceAppears, Ask, NotAfterPasses, Withdraw, TakeAnswer,
         ConsoleUnlocks, Judge, TypeOK, Existing
  <2>2. QED
    BY <1>1, <1>6, <2>1 DEF SentIsMarked, AbsentUntouched, agentVars
<1>12. ReplyVerified' /\ DeviceIsToken'
  BY <1>1, SameSetup DEF ReplyVerified, Verified, DeviceIsToken, agentVars
<1>13. QED
  BY <1>8, <1>9, <1>10, <1>11, <1>12

-----------------------------------------------------------------------------
(* The start of a pass: what it takes in hand is open and not in the map,  *)
(* and the map loses only files that are gone.                             *)
LEMMA ScanInvariant == IInv /\ Scan => IInv'
<1> SUFFICES ASSUME IInv, Scan PROVE IInv'
  OBVIOUS
<1> USE DEF IInv
<1>1. UNCHANGED <<systemdVars, req, device, key, delivered, claimed, resolver, missed>>
  BY DEF Scan
<1>2. \A p \in todo' : p \in Existing /\ p \notin answered /\ want[p] \in Volumes
  BY DEF Scan, Ours
<1>3. req = NoRequest
  BY DEF ReqLeftTodo, Scan
<1>4. todo' \subseteq Paths /\ answered' \subseteq Paths /\ pc' \in {"sleep", "config"}
  BY DEF Scan, Existing
<1>5. TypeOK'
  BY <1>1, <1>4 DEF TypeOK, systemdVars
<1>6. OnlyCryptsetupAnswered' /\ AnsweredOnce' /\ NoTryWasted' /\ AbsentUntouched'
  BY <1>1, SameSetup DEF systemdVars, OnlyCryptsetupAnswered, AnsweredOnce, NoTryWasted,
              AbsentUntouched
<1>7. HandIsOurs'
  <2>1. \A p \in todo' : inbox[p] = << >> /\ file[p] # "absent"
    BY <1>2 DEF SentIsMarked, Existing
  <2>2. InHand' = todo'
    BY <1>1, <1>3, AgentAssumption DEF InHand
  <2>3. QED
    BY <1>1, <1>2, <2>1, <2>2 DEF HandIsOurs, systemdVars
<1>8. ReqLeftTodo'
  BY <1>1, <1>3, <1>4, AgentAssumption DEF ReqLeftTodo
<1>9. SentIsMarked'
  <2>1. answered \cap Existing \subseteq answered'
    BY DEF Scan
  <2>2. QED
    BY <1>1, <2>1 DEF SentIsMarked, systemdVars, Existing
<1>10. ReplyVerified' /\ DeviceIsToken'
  BY <1>4 DEF ReplyVerified, DeviceIsToken
<1>11. QED
  BY <1>5, <1>6, <1>7, <1>8, <1>9, <1>10

(***************************************************************************)
(* The steps of the agent that send nothing: they leave systemd alone, and *)
(* keep or drop what is in hand.                                           *)
(***************************************************************************)
LEMMA KeepsSent ==
  ASSUME IInv, UNCHANGED systemdVars, answered \subseteq answered',
         InHand' \subseteq InHand
  PROVE  /\ OnlyCryptsetupAnswered' /\ AnsweredOnce' /\ NoTryWasted'
         /\ AbsentUntouched' /\ SentIsMarked' /\ HandIsOurs'
<1>1. OnlyCryptsetupAnswered' /\ AnsweredOnce' /\ NoTryWasted' /\ AbsentUntouched'
  BY SameSetup DEF IInv, systemdVars, OnlyCryptsetupAnswered, AnsweredOnce, NoTryWasted,
                   AbsentUntouched
<1>2. SentIsMarked'
  BY DEF IInv, systemdVars, SentIsMarked, Existing
<1>3. HandIsOurs'
  BY DEF IInv, systemdVars, HandIsOurs
<1>4. QED
  BY <1>1, <1>2, <1>3

(* What the scan of the devices returns is a volume with a usable token. *)
LEMMA ScanReturns ==
  ASSUME NEW shown \in SUBSET Present
  PROVE  \A v \in ScanDevicesForConfig(shown) : v \in Volumes /\ Usable(v)
  BY DEF ScanDevicesForConfig, Present

(* A configuration is found, or not. *)
LEMMA FindConfigInvariant == IInv /\ FindConfig => IInv'
<1> SUFFICES ASSUME IInv, FindConfig PROVE IInv'
  OBVIOUS
<1>1. UNCHANGED <<systemdVars, req, key, delivered, claimed, resolver>>
  BY DEF FindConfig
<1>2. /\ todo' \subseteq todo /\ answered \subseteq answered' /\ answered' \subseteq Paths
      /\ missed' \subseteq Paths
  BY DEF FindConfig, IInv, TypeOK
<1>3. pc' \in {"sleep", "handle"} /\ req = NoRequest /\ req' = NoRequest
  BY DEF FindConfig, IInv, ReqLeftTodo
<1>4. device' \in Volumes \cup {""}
  BY ScanReturns DEF FindConfig, IInv, TypeOK
<1>5. InHand' \subseteq InHand
  BY <1>1, <1>2 DEF InHand
<1>6. TypeOK'
  BY <1>1, <1>2, <1>3, <1>4 DEF IInv, TypeOK, systemdVars
<1>7. ReqLeftTodo' /\ ReplyVerified'
  BY <1>2, <1>3 DEF IInv, ReqLeftTodo, ReplyVerified
<1>8. DeviceIsToken'
  <2>1. SUFFICES ASSUME NEW r \in Volumes, OnlyToken(r), pc' = "handle"
                 PROVE  device' = r
    BY <1>1, <1>3, SameSetup DEF DeviceIsToken, systemdVars
  <2>2. PICK shown \in SUBSET Present : device' \in ScanDevicesForConfig(shown)
    BY <2>1 DEF FindConfig, OnlyToken
  <2>3. QED
    BY <2>1, <2>2, ScanReturns DEF OnlyToken
<1>9. QED
  BY <1>1, <1>2, <1>5, <1>6, <1>7, <1>8, KeepsSent DEF IInv

(* A request is taken from the pass, or the pass is over. *)
LEMMA FetchInvariant ==
  ASSUME IInv, PassEnds \/ \E p \in Paths : Fetch(p)
  PROVE  IInv'
<1>1. UNCHANGED <<systemdVars, device, key, answered, delivered, missed>>
  BY DEF PassEnds, Fetch
<1>2. /\ todo' \subseteq todo /\ req' \in todo \cup {NoRequest}
      /\ req' \notin todo' /\ pc' \in {"fetch", "sleep"}
      /\ IF pc' = "fetch" THEN req' \in Paths ELSE req' = NoRequest
  BY AgentAssumption DEF PassEnds, Fetch, IInv, ReqLeftTodo, TypeOK
<1>3. claimed' \in BOOLEAN /\ resolver' \in BOOLEAN
  BY DEF PassEnds, Fetch, EnsureResolver, IInv, TypeOK
<1>4. InHand' \subseteq InHand
  BY <1>2, AgentAssumption DEF InHand
<1>5. TypeOK'
  BY <1>1, <1>2, <1>3 DEF IInv, TypeOK, systemdVars
<1>6. ReqLeftTodo' /\ ReplyVerified'
  BY <1>2 DEF IInv, ReqLeftTodo, ReplyVerified
<1>7. DeviceIsToken'
  BY <1>1, <1>2, SameSetup DEF PassEnds, Fetch, IInv, DeviceIsToken, systemdVars
<1>8. QED
  BY <1>1, <1>4, <1>5, <1>6, <1>7, KeepsSent DEF IInv

(* The request is given up for this pass. *)
LEMMA NextRequestInvariant ==
  ASSUME IInv, pc \in {"fetch", "verify", "reply"}, NextRequest
  PROVE  IInv'
<1>1. InHand' \subseteq InHand
  BY AgentAssumption DEF NextRequest, InHand
<1>2. TypeOK'
  BY DEF IInv, TypeOK, systemdVars, NextRequest
<1>3. ReqLeftTodo' /\ ReplyVerified' /\ DeviceIsToken'
  BY AgentAssumption, SameSetup DEF IInv, TypeOK, ReqLeftTodo, ReplyVerified,
       DeviceIsToken, NextRequest, systemdVars
<1>4. QED
  BY <1>1, <1>2, <1>3, KeepsSent DEF IInv, NextRequest

(* The transfer ends, with or without a passphrase. *)
LEMMA FetchEndsInvariant == IInv /\ FetchEnds => IInv'
<1> SUFFICES ASSUME IInv, FetchEnds PROVE IInv'
  OBVIOUS
<1>1. CASE FetchFails
  BY <1>1, NextRequestInvariant DEF FetchFails
<1>2. CASE \E k \in Keys : FetchReturns(k)
  <2>1. /\ UNCHANGED <<systemdVars, todo, req, device, answered, delivered, claimed,
                        resolver, missed>>
        /\ key' \in Keys /\ pc = "fetch" /\ pc' = "verify"
    BY <1>2 DEF FetchReturns
  <2>2. InHand' \subseteq InHand
    BY <2>1 DEF InHand
  <2>3. TypeOK'
    BY <2>1 DEF IInv, TypeOK, systemdVars
  <2>4. ReqLeftTodo' /\ ReplyVerified' /\ DeviceIsToken'
    BY <2>1, SameSetup DEF IInv, ReqLeftTodo, ReplyVerified, DeviceIsToken, systemdVars
  <2>5. QED
    BY <2>1, <2>2, <2>3, <2>4, KeepsSent DEF IInv
<1>3. QED
  BY <1>1, <1>2 DEF FetchEnds

(* The passphrase is tried on the device before it is sent. *)
LEMMA VerifyInvariant == IInv /\ Verify => IInv'
<1> SUFFICES ASSUME IInv, Verify PROVE IInv'
  OBVIOUS
<1>1. CASE ~Verified
  BY <1>1, NextRequestInvariant DEF Verify
<1>2. CASE Verified
  <2>1. /\ UNCHANGED <<systemdVars, todo, req, device, key, answered, delivered, claimed,
                        resolver, missed>>
        /\ pc = "verify" /\ pc' = "reply"
    BY <1>2 DEF Verify
  <2>2. InHand' \subseteq InHand
    BY <2>1 DEF InHand
  <2>3. TypeOK'
    BY <2>1 DEF IInv, TypeOK, systemdVars
  <2>4. ReqLeftTodo' /\ ReplyVerified' /\ DeviceIsToken'
    BY <1>2, <2>1, SameSetup
       DEF IInv, ReqLeftTodo, ReplyVerified, DeviceIsToken, Verified, systemdVars
  <2>5. QED
    BY <2>1, <2>2, <2>3, <2>4, KeepsSent DEF IInv
<1>3. QED
  BY <1>1, <1>2

(***************************************************************************)
(* The reply.  The request is in hand, so it is cryptsetup's and has been  *)
(* sent nothing; it leaves the hand and enters the map in the same step.   *)
(***************************************************************************)
LEMMA ReplyInvariant == IInv /\ Reply => IInv'
<1> SUFFICES ASSUME IInv, Reply PROVE IInv'
  OBVIOUS
<1>1. CASE NextRequest
  BY <1>1, NextRequestInvariant DEF Reply
<1>2. CASE ~NextRequest
  <2>1. /\ UNCHANGED <<setup, network, file, want, volume, refused, todo, device, key,
                        claimed, resolver, missed>>
        /\ inbox' = [inbox EXCEPT ![req] = Append(@, key)]
        /\ answered' = answered \cup {req} /\ delivered' = TRUE
        /\ pc = "reply" /\ pc' = "handle" /\ req' = NoRequest
    BY <1>2 DEF Reply, ReplyToAsk
  <2>2. req \in Paths /\ inbox \in [Paths -> Seq(Keys)] /\ key \in Keys
    BY <2>1 DEF IInv, TypeOK
  <2>3. inbox[req] = << >> /\ want[req] \in Volumes /\ file[req] # "absent"
    BY <2>2 DEF IInv, HandIsOurs, InHand
  <2>4. Append(<< >>, key) = <<key>> /\ <<key>> \in Seq(Keys) /\ Len(<<key>>) = 1
    BY <2>2
  <2>5. inbox' = [inbox EXCEPT ![req] = <<key>>]
    BY <2>1, <2>3, <2>4
  <2>6. TypeOK'
    <3>1. inbox' \in [Paths -> Seq(Keys)]
      BY <2>2, <2>4, <2>5
    <3>2. QED
      BY <2>1, <2>2, <3>1 DEF IInv, TypeOK
  <2>7. OnlyCryptsetupAnswered' /\ AbsentUntouched'
    BY <2>1, <2>2, <2>3, <2>5 DEF IInv, OnlyCryptsetupAnswered, AbsentUntouched
  <2>8. AnsweredOnce'
    BY <2>2, <2>4, <2>5 DEF IInv, AnsweredOnce
  <2>9. NoTryWasted'
    <3>1. SUFFICES ASSUME NEW r \in Volumes, OnlyToken(r), NEW p \in Paths,
                          inbox'[p] # << >>, want'[p] = r
                   PROVE  inbox'[p] = <<r>>
      BY <2>1, SameSetup DEF NoTryWasted
    <3>2. CASE p # req
      BY <2>1, <2>2, <2>5, <3>1, <3>2 DEF IInv, NoTryWasted
    <3>3. CASE p = req
      <4>1. device = r
        BY <2>1, <3>1 DEF IInv, DeviceIsToken
      <4>2. key = r
        BY <2>1, <4>1, AgentAssumption DEF IInv, ReplyVerified, Verified
      <4>3. QED
        BY <2>2, <2>5, <3>3, <4>2
    <3>4. QED
      BY <3>2, <3>3
  <2>10. SentIsMarked'
    BY <2>1, <2>2, <2>5 DEF IInv, SentIsMarked, Existing
  <2>11. HandIsOurs'
    <3>1. InHand' = todo /\ req \notin todo
      BY <2>1, AgentAssumption DEF InHand, IInv, ReqLeftTodo
    <3>2. \A p \in todo : p \in InHand /\ p \in Paths /\ p # req
      BY <3>1 DEF InHand, IInv, TypeOK
    <3>3. QED
      BY <2>1, <2>2, <2>5, <3>1, <3>2 DEF IInv, HandIsOurs
  <2>12. ReqLeftTodo' /\ ReplyVerified' /\ DeviceIsToken'
    BY <2>1, AgentAssumption, SameSetup
       DEF IInv, TypeOK, ReqLeftTodo, ReplyVerified, DeviceIsToken
  <2>13. QED
    BY <2>6, <2>7, <2>8, <2>9, <2>10, <2>11, <2>12 DEF IInv
<1>3. QED
  BY <1>1, <1>2

-----------------------------------------------------------------------------
(* Every step of the agent and of systemd keeps the invariant. *)
LEMMA StepInvariant == IInv /\ [Next]_vars => IInv'
<1> SUFFICES ASSUME IInv, [Next]_vars PROVE IInv'
  OBVIOUS
<1>1. CASE Systemd
  BY <1>1, SystemdInvariant
<1>2. CASE Agent
  BY <1>2, ScanInvariant, FindConfigInvariant, FetchInvariant, FetchEndsInvariant,
     VerifyInvariant, ReplyInvariant DEF Agent
<1>3. CASE UNCHANGED vars
  <2>1. TypeOK' /\ OnlyCryptsetupAnswered' /\ AnsweredOnce' /\ NoTryWasted'
    BY <1>3, SameSetup DEF IInv, vars, systemdVars, agentVars, TypeOK,
                OnlyCryptsetupAnswered, AnsweredOnce, NoTryWasted
  <2>2. HandIsOurs' /\ ReqLeftTodo' /\ SentIsMarked' /\ AbsentUntouched'
    BY <1>3 DEF IInv, vars, systemdVars, agentVars, HandIsOurs, InHand, ReqLeftTodo,
                SentIsMarked, AbsentUntouched, Existing
  <2>3. ReplyVerified' /\ DeviceIsToken'
    BY <1>3, SameSetup
       DEF IInv, vars, systemdVars, agentVars, ReplyVerified, Verified, DeviceIsToken
  <2>4. QED
    BY <2>1, <2>2, <2>3 DEF IInv
<1>4. QED
  BY <1>1, <1>2, <1>3 DEF Next

(* The invariant holds in every reachable state. *)
LEMMA InvariantHolds == Spec => []IInv
  BY InitInvariant, StepInvariant, PTL DEF Spec

(* The agent's variables keep their types; a request is in hand whenever   *)
(* one is being fetched, verified or answered.                             *)
THEOREM AgentTypeCorrect == Spec => []TypeOK
<1>1. IInv => TypeOK
  BY DEF IInv
<1>2. QED
  BY <1>1, InvariantHolds, PTL

(* Nobody but cryptsetup is ever sent a passphrase, although requests come *)
(* and go while one is being fetched.                                      *)
THEOREM ForeignPromptsSafe == Spec => []OnlyCryptsetupAnswered
<1>1. IInv => OnlyCryptsetupAnswered
  BY DEF IInv
<1>2. QED
  BY <1>1, InvariantHolds, PTL

(* Pruning the map of answered requests never makes the agent answer one   *)
(* of them again.                                                          *)
THEOREM NeverAnsweredTwice == Spec => []AnsweredOnce
<1>1. IInv => AnsweredOnce
  BY DEF IInv
<1>2. QED
  BY <1>1, InvariantHolds, PTL

(* With one token, every key the agent sends for its volume opens it.      *)
THEOREM TriesAreNotWasted == Spec => []NoTryWasted
<1>1. IInv => NoTryWasted
  BY DEF IInv
<1>2. QED
  BY <1>1, InvariantHolds, PTL

-----------------------------------------------------------------------------
(* Why a refusal is always reported: the flag delivered is set by the step *)
(* that sends a key, so before cryptsetup can refuse it, and every later   *)
(* transfer begins with a look at the flag.                                *)
ReportInv ==
  /\ \A p \in Paths : inbox[p] # << >> => delivered
  /\ refused => delivered
  /\ (delivered /\ pc \in {"fetch", "verify", "reply"}) => claimed

(* Each step keeps it: TakeAnswer needs a key in the inbox, Fetch reads    *)
(* the flag, and Reply, which sets it, leaves the transfer.                *)
LEMMA StepReports == ReportInv /\ [Next]_vars => ReportInv'
<1> SUFFICES ASSUME ReportInv, [Next]_vars PROVE ReportInv'
  OBVIOUS
<1> USE DEF ReportInv
<1>1. CASE Systemd
  <2>1. UNCHANGED <<inbox, agentVars>>
    BY <1>1 DEF Systemd, NetworkUp, DeviceAppears, Ask, NotAfterPasses, Withdraw, TakeAnswer,
                ConsoleUnlocks, Judge
  <2>2. refused' => delivered
    BY <1>1 DEF Systemd, NetworkUp, DeviceAppears, Ask, NotAfterPasses, Withdraw, TakeAnswer,
                ConsoleUnlocks, Judge
  <2>3. QED
    BY <2>1, <2>2 DEF agentVars
<1>2. CASE Scan \/ FindConfig \/ PassEnds
  <2>1. /\ UNCHANGED <<systemdVars, delivered>>
        /\ pc' \in {"sleep", "config", "handle"}
    BY <1>2 DEF Scan, FindConfig, PassEnds
  <2>2. QED
    BY <2>1 DEF systemdVars
<1>3. CASE \E p \in Paths : Fetch(p)
  <2>1. UNCHANGED <<systemdVars, delivered>> /\ claimed' = (claimed \/ delivered)
    BY <1>3 DEF Fetch
  <2>2. QED
    BY <2>1 DEF systemdVars
<1>4. CASE FetchEnds
  BY <1>4 DEF FetchEnds, FetchFails, FetchReturns, NextRequest, systemdVars
<1>5. CASE Verify
  BY <1>5 DEF Verify, NextRequest, systemdVars
<1>6. CASE Reply
  BY <1>6 DEF Reply, ReplyToAsk, NextRequest, systemdVars
<1>7. CASE UNCHANGED vars
  BY <1>7 DEF vars, systemdVars, agentVars
<1>8. QED
  BY <1>1, <1>2, <1>3, <1>4, <1>5, <1>6, <1>7 DEF Next, Agent

(* A passphrase that cryptsetup refused never goes unmentioned: the agent  *)
(* reports it before it asks the key holder again, for any requests,       *)
(* volumes and tokens.                                                     *)
THEOREM RefusalsAreReported == Spec => []RefusalReported
<1>1. Init => ReportInv
  BY DEF Init, ReportInv
<1>2. ReportInv => RefusalReported
  BY DEF ReportInv, RefusalReported
<1>3. QED
  BY <1>1, <1>2, StepReports, PTL DEF Spec

-----------------------------------------------------------------------------
(* Why no request is silenced: only a pass without a configuration marks   *)
(* what it has not answered.  cryptsetup asks for volumes that are there,  *)
(* and they do not go away.                                                *)
AskedIsPresent ==
  \A p \in Paths : (file[p] # "absent" /\ want[p] \in Volumes) => want[p] \in Present

MarkedHasAppeared == \A p \in answered : file[p] # "absent"

KeptInv == NotSilenced /\ AskedIsPresent /\ MarkedHasAppeared

(* What luks.conf and the headers hold does not change. *)
LEMMA SameConfig ==
  ASSUME setup' = setup
  PROVE  /\ ParseLuksConf(setup.conf)' = ParseLuksConf(setup.conf)
         /\ \A v \in Volumes : Usable(v)' = Usable(v)
<1>1. \A v \in Volumes : Usable(v)' = Usable(v)
  BY Zenon DEF Usable, TokenIDs, ParseLUKSToken
<1>2. QED
  BY <1>1

(* systemd opens new requests only, which are not in the map. *)
LEMMA SystemdKeeps == ASSUME IInv, KeptInv, Systemd PROVE KeptInv'
<1>0. TypeOK
  BY DEF IInv
<1>1. UNCHANGED <<setup, inbox, agentVars>>
  BY DEF Systemd, NetworkUp, DeviceAppears, Ask, NotAfterPasses, Withdraw, TakeAnswer,
         ConsoleUnlocks, Judge
<1>2. \A p \in Paths : file[p] # "absent" =>
        /\ want'[p] = want[p] /\ file'[p] # "absent"
        /\ file'[p] = "open" => file[p] = "open"
  BY <1>0, Zenon
  DEF Systemd, NetworkUp, DeviceAppears, Ask, NotAfterPasses, Withdraw, TakeAnswer,
      ConsoleUnlocks, Judge, TypeOK, Existing
<1>3. Present \subseteq Present'
  BY <1>0, Zenon
  DEF Systemd, NetworkUp, DeviceAppears, Ask, NotAfterPasses, Withdraw, TakeAnswer,
      ConsoleUnlocks, Judge, TypeOK, Present
<1>4. \A p \in Paths : (file[p] = "absent" /\ file'[p] # "absent" /\ want'[p] \in Volumes)
        => want'[p] \in Present'
  BY <1>0, Zenon
  DEF Systemd, NetworkUp, DeviceAppears, Ask, NotAfterPasses, Withdraw, TakeAnswer,
      ConsoleUnlocks, Judge, TypeOK, Present, Existing
<1>5. answered \subseteq Paths /\ answered' = answered /\ missed' = missed
  BY <1>0, <1>1, Zenon DEF TypeOK, agentVars
<1>6. MarkedHasAppeared' /\ AskedIsPresent'
  BY <1>2, <1>3, <1>4, <1>5 DEF KeptInv, MarkedHasAppeared, AskedIsPresent
<1>7. NotSilenced'
  BY <1>1, <1>2, <1>5, SameConfig DEF KeptInv, MarkedHasAppeared, NotSilenced
<1>8. QED
  BY <1>6, <1>7 DEF KeptInv

(* The agent marks what is not its own, what it answers, and the whole     *)
(* pass when it finds no configuration.                                    *)
LEMMA AgentKeeps == ASSUME IInv, KeptInv, Agent PROVE KeptInv'
<1>0. TypeOK /\ HandIsOurs
  BY DEF IInv
<1>1. ASSUME UNCHANGED <<setup, file, want, volume>>, answered' \subseteq Existing \cup answered,
             NotSilenced'
      PROVE  KeptInv'
  <2>1. AskedIsPresent'
    BY <1>1 DEF KeptInv, AskedIsPresent, Present
  <2>2. MarkedHasAppeared'
    BY <1>1 DEF KeptInv, MarkedHasAppeared, Existing
  <2>3. QED
    BY <1>1, <2>1, <2>2 DEF KeptInv
<1>2. ASSUME UNCHANGED <<systemdVars, answered, missed>> PROVE KeptInv'
  <2>1. NotSilenced'
    BY <1>0, <1>2, SameConfig DEF KeptInv, NotSilenced, systemdVars
  <2>2. QED
    BY <1>1, <1>2, <2>1 DEF systemdVars
<1>3. CASE Scan
  <2>1. UNCHANGED systemdVars /\ missed' = missed /\ answered' \subseteq Existing
    BY <1>3 DEF Scan
  <2>2. \A p \in answered' : p \in answered \/ ~(file[p] = "open" /\ want[p] \in Volumes)
    BY <1>3 DEF Scan, Ours
  <2>3. NotSilenced'
    BY <2>1, <2>2, SameConfig DEF KeptInv, NotSilenced, systemdVars
  <2>4. QED
    BY <1>1, <2>1, <2>3 DEF systemdVars
<1>4. CASE FindConfig
  <2>1. UNCHANGED systemdVars
    BY <1>4, Zenon DEF FindConfig
  <2>2. \A p \in todo : /\ p \in Paths /\ file[p] # "absent" /\ want[p] \in Volumes
                       /\ want[p] \in Present
    BY <1>0, Zenon DEF HandIsOurs, InHand, KeptInv, AskedIsPresent, TypeOK
  <2>3. \/ answered' = answered /\ missed' = missed
        \/ /\ answered' = answered \cup todo
           /\ missed' = IF \/ ParseLuksConf(setup.conf) # "none"
                           \/ \E v \in Present : Usable(v)
                        THEN missed \cup todo ELSE missed
    BY <1>4, Zenon DEF FindConfig
  <2>4. CASE answered' = answered /\ missed' = missed
    BY <1>2, <2>1, <2>4
  <2>5. CASE /\ answered' = answered \cup todo
             /\ missed' = IF \/ ParseLuksConf(setup.conf) # "none"
                             \/ \E v \in Present : Usable(v)
                          THEN missed \cup todo ELSE missed
    <3>1. /\ missed \subseteq missed'
          /\ \A p \in todo :
               ParseLuksConf(setup.conf) # "none" \/ Usable(want[p]) => p \in missed'
      BY <2>2, <2>5
    <3>2. ASSUME NEW p \in answered', file'[p] = "open", want'[p] \in Volumes,
                 ParseLuksConf(setup.conf)' # "none" \/ Usable(want[p])'
          PROVE  inbox'[p] # << >> \/ p \in missed'
      <4>1. /\ UNCHANGED <<setup, file, want, inbox>>
            /\ ParseLuksConf(setup.conf) # "none" \/ Usable(want[p])
        BY <2>1, <2>5, <3>2, SameConfig DEF systemdVars
      <4>2. QED
        BY <2>5, <3>1, <3>2, <4>1 DEF KeptInv, NotSilenced
    <3>3. NotSilenced'
      BY <2>1, <3>2 DEF NotSilenced, systemdVars
    <3>4. answered' \subseteq {p \in Paths : file[p] # "absent"}
      BY <1>0, <2>2, <2>5, Zenon DEF KeptInv, MarkedHasAppeared, TypeOK
    <3>5. AskedIsPresent' /\ MarkedHasAppeared'
      BY <2>1, <3>4 DEF KeptInv, AskedIsPresent, MarkedHasAppeared, Present, systemdVars
    <3>6. QED
      BY <3>3, <3>5 DEF KeptInv
  <2>6. QED
    BY <2>3, <2>4, <2>5
<1>5. CASE (\E p \in Paths : Fetch(p)) \/ PassEnds \/ FetchEnds \/ Verify
  BY <1>2, <1>5, Zenon
  DEF Fetch, PassEnds, FetchEnds, FetchFails, FetchReturns, Verify, NextRequest
<1>6. CASE Reply
  <2>1. CASE NextRequest
    BY <1>2, <2>1, Zenon DEF NextRequest
  <2>2. CASE ~NextRequest
    <3>1. /\ UNCHANGED <<setup, file, want, volume, missed>>
          /\ answered' = answered \cup {req}
          /\ inbox' = [inbox EXCEPT ![req] = Append(@, key)]
          /\ req \in Existing /\ req \in Paths
      BY <1>6, <2>2 DEF Reply, ReplyToAsk, Existing
    <3>2. inbox'[req] # << >>
      <4>1. inbox[req] \in Seq(Keys) /\ key \in Keys /\ inbox'[req] = Append(inbox[req], key)
        BY <1>0, <3>1, Zenon DEF TypeOK
      <4>2. Len(Append(inbox[req], key)) = Len(inbox[req]) + 1 /\ Len(inbox[req]) \in Nat
        BY <4>1, AppendProperties, LenProperties
      <4>3. QED
        BY <4>1, <4>2
    <3>3. \A p \in Paths : p # req => inbox'[p] = inbox[p]
      BY <1>0, <3>1, Zenon DEF TypeOK
    <3>4. NotSilenced'
      BY <1>0, <3>1, <3>2, <3>3, SameConfig, Zenon DEF KeptInv, NotSilenced, TypeOK
    <3>5. QED
      BY <1>1, <2>2, <3>1, <3>4
  <2>3. QED
    BY <2>1, <2>2
<1>7. QED
  BY <1>3, <1>4, <1>5, <1>6 DEF Agent

(* A failed transfer, a wrong passphrase, a late network or an unreadable  *)
(* configuration never silence a request that the agent could still serve: *)
(* what keeps it from looking at an open request of a configured machine   *)
(* is a key sent to it, a luks.conf that could not be opened, or a header  *)
(* that cryptsetup could not show.                                         *)
THEOREM NoRequestSilenced == Spec => []NotSilenced
<1>1. Init => KeptInv
  BY Zenon DEF Init, KeptInv, NotSilenced, AskedIsPresent, MarkedHasAppeared
<1>2. IInv /\ KeptInv /\ [Next]_vars => KeptInv'
  <2> SUFFICES ASSUME IInv, KeptInv, [Next]_vars PROVE KeptInv'
    OBVIOUS
  <2>1. CASE UNCHANGED vars
    <3>1. UNCHANGED <<setup, file, want, inbox, volume, answered, missed>>
      BY <2>1 DEF vars, systemdVars, agentVars
    <3>2. NotSilenced'
      BY <3>1, SameConfig DEF KeptInv, NotSilenced
    <3>3. QED
      BY <3>1, <3>2 DEF KeptInv, AskedIsPresent, MarkedHasAppeared, Present
  <2>2. QED
    BY <2>1, SystemdKeeps, AgentKeeps DEF Next
<1>3. KeptInv => NotSilenced
  BY DEF KeptInv
<1>4. QED
  BY <1>1, <1>2, <1>3, InvariantHolds, PTL DEF Spec
=============================================================================
