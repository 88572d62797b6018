----------------------------- MODULE LuksAgent -----------------------------
(***************************************************************************)
(* The systemd password agent of the initrd: runLUKSAgent and              *)
(* pendingRequests (luks_agent_linux.go), findLUKSConfig with the parsers  *)
(* of luks.conf and of tokens, ensureResolver, verifyPassphrase and        *)
(* fetchPassphrase (luks_agent.go), together with the part of systemd they *)
(* meet: request files that appear, are answered by the agent or at the    *)
(* console, pass their NotAfter and vanish, and a network that comes up    *)
(* late.                                                                   *)
(*                                                                         *)
(* A key is named after the volume it opens; "bad" opens none.  systemd    *)
(* never reuses the path of a request.                                     *)
(***************************************************************************)
EXTENDS Naturals, Sequences

CONSTANTS
  Paths,      \* the request files systemd may create
  Volumes,    \* the encrypted volumes
  Place,      \* where each of them stands in /proc/partitions
  Setups      \* what luks.conf and the headers may hold

NoRequest == "none"

(* One assignment of luks.conf, and one token of a header.  Of a seed only *)
(* matters whether there is one.                                           *)
Lines == [key : {"P2P_KEY_SEED", "UNLOCK_ROLE"},
          value : {"", "seed", "client", "server", "other"}]
Tokens == [type : {"syncthing-socket", "clevis"}, version : Nat,
           seed : {"", "seed"}, role : {"", "client", "server", "other"}]

ASSUME AgentAssumption ==
  /\ Place \in [Volumes -> Nat]
  /\ \A v, w \in Volumes : Place[v] = Place[w] => v = w
  /\ Setups \subseteq [conf : Seq(Lines), header : [Volumes -> Seq(Tokens)]]
  /\ \A x \in {"", "bad", "other", "unreadable"} : x \notin Volumes
  /\ NoRequest \notin Paths

VARIABLES
  setup,      \* luks.conf, empty when there is none, and the headers
  network,    \* whether a resolver is known to the initrd
  file,       \* what became of each request file
  want,       \* whom it asks for: a volume, another service, or unreadable
  inbox,      \* the datagrams sent to its socket
  volume,     \* whether each volume is absent, locked or unlocked
  refused,    \* whether cryptsetup has refused a key the agent delivered
  pc,         \* where runLUKSAgent is
  todo,       \* the requests of this pass still to be handled
  req,        \* the one being handled
  device,     \* cfg.Device, or "" for a configuration without one
  key,        \* the passphrase fetched
  answered,   \* the map of requests not to look at again
  delivered,  \* the flag of that name
  claimed,    \* whether the agent said that a passphrase was rejected
  resolver,   \* whether /etc/resolv.conf holds anything
  missed      \* requests left alone while a configuration went unread

systemdVars == <<setup, network, file, want, inbox, volume, refused>>
agentVars == <<pc, todo, req, device, key, answered, delivered, claimed, resolver, missed>>
vars == <<systemdVars, agentVars>>

Keys == Volumes \cup {"bad"}
Wants == Volumes \cup {"other", "unreadable"}

(* A file exists, and its socket can be sent to, until it is gone; once it *)
(* is "late" its NotAfter has passed.                                      *)
Existing == {p \in Paths : file[p] \in {"open", "late"}}

Init ==
  /\ setup \in Setups
  /\ network = FALSE
  /\ file = [p \in Paths |-> "absent"]
  /\ want = [p \in Paths |-> "other"]
  /\ inbox = [p \in Paths |-> << >>]
  /\ volume = [v \in Volumes |-> "absent"]
  /\ refused = FALSE
  /\ pc = "sleep"
  /\ todo = {}
  /\ req = NoRequest
  /\ device = ""
  /\ key = "bad"
  /\ answered = {}
  /\ delivered = FALSE
  /\ claimed = FALSE
  /\ resolver = FALSE
  /\ missed = {}

-----------------------------------------------------------------------------
(* The network, systemd and the person at the console.  What systemd knows *)
(* of nameservers shows up in one of the files of resolverSources or       *)
(* networkdStateFiles.                                                     *)
NetworkUp ==
  /\ ~network /\ network' = TRUE
  /\ UNCHANGED <<setup, file, want, inbox, volume, refused, agentVars>>

DeviceAppears(v) ==
  /\ volume[v] = "absent"
  /\ volume' = [volume EXCEPT ![v] = "locked"]
  /\ UNCHANGED <<setup, network, file, want, inbox, refused, agentVars>>

(* A volume has one request at a time, while it is there and locked. *)
Ask(p, w) ==
  /\ file[p] = "absent"
  /\ w \in Volumes =>
       volume[w] = "locked" /\ \A q \in Existing : want[q] # w
  /\ file' = [file EXCEPT ![p] = "open"]
  /\ want' = [want EXCEPT ![p] = w]
  /\ UNCHANGED <<setup, network, inbox, volume, refused, agentVars>>

NotAfterPasses(p) ==
  /\ file[p] = "open"
  /\ file' = [file EXCEPT ![p] = "late"]
  /\ UNCHANGED <<setup, network, want, inbox, volume, refused, agentVars>>

(* The asker gives up, or somebody typed a wrong passphrase. *)
Withdraw(p) ==
  /\ p \in Existing
  /\ file' = [file EXCEPT ![p] = "gone"]
  /\ UNCHANGED <<setup, network, want, inbox, volume, refused, agentVars>>

(* The asker takes the first answer, from its socket or from the console. *)
Judge(p, k) ==
  /\ file' = [file EXCEPT ![p] = "gone"]
  /\ volume' = IF k = want[p] THEN [volume EXCEPT ![k] = "unlocked"] ELSE volume
  /\ UNCHANGED <<setup, network, want, inbox, agentVars>>

TakeAnswer(p) ==
  /\ p \in Existing /\ inbox[p] # << >>
  /\ Judge(p, Head(inbox[p]))
  /\ refused' = (refused \/ Head(inbox[p]) # want[p])

ConsoleUnlocks(p) ==
  /\ p \in Existing /\ want[p] \in Volumes
  /\ Judge(p, want[p])
  /\ UNCHANGED refused

-----------------------------------------------------------------------------
(* pendingRequests: the requests this pass will handle, and those that are *)
(* marked in passing because they are unreadable, expired or not for us.   *)
Ours_AnyId(p) == file[p] = "open" /\ want[p] # "unreadable"
Ours(p) == file[p] = "open" /\ want[p] \in Volumes

Scan ==
  /\ pc = "sleep"
  /\ todo' = {p \in Existing \ answered : Ours(p)}
  /\ answered' = (answered \cup {p \in Existing : ~Ours(p)}) \cap Existing
  /\ pc' = IF todo' = {} THEN "sleep" ELSE "config"
  /\ UNCHANGED <<systemdVars, req, device, key, delivered, claimed, resolver, missed>>

(* parseLuksConf: the last assignment counts, an empty role is none at     *)
(* all, and without a seed there is no configuration.                      *)
Roles == {"client", "server"}

ConfValue(c, k, default) ==
  LET set == {i \in DOMAIN c :
                /\ c[i].key = k
                /\ k = "UNLOCK_ROLE" => c[i].value # ""}
  IN  IF set = {} THEN default
      ELSE c[CHOOSE i \in set : \A j \in set : j <= i].value

ParseLuksConf(c) ==
  IF ConfValue(c, "P2P_KEY_SEED", "") = "" THEN "none"
  ELSE IF ConfValue(c, "UNLOCK_ROLE", "client") \in Roles THEN "found" ELSE "error"

(* parseLUKSToken on the tokens of our type that tokenIDsFromDump names. *)
ParseLUKSToken(t) ==
  /\ t.type = "syncthing-socket" /\ t.version = 1
  /\ t.seed # "" /\ t.role \in Roles \cup {""}

TokenIDs(v) ==
  {i \in DOMAIN setup.header[v] : setup.header[v][i].type = "syncthing-socket"}

Usable(v) == \E i \in TokenIDs(v) : ParseLUKSToken(setup.header[v][i])

(***************************************************************************)
(* scanDevicesForConfig: the first device with a usable token, among those *)
(* present whose header cryptsetup could show.  A device that it could not *)
(* show is passed over.                                                    *)
(***************************************************************************)
Present == {v \in Volumes : volume[v] # "absent"}

ScanDevicesForConfig(shown) ==
  {v \in shown : Usable(v) /\ \A w \in shown : Usable(w) => Place[v] <= Place[w]}

(* Nothing to be had from luks.conf: no seed, or it cannot be opened. *)
PassedOver == ParseLuksConf(setup.conf) = "none" \/ setup.conf # << >>

(* findLUKSConfig and the agent's answer to it: luks.conf cannot be used   *)
(* or /proc/partitions not be read; luks.conf has it; a header has it; or  *)
(* nothing has, and the prompts are left to the console.                   *)
FindConfig ==
  /\ pc = "config"
  /\ \/ /\ pc' = "sleep" /\ todo' = {}
        /\ UNCHANGED <<device, answered, missed>>
     \/ /\ ParseLuksConf(setup.conf) = "found"
        /\ pc' = "handle" /\ device' = ""
        /\ UNCHANGED <<todo, answered, missed>>
     \/ /\ PassedOver
        /\ \E shown \in SUBSET Present :
             \/ /\ device' \in ScanDevicesForConfig(shown)
                /\ pc' = "handle"
                /\ UNCHANGED <<todo, answered, missed>>
             \/ /\ \A v \in shown : ~Usable(v)
                /\ pc' = "sleep" /\ todo' = {}
                /\ answered' = answered \cup todo
                /\ missed' = IF \/ ParseLuksConf(setup.conf) # "none"
                                \/ \E v \in Present : Usable(v)
                             THEN missed \cup todo ELSE missed
                /\ UNCHANGED device
  /\ UNCHANGED <<systemdVars, req, key, delivered, claimed, resolver>>

(* ensureResolver: it keeps what is there, and copies or builds one from   *)
(* what the network has left.                                              *)
EnsureResolver_AtStart == UNCHANGED resolver
EnsureResolver == resolver' = (resolver \/ network)

(* The next request of the pass: what is said of it, and the transfer. *)
Fetch(p) ==
  /\ pc = "handle" /\ p \in todo
  /\ req' = p
  /\ todo' = todo \ {p}
  /\ claimed' = (claimed \/ delivered)
  /\ EnsureResolver
  /\ pc' = "fetch"
  /\ UNCHANGED <<systemdVars, device, key, answered, delivered, missed>>

PassEnds ==
  /\ pc = "handle" /\ todo = {}
  /\ pc' = "sleep"
  /\ UNCHANGED <<systemdVars, todo, req, device, key, answered, delivered, claimed, resolver,
                 missed>>

(* `continue`: nothing came, or not what opens the device. *)
NextRequest_Silences ==
  /\ pc' = "handle"
  /\ req' = NoRequest
  /\ answered' = answered \cup {req}
  /\ UNCHANGED <<systemdVars, todo, device, key, delivered, claimed, resolver, missed>>

NextRequest ==
  /\ pc' = "handle"
  /\ req' = NoRequest
  /\ UNCHANGED <<systemdVars, todo, device, key, answered, delivered, claimed, resolver,
                 missed>>

(* The transfer fails, brings nothing or is killed after five minutes;     *)
(* without a resolver every lookup fails.                                  *)
FetchFails == pc = "fetch" /\ NextRequest

FetchReturns(k) ==
  /\ pc = "fetch" /\ resolver
  /\ key' = k
  /\ pc' = "verify"
  /\ UNCHANGED <<systemdVars, todo, req, device, answered, delivered, claimed, resolver,
                 missed>>

(* verifyPassphrase: without a device there is nothing to check against. *)
Verified_Always == TRUE
Verified == device = "" \/ key = device

Verify ==
  /\ pc = "verify"
  /\ IF Verified
       THEN /\ pc' = "reply"
            /\ UNCHANGED <<systemdVars, todo, req, device, key, answered, delivered,
                           claimed, resolver, missed>>
       ELSE NextRequest

(* replyToAsk: it fails when the request went away during the transfer,    *)
(* and may fail besides.                                                   *)
ReplyToAsk_Unmarked ==
  /\ inbox' = [inbox EXCEPT ![req] = Append(@, key)]
  /\ delivered' = TRUE
  /\ UNCHANGED answered

ReplyToAsk_Unsaid ==
  /\ inbox' = [inbox EXCEPT ![req] = Append(@, key)]
  /\ answered' = answered \cup {req}
  /\ UNCHANGED delivered

ReplyToAsk ==
  /\ inbox' = [inbox EXCEPT ![req] = Append(@, key)]
  /\ answered' = answered \cup {req}
  /\ delivered' = TRUE

Reply ==
  /\ pc = "reply"
  /\ \/ /\ req \in Existing
        /\ ReplyToAsk
        /\ pc' = "handle"
        /\ req' = NoRequest
        /\ UNCHANGED <<setup, network, file, want, volume, refused, todo, device, key,
                       claimed, resolver, missed>>
     \/ NextRequest

-----------------------------------------------------------------------------
Systemd ==
  \/ NetworkUp
  \/ \E v \in Volumes : DeviceAppears(v)
  \/ \E p \in Paths :
       \/ \E w \in Wants : Ask(p, w)
       \/ NotAfterPasses(p) \/ Withdraw(p) \/ TakeAnswer(p) \/ ConsoleUnlocks(p)

FetchEnds == FetchFails \/ \E k \in Keys : FetchReturns(k)
Agent ==
  \/ Scan \/ FindConfig \/ (\E p \in Paths : Fetch(p)) \/ PassEnds
  \/ FetchEnds \/ Verify \/ Reply

Next == Systemd \/ Agent

Spec == Init /\ [][Next]_vars

(***************************************************************************)
(* The agent's loop runs and a transfer ends after five minutes at the     *)
(* latest.  Neither the unlock configuration nor the way to an asker's     *)
(* socket stays out of reach for ever, and the key holder, if asked for    *)
(* ever, at some point sends the right passphrase.  A delivered datagram   *)
(* is read, and the network comes up in the end.  Nobody need be at the    *)
(* console.                                                                *)
(***************************************************************************)
Fairness ==
  /\ WF_vars(Agent) /\ WF_vars(NetworkUp)
  /\ SF_vars(FindConfig /\ pc' = "handle")
  /\ SF_vars(Reply /\ inbox' # inbox)
  /\ \A p \in Paths :
       /\ WF_vars(TakeAnswer(p))
       /\ SF_vars(req = p /\ \E v \in Volumes :
                    v = want[p] /\ FetchReturns(v))

FairSpec == Spec /\ Fairness

-----------------------------------------------------------------------------
(* The values the variables take. *)
TypeOK ==
  /\ setup \in Setups
  /\ file \in [Paths -> {"absent", "open", "late", "gone"}]
  /\ want \in [Paths -> Wants]
  /\ inbox \in [Paths -> Seq(Keys)]
  /\ volume \in [Volumes -> {"absent", "locked", "unlocked"}]
  /\ pc \in {"sleep", "config", "handle", "fetch", "verify", "reply"}
  /\ todo \subseteq Paths /\ answered \subseteq Paths /\ missed \subseteq Paths
  /\ req \in Paths \cup {NoRequest}
  /\ pc \in {"fetch", "verify", "reply"} => req \in Paths
  /\ device \in Volumes \cup {""}
  /\ key \in Keys
  /\ \A f \in {refused, delivered, claimed, network, resolver} : f \in BOOLEAN

(* "Somebody else's prompt. Never hand a LUKS passphrase to it": only a    *)
(* request of cryptsetup is ever sent a passphrase.                        *)
OnlyCryptsetupAnswered ==
  \A p \in Paths : inbox[p] # << >> => want[p] \in Volumes

(* A request is sent one passphrase at most, over all passes, although the *)
(* map of answered requests is pruned.                                     *)
AnsweredOnce == \A p \in Paths : Len(inbox[p]) <= 1

(* The documented case: the configuration is in the header of one volume,  *)
(* whatever other and unusable tokens there are.                           *)
OnlyToken(r) ==
  ParseLuksConf(setup.conf) = "none" /\ \A v \in Volumes : Usable(v) <=> v = r

(* There, cryptsetup is never made to spend a try on that volume for a key *)
(* that does not open it.                                                  *)
NoTryWasted ==
  \A r \in Volumes : OnlyToken(r) =>
    \A p \in Paths : (inbox[p] # << >> /\ want[p] = r) => inbox[p] = <<r>>

(* answered is what the agent does not look at again.  A request of        *)
(* cryptsetup's that is still open is in it only if it was sent a key, or  *)
(* if no configuration was found for it.  Where luks.conf has a seed, or   *)
(* the volume asked for a usable token, that is only a request met while   *)
(* luks.conf could not be opened or cryptsetup not show the header.        *)
NotSilenced ==
  \A p \in answered :
    (/\ file[p] = "open" /\ want[p] \in Volumes
     /\ ParseLuksConf(setup.conf) # "none" \/ Usable(want[p])) =>
      inbox[p] # << >> \/ p \in missed

(* A request for that volume, or any if luks.conf holds the configuration, *)
(* is not silenced by a failed transfer, a wrong passphrase, a late        *)
(* network, an unreadable configuration or a reply that could not be sent: *)
(* it is dealt with in the end.  The exception is a request met while      *)
(* luks.conf could not be opened or cryptsetup not show the header: it     *)
(* counts as one of a machine without a configuration.                     *)
RequestSettled ==
  \A p \in Paths :
    (/\ file[p] = "open" /\ want[p] \in Volumes
     /\ ParseLuksConf(setup.conf) = "found" \/ OnlyToken(want[p])) ~>
      (file[p] # "open" \/ p \in missed)

(* "a fresh request after we answered one is a rejection and should say    *)
(* so" (luks_agent_linux.go 62-64): once cryptsetup has refused a key the  *)
(* agent delivered, no further transfer begins without the agent having    *)
(* said so.                                                                *)
RefusalReported ==
  (refused /\ pc \in {"fetch", "verify", "reply"}) => claimed
=============================================================================
