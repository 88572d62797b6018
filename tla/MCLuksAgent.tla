---------------------------- MODULE MCLuksAgent ----------------------------
(***************************************************************************)
(* Instance of LuksAgent: two volumes, and what luks.conf and the headers  *)
(* may hold.                                                               *)
(***************************************************************************)
EXTENDS LuksAgent

RootFirst == [v \in Volumes |-> IF v = "root" THEN 1 ELSE 2]

Set(k, v) == [key |-> k, value |-> v]
Token(t, n, s, r) == [type |-> t, version |-> n, seed |-> s, role |-> r]
Own(n, s, r) == Token("syncthing-socket", n, s, r)

(* The tokens of the root volume and of the other one. *)
Headers(root, data) == [v \in Volumes |-> IF v = "root" THEN root ELSE data]

(* One usable token among others; luks.conf with its last seed set and an  *)
(* empty role; luks.conf with a bad role over a usable token; a seed taken *)
(* back and two usable tokens; and only unusable ones.                     *)
SomeSetups == {
  [conf |-> << >>,
   header |-> Headers(<<Token("clevis", 0, "", ""), Own(2, "seed", ""), Own(1, "seed", "")>>,
                      <<Own(0, "seed", "client")>>)],
  [conf |-> <<Set("P2P_KEY_SEED", ""), Set("UNLOCK_ROLE", "server"),
              Set("P2P_KEY_SEED", "seed"), Set("UNLOCK_ROLE", "")>>,
   header |-> Headers(<< >>, << >>)],
  [conf |-> <<Set("P2P_KEY_SEED", "seed"), Set("UNLOCK_ROLE", "other")>>,
   header |-> Headers(<<Own(1, "seed", "server")>>, << >>)],
  [conf |-> <<Set("P2P_KEY_SEED", "seed"), Set("P2P_KEY_SEED", "")>>,
   header |-> Headers(<<Own(1, "seed", "client")>>, <<Own(1, "seed", "server")>>)],
  [conf |-> << >>,
   header |-> Headers(<<Own(1, "", "client")>>, <<Own(1, "seed", "other")>>)]}
=============================================================================
