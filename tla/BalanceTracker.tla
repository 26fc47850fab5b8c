--------------------------- MODULE BalanceTracker ---------------------------
(***************************************************************************)
(* The balance tracker of one client (internal/balance/balance.go): a      *)
(* goroutine that owns a map from asset names to *Asset and applies one    *)
(* transaction at a time.  Every caller but Set waits for its transaction, *)
(* and Set's takes effect before any later one, so a transaction is one    *)
(* step of its caller.                                                     *)
(*                                                                         *)
(* The map holds POINTERS, and two names can share one: `aliases' records  *)
(* for each name the names whose entry is the same *Asset.  A name not in  *)
(* the map reads as a zero asset of its own, which is what the tracker     *)
(* creates the first time the name is used.                                *)
(***************************************************************************)
EXTENDS Integers, Sequences

CONSTANTS
  Assets,        \* asset names
  BalanceLists   \* the balance lists clients send with SetBalances

VARIABLES
  bal,      \* bal[a]: the asset the map's entry for a points to
  aliases   \* aliases[a]: the names whose entry is the same pointer as a's

balVars == <<bal, aliases>>

Asset == [free : Int, locked : Int]

BalanceEntry == [name : Assets, free : Int, locked : Int]

ASSUME BalanceListsAssumption == BalanceLists \subseteq Seq(BalanceEntry)

BalanceTypeOK ==
  /\ bal \in [Assets -> Asset]
  /\ aliases \in [Assets -> SUBSET Assets]

BalanceInit ==
  /\ bal = [a \in Assets |-> [free |-> 0, locked |-> 0]]
  /\ aliases = [a \in Assets |-> {a}]

-----------------------------------------------------------------------------
(* NewTransaction: the balances after a closure added to the free and the  *)
(* locked amount of asset a, seen through every name that shares it.       *)
Adjusted(b, a, freeDelta, lockedDelta) ==
  [x \in Assets |->
     IF x \in aliases[a]
       THEN [free |-> b[a].free + freeDelta, locked |-> b[a].locked + lockedDelta]
       ELSE b[x]]

(* The condition under which a closure reports ErrNegative.  It is tested  *)
(* after the amounts were written, and nothing takes them back.            *)
Negative(b, a) == b[a].free < 0 \/ b[a].locked < 0

Names(list) == {list[i].name : i \in DOMAIN list}

(* Set stores the address of its loop variable under every name.  Under    *)
(* the language version of go.mod (1.19) one variable serves all           *)
(* iterations, so every listed name ends up with the same *Asset, holding  *)
(* the last entry.                                                         *)
SetAssets(list) ==
  IF list = <<>>
    THEN UNCHANGED balVars
    ELSE LET last == list[Len(list)]
         IN  /\ bal' = [x \in Assets |->
                          IF x \in Names(list)
                            THEN [free |-> last.free, locked |-> last.locked]
                            ELSE bal[x]]
             /\ aliases' = [x \in Assets |->
                              IF x \in Names(list) THEN Names(list)
                                                   ELSE aliases[x] \ Names(list)]
=============================================================================
