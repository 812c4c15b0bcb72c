-------------------------- MODULE LWUpdateBalance --------------------------
(***************************************************************************)
(* The loop of _LWWalletUpdateBalance, one transaction at a time, over any *)
(* list of registered transactions.  wallet->lock is held from its first   *)
(* step to its last, so that nobody sees what is in between; it is taken   *)
(* apart here for the facts about what it computes to be stated, and       *)
(* proved, as invariants of the loop.  LWWallet goes through the same      *)
(* Counted at once.                                                        *)
(***************************************************************************)
EXTENDS LWLedger, Functions

VARIABLES
  registered,   \* wallet->transactions
  heightOf,     \* the blockHeight of each
  tipHeight,    \* wallet->blockHeight
  ownAddrs,     \* wallet->allAddrs
  done,         \* how many were counted
  computed      \* the fields that the loop computes

loopVars == <<registered, heightOf, tipHeight, ownAddrs, done, computed>>

LoopInit ==
  /\ registered \in Seq(Tx) /\ IsInjective(registered)
  /\ heightOf \in [Tx -> Nat]
  /\ tipHeight \in Nat
  /\ ownAddrs \subseteq Chains \X Nat
  /\ done = 0
  /\ computed = Cleared

CountNext ==
  /\ done < Len(registered)
  /\ done' = done + 1
  /\ LET t == registered[done + 1]
     IN  computed' = Counted(computed, t, heightOf[t], tipHeight, ownAddrs)
  /\ UNCHANGED <<registered, heightOf, tipHeight, ownAddrs>>

LoopSpec == LoopInit /\ [][CountNext]_loopVars

-----------------------------------------------------------------------------
Seen == FirstOf(registered, done)

LoopTypeOK ==
  /\ registered \in Seq(Tx) /\ IsInjective(registered)
  /\ heightOf \in [Tx -> Nat]
  /\ tipHeight \in Nat
  /\ ownAddrs \subseteq Chains \X Nat
  /\ done \in 0 .. Len(registered)
  /\ DOMAIN computed = DOMAIN Cleared
  /\ computed.invalidTx \subseteq Seen
  /\ computed.pendingTx \subseteq Seen \ computed.invalidTx
  /\ Len(computed.balanceHist) = done

\* A transaction is invalid for a reason, and then only.
InvalidExactly == InvalidOf(computed, registered, done, heightOf)

\* spentOutputs has the inputs of what is not invalid.
SpentExactly == SpentOf(computed, registered, done)

\* utxos has the wallet's own outputs, less what is spent, and the balance is their sum.
UnspentExactly ==
  /\ UnspentOf(computed, registered, done, ownAddrs)
  /\ computed.balance = Amount(computed.utxos)

\* The fields agree with one another after each turn of the loop.
LoopInv == LoopTypeOK /\ InvalidExactly /\ SpentExactly /\ UnspentExactly
=============================================================================
