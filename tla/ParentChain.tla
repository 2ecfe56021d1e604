---------------------------- MODULE ParentChain ----------------------------
(***************************************************************************)
(* The parent chain and the wallet RPC the attestation driver consumes     *)
(* (spec sections 2, 4.2 and 6).  The wallet adapter and the node are not  *)
(* under src/, so every definition here is modelled from the spec.         *)
(*                                                                         *)
(* A transaction is identified by its content, as a txid is the hash of    *)
(* the signed transaction: a record with the output it spends (prev), the  *)
(* commitment root it attests (root), its fee level and the commitment     *)
(* root the local key was tweaked with when its scriptSig was built        *)
(* (signRoot).  The staychain output of a transaction is locked under the  *)
(* multisig script tweaked by its own root, so a spend is valid only when  *)
(* it was signed with the root of the transaction it spends.               *)
(***************************************************************************)
EXTENDS Naturals, Sequences, SequencesExt

CONSTANTS
    NoTx            \* model value: the zero txid / no transaction

VARIABLES
    funded,         \* the initial funding transaction InitTx is in the wallet
    chain,          \* attestation transactions mined after InitTx, in order
    mempool,        \* the node's mempool (at most one staychain spend)
    sent            \* every transaction the node has accepted (wallet txs)

chainVars == <<funded, chain, mempool, sent>>

\* The funding transaction that seeds the staychain (config InitTx).
InitTx == [prev |-> NoTx, root |-> 0, fee |-> 0, signRoot |-> 0]

\* The tip of the staychain: the output every new attestation spends.
Tip == IF chain = <<>> THEN InitTx ELSE Last(chain)

ChainTxs == ToSet(chain)

\* The commitment root attested by the tip (0 for the funding tx).
TipRoot == Tip.root

\* A spend of the tip output is valid when its scriptSig was built from
\* the script tweaked by the root of the transaction it spends.
Valid(t) == t.prev # NoTx /\ t.signRoot = t.prev.root

\* A wallet transaction that is neither mined nor conflicted by a block:
\* it spends the current tip.  The wallet keeps it after mempool eviction
\* and after an RBF replacement, so it still hides the tip output.
PendingSpend == \E t \in sent : t.prev = Tip

\* find_last_unspent: listunspent shows the tip output only when the funding
\* tx is known and no wallet transaction spends it.
LastUnspentFound == funded /\ ~PendingSpend

\* sendrawtransaction accepts a valid spend of the unspent tip that is not
\* already in the mempool and pays more than the transaction it replaces.
Accepts(t) ==
    /\ funded
    /\ Valid(t)
    /\ t.prev = Tip
    /\ t \notin mempool
    /\ \A c \in mempool : c.fee < t.fee

\* The node accepted t: t replaces the conflicting mempool spend of the tip.
Broadcast(t) ==
    /\ mempool' = {t}
    /\ sent' = sent \cup {t}
    /\ UNCHANGED <<funded, chain>>

\* Mutant of Mined: any wallet transaction counts as confirmed.
MinedAnyWalletTx(t) == t \in sent

\* GetTransaction(txid).BlockHash != ""
Mined(t) == t \in ChainTxs

---------------------------------------------------------------------------
(* Environment steps of the parent network.                                *)

\* The operator seeds the wallet with the funding transaction.
FundInitTx ==
    /\ ~funded
    /\ funded' = TRUE
    /\ UNCHANGED <<chain, mempool, sent>>

\* A miner includes a valid spend of the tip it has seen.  A replaced
\* transaction may still be mined by a miner that missed the replacement.
Mine(t) ==
    /\ t \in sent
    /\ funded
    /\ t.prev = Tip
    /\ Valid(t)
    /\ chain' = Append(chain, t)
    /\ mempool' = {}
    /\ UNCHANGED <<funded, sent>>

\* The node drops a transaction from its mempool (expiry, restart).
Evict(t) ==
    /\ t \in mempool
    /\ mempool' = mempool \ {t}
    /\ UNCHANGED <<funded, chain, sent>>

\* The wallet periodically re-broadcasts its unconfirmed transactions.
Rebroadcast(t) ==
    /\ t \in sent
    /\ t.prev = Tip
    /\ Accepts(t)
    /\ mempool' = {t}
    /\ UNCHANGED <<funded, chain, sent>>

=============================================================================
