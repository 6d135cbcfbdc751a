---------------------------- MODULE MessageLedger ----------------------------
(***************************************************************************)
(* What the integration-message ledger promises, free of HTTP handlers and *)
(* of the database: for every key (capability, direction, requestId) one   *)
(* ledger entry and at most one business effect (a stored result row or a  *)
(* call executed by the external service), and no entry that claims        *)
(* success without the effect it stands for.                               *)
(***************************************************************************)
CONSTANTS
    Key,        \* the idempotency keys
    Effect,     \* identities of the effects that may be performed
    Effectless  \* keys whose success needs no effect (no result target)

VARIABLES
    entry,    \* [Key -> {"absent", "open", "succeeded", "failed"}]
    effects   \* [Key -> SUBSET Effect]: the effects performed for the key

ledgerVars == <<entry, effects>>

LedgerInit ==
    /\ entry = [k \in Key |-> "absent"]
    /\ effects = [k \in Key |-> {}]

Open(k) ==
    /\ entry[k] = "absent"
    /\ entry' = [entry EXCEPT ![k] = "open"]
    /\ UNCHANGED effects

\* The external service may act on a call that its caller has already given
\* up on, so an effect may also follow a failed entry; never a second one.
Perform(k) ==
    /\ entry[k] # "absent"
    /\ effects[k] = {}
    /\ \E e \in Effect : effects' = [effects EXCEPT ![k] = {e}]
    /\ UNCHANGED entry

Succeed(k) ==
    /\ entry[k] = "open"
    /\ effects[k] # {} \/ k \in Effectless
    /\ entry' = [entry EXCEPT ![k] = "succeeded"]
    /\ UNCHANGED effects

\* A success whose database reply was lost is taken back by its handler.
Fail(k) ==
    /\ entry[k] \in {"open", "succeeded"}
    /\ entry' = [entry EXCEPT ![k] = "failed"]
    /\ UNCHANGED effects

LedgerNext == \E k \in Key : Open(k) \/ Perform(k) \/ Succeed(k) \/ Fail(k)

LedgerSpec == LedgerInit /\ [][LedgerNext]_ledgerVars
==============================================================================
