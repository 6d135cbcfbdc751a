------------------------------- MODULE Mailbox -------------------------------
(***************************************************************************)
(* What the adapter's listener promises of the telemetry it is handed,     *)
(* free of flags, of runs of an async function and of the API: one item is *)
(* in hand at a time, what arrives meanwhile is replaced by what arrives   *)
(* after it, the newest is taken next, and the hand is empty only when the *)
(* newest was the last to be in it.                                        *)
(***************************************************************************)
EXTENDS Naturals

VARIABLES
    arrived,  \* items that arrived so far; the newest is number `arrived`
    inHand    \* number of the item that is tried, 0 if there is none

boxVars == <<arrived, inHand>>

MailboxInit == arrived = 0 /\ inHand = 0

Arrive ==
    /\ arrived' = arrived + 1
    /\ inHand' = IF inHand = 0 THEN arrived + 1 ELSE inHand

TakeNewest ==
    /\ inHand # 0 /\ inHand < arrived
    /\ inHand' = arrived
    /\ UNCHANGED arrived

Rest ==
    /\ inHand # 0 /\ inHand = arrived
    /\ inHand' = 0
    /\ UNCHANGED arrived

MailboxNext == Arrive \/ TakeNewest \/ Rest

MailboxSpec == MailboxInit /\ [][MailboxNext]_boxVars
==============================================================================
