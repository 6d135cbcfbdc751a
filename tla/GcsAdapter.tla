----------------------------- MODULE GcsAdapter -----------------------------
(***************************************************************************)
(* forest-gcs-adapter: drones are heard over MAVLink/UDP or over HTTP      *)
(* posts, the store keeps one telemetry per asset, and the listener of     *)
(* src/index.ts sends the newest one to the integration API, one send at a *)
(* time, coalescing what arrives meanwhile in the two flags `sending` and  *)
(* `pending` and the slot `latest`.  JavaScript runs one callback at a     *)
(* time, so every action is what happens between two awaits.               *)
(*                                                                         *)
(* An observation is numbered `at` when it is made (observedAt) and `seq`  *)
(* when it reaches the store; posts may overtake each other on the way.    *)
(* Its coordinates, status and attributes are left out.                    *)
(***************************************************************************)
EXTENDS Naturals, Sequences

CONSTANTS
    Drone,      \* assets, named as normalizeAssetIdentity names them
    Identified, \* those whose assetId is a UUID (the API client refuses others)
    Loop,       \* runs of the async function started by the listener
    MaxObs,     \* bound: observations made
    Faults      \* subset of {"network", "refusal"}

ASSUME DroneAssumption == Identified \subseteq Drone
ASSUME MaxObsAssumption == MaxObs \in Nat

VARIABLES
    clock,     \* observations made so far
    located,   \* drones whose GLOBAL_POSITION_INT was seen
    transit,   \* posts to /telemetry on their way
    arrivals,  \* observations stored so far
    store,     \* the newest arrival of every drone, or None
    latest,    \* the item the listener saw last, or None
    sending, pending,
    loop,      \* the runs of the async function
    eventKnown,\* the client resolved its eventId
    connected, \* what /health reports
    probing,   \* a probe waits for the events
    posted,    \* arrival numbers of the items posted to the API, in order
    stored     \* arrival numbers of the items the API stored

storeVars == <<clock, located, transit, arrivals, store>>
pumpVars == <<latest, sending, pending, loop>>
clientVars == <<eventKnown, connected, probing>>
apiVars == <<posted, stored>>
vars == <<storeVars, pumpVars, clientVars, apiVars>>

None == [drone |-> "none", at |-> 0, seq |-> 0]
Observation == [drone : Drone, at : 1..MaxObs]
Item == [drone : Drone, at : 1..MaxObs, seq : 1..MaxObs]
Resting == [pc |-> "idle", item |-> None]
Working == [pc : {"resolving", "posting", "throwing"}, item : Item]

\* FOREST_EVENT_ID may be configured; index.ts probes once when it starts.
Init ==
    /\ clock = 0 /\ located = {} /\ transit = {} /\ arrivals = 0
    /\ store = [d \in Drone |-> None]
    /\ latest = None /\ sending = FALSE /\ pending = FALSE
    /\ loop = [l \in Loop |-> Resting]
    /\ eventKnown \in BOOLEAN /\ connected = eventKnown /\ probing = ~eventKnown
    /\ posted = <<>> /\ stored = {}

(***************************************************************************)
(* The listener and its loop.                                              *)
(***************************************************************************)
\* client.send up to its first pending fetch: the events when no event is
\* known, else the post; an item without a UUID makes it throw.
Step(item) ==
    IF ~eventKnown THEN "resolving"
    ELSE IF item.drone \in Identified THEN "posting" ELSE "throwing"

Send(l, item) ==
    /\ loop' = [loop EXCEPT ![l] = [pc |-> Step(item), item |-> item]]
    /\ posted' = IF Step(item) = "posting" THEN Append(posted, item.seq) ELSE posted

MayStartAlways == TRUE                          \* mutant
MayStart == ~sending

\* A listener that looks at `sending` before it sets `pending`.
ListenDeaf(item) ==                             \* mutant
    /\ latest' = item
    /\ UNCHANGED pending
    /\ \/ /\ MayStart
          /\ sending' = TRUE
          /\ \E l \in Loop : loop[l] = Resting /\ Send(l, item)
       \/ /\ sending
          /\ UNCHANGED <<sending, loop, posted>>

Listen(item) ==
    /\ latest' = item
    /\ \/ /\ MayStart
          /\ sending' = TRUE
          /\ pending' = FALSE
          /\ \E l \in Loop : loop[l] = Resting /\ Send(l, item)
       \/ /\ sending
          /\ pending' = TRUE
          /\ UNCHANGED <<sending, loop, posted>>

\* store.update, with its listener called in the same turn.
Update(o) ==
    LET item == [drone |-> o.drone, at |-> o.at, seq |-> arrivals + 1] IN
    /\ arrivals' = arrivals + 1
    /\ store' = [store EXCEPT ![o.drone] = item]
    /\ Listen(item)

\* The while condition after a send that ended, in success or not.
AgainLate(l) ==                                 \* mutant: clears too late
    /\ sending' = FALSE
    /\ loop' = [loop EXCEPT ![l] = Resting]
    /\ pending' = FALSE
    /\ UNCHANGED <<latest, posted>>

AgainRetry(l) ==                                \* mutant: retries on its own
    /\ Send(l, IF pending THEN latest ELSE loop[l].item)
    /\ pending' = FALSE
    /\ UNCHANGED <<latest, sending>>

Again(l) ==
    /\ pending' = FALSE
    /\ UNCHANGED latest
    /\ IF pending
         THEN Send(l, latest) /\ UNCHANGED sending
         ELSE /\ sending' = FALSE
              /\ loop' = [loop EXCEPT ![l] = Resting]
              /\ UNCHANGED posted

(***************************************************************************)
(* Telemetry comes in.                                                     *)
(***************************************************************************)
Observe(d) == [drone |-> d, at |-> clock + 1]

\* A GLOBAL_POSITION_INT is both the position and a reason to report it.
HearPosition(d) ==
    /\ clock < MaxObs
    /\ clock' = clock + 1
    /\ located' = located \cup {d}
    /\ Update(Observe(d))
    /\ UNCHANGED <<transit, clientVars, stored>>

\* HEARTBEAT, SYS_STATUS, ATTITUDE and MISSION_CURRENT report the position
\* last heard, and nothing while there is none.
HearOther(d) ==
    /\ clock < MaxObs
    /\ d \in located
    /\ clock' = clock + 1
    /\ Update(Observe(d))
    /\ UNCHANGED <<located, transit, clientVars, stored>>

\* A ground station posts to /telemetry; the post arrives when it does.
PostTelemetry(d) ==
    /\ clock < MaxObs
    /\ clock' = clock + 1
    /\ transit' = transit \cup {Observe(d)}
    /\ UNCHANGED <<located, arrivals, store, pumpVars, clientVars, apiVars>>

ReceiveTelemetry(o) ==
    /\ o \in transit
    /\ transit' = transit \ {o}
    /\ Update(o)
    /\ UNCHANGED <<clock, located, clientVars, stored>>

(***************************************************************************)
(* The client's exchanges with the API.                                    *)
(***************************************************************************)
\* The events arrive: the client keeps the event it picks and posts.
EventsAnswer(l) ==
    /\ loop[l].pc = "resolving"
    /\ eventKnown' = TRUE
    /\ IF loop[l].item.drone \in Identified
         THEN /\ loop' = [loop EXCEPT ![l].pc = "posting"]
              /\ posted' = Append(posted, loop[l].item.seq)
         ELSE /\ loop' = [loop EXCEPT ![l].pc = "throwing"]
              /\ UNCHANGED posted
    /\ UNCHANGED <<storeVars, latest, sending, pending, connected, probing, stored>>

\* HTTP error, no event of the type, network error or the 5 s timeout.
EventsFail(l) ==
    /\ loop[l].pc = "resolving"
    /\ Faults # {}
    /\ Again(l)
    /\ UNCHANGED <<storeVars, clientVars, stored>>

\* The UUID check: the listener logs what send throws and goes on.
IdentityThrows(l) ==
    /\ loop[l].pc = "throwing"
    /\ Again(l)
    /\ UNCHANGED <<storeVars, clientVars, stored>>

PostAccepted(l) ==
    /\ loop[l].pc = "posting"
    /\ connected' = TRUE
    /\ stored' = stored \cup {loop[l].item.seq}
    /\ Again(l)
    /\ UNCHANGED <<storeVars, eventKnown, probing>>

PostRefused(l) ==
    /\ "refusal" \in Faults
    /\ loop[l].pc = "posting"
    /\ connected' = FALSE
    /\ Again(l)
    /\ UNCHANGED <<storeVars, eventKnown, probing, stored>>

\* fetch throws: no answer within 5 s, or no connection.  The API may have
\* stored the item.  `connected` keeps its value.
PostThrows(l) ==
    /\ "network" \in Faults
    /\ loop[l].pc = "posting"
    /\ \/ stored' = stored \cup {loop[l].item.seq}
       \/ UNCHANGED stored
    /\ Again(l)
    /\ UNCHANGED <<storeVars, clientVars>>

\* GET /bridge/status: a client that knows its event asks nobody.
Probe ==
    /\ ~probing
    /\ probing' = ~eventKnown
    /\ connected' = (eventKnown \/ connected)
    /\ UNCHANGED <<storeVars, pumpVars, eventKnown, apiVars>>

ProbeAnswers ==
    /\ probing
    /\ probing' = FALSE
    /\ eventKnown' = TRUE
    /\ connected' = TRUE
    /\ UNCHANGED <<storeVars, pumpVars, apiVars>>

ProbeFails ==
    /\ Faults # {}
    /\ probing
    /\ probing' = FALSE
    /\ connected' = FALSE
    /\ UNCHANGED <<storeVars, pumpVars, eventKnown, apiVars>>

LoopStep(l) ==
    \/ EventsAnswer(l) \/ EventsFail(l) \/ IdentityThrows(l)
    \/ PostAccepted(l) \/ PostRefused(l) \/ PostThrows(l)

Next ==
    \/ \E d \in Drone : HearPosition(d) \/ HearOther(d) \/ PostTelemetry(d)
    \/ \E o \in transit : ReceiveTelemetry(o)
    \/ \E l \in Loop : LoopStep(l)
    \/ Probe \/ ProbeAnswers \/ ProbeFails

Spec == Init /\ [][Next]_vars

\* fetch always settles: it answers, fails, or is aborted after 5 s.
FairSpec == Spec /\ \A l \in Loop : WF_vars(LoopStep(l))

-----------------------------------------------------------------------------
(***************************************************************************)
(* Properties.                                                             *)
(***************************************************************************)
\* The variables always have their types (index.ts:13-15, the client's state).
TypeOK ==
    /\ clock \in 0..MaxObs /\ arrivals \in 0..MaxObs
    /\ located \subseteq Drone
    /\ transit \subseteq Observation
    /\ store \in [Drone -> Item \cup {None}]
    /\ latest \in Item \cup {None}
    /\ sending \in BOOLEAN /\ pending \in BOOLEAN
    /\ loop \in [Loop -> Working \cup {Resting}]
    /\ eventKnown \in BOOLEAN /\ connected \in BOOLEAN /\ probing \in BOOLEAN
    /\ posted \in Seq(1..MaxObs) /\ stored \subseteq 1..MaxObs

\* The flag `sending` stands for exactly one run of the loop, and whoever
\* finds it set may leave its telemetry to that run: pending is never left
\* behind by a loop that ended.
OneLoop ==
    /\ sending => \E l \in Loop : \A k \in Loop : loop[k] # Resting <=> k = l
    /\ ~sending => ~pending /\ \A l \in Loop : loop[l] = Resting

\* Telemetry leaves in the order it arrived and no item leaves twice, however
\* arrivals, slow exchanges and failures interleave.
SentOnceInOrder ==
    \A i, j \in 1..Len(posted) : i < j => posted[i] < posted[j]

\* Whatever the API does, telemetry that arrives during a send is sent next or
\* replaced by newer telemetry: no wake-up is lost between the loop's last look
\* at pending and the arrival, and no failed send ends the loop early.
NewestIsTried ==
    \A n \in 1..MaxObs :
        (pending /\ latest.seq = n)
            ~> (latest.seq # n \/ \E l \in Loop : loop[l].item.seq = n)

-----------------------------------------------------------------------------
(***************************************************************************)
(* Refinement: what the one run of the loop sends is what is in hand.      *)
(***************************************************************************)
Running == CHOOSE l \in Loop : loop[l] # Resting
InHand == IF sending THEN loop[Running].item.seq ELSE 0

Box == INSTANCE Mailbox WITH arrived <- arrivals, inHand <- InHand

\* The two flags and the slot `latest` make a mailbox: whatever the API does,
\* the adapter is at rest only when the newest telemetry was the last it tried,
\* and it passes over none but for one that is newer (index.ts:13-33).
ImplementsMailbox == Box!MailboxSpec
=============================================================================
