-------------------------- MODULE GcsAdapter_proof --------------------------
(***************************************************************************)
(* Proofs about the adapter's send loop: the flag `sending` stands for one *)
(* run of the loop, and telemetry leaves in the order it arrived and only  *)
(* once.  Numbers order the argument: what was posted is never newer than  *)
(* the item the loop holds, and while telemetry is pending that item is    *)
(* older than the latest arrival.                                          *)
(***************************************************************************)
EXTENDS GcsAdapter, FiniteSetTheorems, SequenceTheorems, TLAPS

Counted ==
    /\ IsFiniteSet(transit)
    /\ arrivals + Cardinality(transit) <= clock

Numbered ==
    /\ latest = None => arrivals = 0
    /\ latest # None => latest.seq = arrivals
    /\ \A i \in 1..Len(posted) : posted[i] <= arrivals

Held ==
    \A l \in Loop : loop[l] # Resting =>
        /\ loop[l].item.seq <= arrivals
        /\ pending <=> loop[l].item.seq < arrivals
        /\ \A i \in 1..Len(posted) :
             /\ posted[i] <= loop[l].item.seq
             /\ loop[l].pc = "resolving" => posted[i] < loop[l].item.seq

IInv == TypeOK /\ Counted /\ OneLoop /\ Numbered /\ Held /\ SentOnceInOrder

PumpInv == OneLoop /\ Numbered /\ Held /\ SentOnceInOrder
PumpType ==
    /\ arrivals \in 0..MaxObs /\ store \in [Drone -> Item \cup {None}]
    /\ latest \in Item \cup {None}
    /\ sending \in BOOLEAN /\ pending \in BOOLEAN
    /\ loop \in [Loop -> Working \cup {Resting}]
    /\ posted \in Seq(1..MaxObs)

-----------------------------------------------------------------------------
\* An item is never None and a run that works never equals one that rests.
LEMMA Apart ==
    /\ \A item \in Item : item # None /\ item.seq \in 1..MaxObs /\ item.drone \in Drone
    /\ \A w \in Working : w # Resting /\ w.item \in Item
BY DEF Item, None, Working, Resting

\* Numbers in a sequence, and what appending one more does.
LEMMA Numbers ==
    ASSUME NEW p \in Seq(1..MaxObs)
    PROVE  Len(p) \in Nat /\ \A i \in 1..Len(p) : p[i] \in 1..MaxObs
BY LenProperties, ElementOfSeq

LEMMA Appended ==
    ASSUME NEW p \in Seq(1..MaxObs), NEW n \in 1..MaxObs, NEW q, q = Append(p, n)
    PROVE  /\ q \in Seq(1..MaxObs)
           /\ Len(q) = Len(p) + 1
           /\ \A i \in 1..Len(p) : q[i] = p[i]
           /\ q[Len(p) + 1] = n
BY AppendProperties

\* A newer number at the end keeps a sequence in order, and is its greatest.
LEMMA InOrderAppended ==
    ASSUME NEW p \in Seq(1..MaxObs), NEW n \in 1..MaxObs, NEW q, q = Append(p, n),
           \A i \in 1..Len(p) : p[i] < n,
           \A i, j \in 1..Len(p) : i < j => p[i] < p[j]
    PROVE  /\ \A i \in 1..Len(q) : q[i] <= n
           /\ \A i, j \in 1..Len(q) : i < j => q[i] < q[j]
<1>1. Len(p) \in Nat /\ \A i \in 1..Len(p) : p[i] \in 1..MaxObs
  BY Numbers
<1>2. /\ Len(q) = Len(p) + 1 /\ q[Len(p) + 1] = n
      /\ \A i \in 1..Len(p) : q[i] = p[i]
  BY Appended
<1>3. \A i \in 1..Len(q) : i \in 1..Len(p) \/ i = Len(p) + 1
  BY <1>1, <1>2
<1> QED
  BY <1>1, <1>2, <1>3, MaxObsAssumption

\* Starting to send an item newer than everything posted keeps the order.
LEMMA SendKeeps ==
    ASSUME PumpType, SentOnceInOrder, NEW l \in Loop, NEW item \in Item, Send(l, item),
           \A i \in 1..Len(posted) : posted[i] < item.seq
    PROVE  /\ loop' \in [Loop -> Working \cup {Resting}] /\ posted' \in Seq(1..MaxObs)
           /\ loop'[l] # Resting /\ loop'[l].item = item
           /\ \A k \in Loop \ {l} : loop'[k] = loop[k]
           /\ SentOnceInOrder'
           /\ \A i \in 1..Len(posted') : posted'[i] <= item.seq
           /\ loop'[l].pc = "resolving" => posted' = posted
<1> DEFINE w == [pc |-> Step(item), item |-> item]
<1>1. w \in Working /\ w # Resting
  BY DEF Working, Resting, Step
<1>2. /\ loop' = [loop EXCEPT ![l] = w]
      /\ posted' = IF Step(item) = "posting" THEN Append(posted, item.seq) ELSE posted
  BY DEF Send
<1>3. item.seq \in 1..MaxObs
  BY Apart
<1>4. CASE Step(item) = "posting"
  <2>1. posted' = Append(posted, item.seq)
    BY <1>2, <1>4
  <2>2. posted' \in Seq(1..MaxObs)
    BY <2>1, <1>3, Appended DEF PumpType
  <2>3. /\ \A i \in 1..Len(posted') : posted'[i] <= item.seq
        /\ \A i, j \in 1..Len(posted') : i < j => posted'[i] < posted'[j]
    BY <2>1, <1>3, InOrderAppended DEF PumpType, SentOnceInOrder
  <2> QED
    BY <1>1, <1>2, <1>4, <2>2, <2>3 DEF PumpType, SentOnceInOrder
<1>5. CASE Step(item) # "posting"
  <2>1. posted' = posted
    BY <1>2, <1>5
  <2>2. \A i \in 1..Len(posted) : posted[i] \in 1..MaxObs
    BY Numbers DEF PumpType
  <2>3. \A i \in 1..Len(posted') : posted'[i] <= item.seq
    BY <2>1, <2>2, <1>3, MaxObsAssumption
  <2> QED
    BY <1>1, <1>2, <2>1, <2>3 DEF PumpType, SentOnceInOrder
<1> QED
  BY <1>4, <1>5

\* What arrives is taken by the one loop, or left to it.
LEMMA UpdateKeeps ==
    ASSUME PumpType, PumpInv, NEW o \in Observation, Update(o), arrivals < MaxObs
    PROVE  (PumpType /\ PumpInv)'
<1> DEFINE item == [drone |-> o.drone, at |-> o.at, seq |-> arrivals + 1]
<1>1. item \in Item /\ item # None /\ item.seq = arrivals + 1 /\ o.drone \in Drone
  BY MaxObsAssumption DEF PumpType, Observation, Item, None
<1>2. arrivals' = arrivals + 1 /\ store' = [store EXCEPT ![o.drone] = item] /\ latest' = item
  BY DEF Update, Listen
<1>3. arrivals' \in 0..MaxObs /\ store' \in [Drone -> Item \cup {None}]
      /\ latest' \in Item \cup {None}
  BY <1>1, <1>2, MaxObsAssumption DEF PumpType
<1>4. \A i \in 1..Len(posted) : posted[i] < item.seq /\ posted[i] \in 1..MaxObs
  BY <1>1, Numbers, MaxObsAssumption DEF PumpType, PumpInv, Numbered
<1>5. CASE MayStart /\ sending' = TRUE /\ pending' = FALSE
           /\ \E l \in Loop : loop[l] = Resting /\ Send(l, item)
  <2>1. PICK l \in Loop : Send(l, item)
    BY <1>5
  <2>2. \A k \in Loop : loop[k] = Resting
    BY <1>5 DEF MayStart, PumpInv, OneLoop
  <2>3. SentOnceInOrder
    BY DEF PumpInv
  <2>4. /\ loop' \in [Loop -> Working \cup {Resting}] /\ posted' \in Seq(1..MaxObs)
        /\ loop'[l] # Resting /\ loop'[l].item = item
        /\ \A k \in Loop \ {l} : loop'[k] = loop[k]
        /\ SentOnceInOrder'
        /\ \A i \in 1..Len(posted') : posted'[i] <= item.seq
        /\ loop'[l].pc = "resolving" => posted' = posted
    BY <1>1, <1>4, <2>1, <2>3, SendKeeps
  <2>5. PumpType'
    BY <1>3, <1>5, <2>4 DEF PumpType
  <2>6. OneLoop'
    BY <1>5, <2>2, <2>4 DEF OneLoop
  <2>7. Numbered'
    BY <1>1, <1>2, <2>4 DEF Numbered
  <2>8. Held'
    BY <1>1, <1>2, <1>4, <1>5, <2>2, <2>4, MaxObsAssumption DEF Held, PumpType
  <2> QED
    BY <2>4, <2>5, <2>6, <2>7, <2>8 DEF PumpInv
<1>6. CASE sending /\ pending' = TRUE /\ UNCHANGED <<sending, loop, posted>>
  <2>1. PumpType'
    BY <1>3, <1>6 DEF PumpType
  <2>2. OneLoop' /\ SentOnceInOrder'
    BY <1>6 DEF PumpInv, OneLoop, SentOnceInOrder
  <2>3. Numbered'
    BY <1>1, <1>2, <1>4, <1>6, MaxObsAssumption DEF Numbered, PumpType
  <2>4. \A l \in Loop : loop[l] # Resting => loop[l].item.seq \in 1..MaxObs
    BY Apart DEF PumpType
  <2>5. Held'
    BY <1>1, <1>2, <1>6, <2>4, MaxObsAssumption DEF PumpInv, Held, PumpType
  <2> QED
    BY <2>1, <2>2, <2>3, <2>5 DEF PumpInv
<1> QED
  BY <1>5, <1>6 DEF Update, Listen

\* After a send the loop takes what is pending, or rests with nothing left.
LEMMA AgainKeeps ==
    ASSUME PumpType, PumpInv, NEW l \in Loop, loop[l] # Resting, Again(l),
           UNCHANGED <<arrivals, store>>
    PROVE  (PumpType /\ PumpInv)'
<1>1. loop[l] \in Working /\ loop[l].item.seq \in 1..MaxObs
  BY Apart DEF PumpType
<1>2. sending /\ \A k \in Loop : loop[k] # Resting <=> k = l
  BY DEF PumpInv, OneLoop
<1>3. \A i \in 1..Len(posted) : posted[i] <= loop[l].item.seq /\ posted[i] \in 1..MaxObs
  BY Numbers DEF PumpInv, Held, PumpType
<1>4. pending' = FALSE /\ latest' = latest
  BY DEF Again
<1>5. CASE pending /\ Send(l, latest) /\ UNCHANGED sending
  <2>1. loop[l].item.seq < arrivals
    BY <1>5 DEF PumpInv, Held
  <2>2. latest \in Item /\ latest.seq = arrivals
    BY <2>1, <1>1, MaxObsAssumption DEF PumpInv, Numbered, PumpType
  <2>3. \A i \in 1..Len(posted) : posted[i] < latest.seq
    BY <1>1, <1>3, <2>1, <2>2, MaxObsAssumption DEF PumpType
  <2>4. SentOnceInOrder
    BY DEF PumpInv
  <2>5. /\ loop' \in [Loop -> Working \cup {Resting}] /\ posted' \in Seq(1..MaxObs)
        /\ loop'[l] # Resting /\ loop'[l].item = latest
        /\ \A k \in Loop \ {l} : loop'[k] = loop[k]
        /\ SentOnceInOrder'
        /\ \A i \in 1..Len(posted') : posted'[i] <= latest.seq
        /\ loop'[l].pc = "resolving" => posted' = posted
    BY <1>5, <2>2, <2>3, <2>4, SendKeeps
  <2>6. PumpType'
    BY <1>4, <1>5, <2>5 DEF PumpType
  <2>7. OneLoop'
    BY <1>2, <1>4, <1>5, <2>5 DEF OneLoop
  <2>8. Numbered'
    BY <1>4, <2>2, <2>5 DEF Numbered, PumpInv
  <2>9. Held'
    BY <1>2, <1>4, <2>2, <2>3, <2>5 DEF Held, PumpType
  <2> QED
    BY <2>5, <2>6, <2>7, <2>8, <2>9 DEF PumpInv
<1>6. CASE ~pending /\ sending' = FALSE /\ loop' = [loop EXCEPT ![l] = Resting]
           /\ UNCHANGED posted
  <2>1. \A k \in Loop : loop'[k] = Resting
    BY <1>2, <1>6 DEF PumpType
  <2>2. PumpType'
    BY <1>4, <1>6 DEF PumpType
  <2>3. OneLoop' /\ Held'
    BY <1>4, <1>6, <2>1 DEF OneLoop, Held
  <2>4. Numbered' /\ SentOnceInOrder'
    BY <1>4, <1>6 DEF PumpInv, Numbered, SentOnceInOrder
  <2> QED
    BY <2>2, <2>3, <2>4 DEF PumpInv
<1> QED
  BY <1>5, <1>6 DEF Again

-----------------------------------------------------------------------------
LEMMA InitIInv == Init => IInv
<1> SUFFICES ASSUME Init PROVE IInv
  OBVIOUS
<1>1. IsFiniteSet(transit) /\ Cardinality(transit) = 0
  BY FS_EmptySet DEF Init
<1>2. posted = <<>> /\ Len(posted) = 0 /\ posted \in Seq(1..MaxObs)
  BY DEF Init
<1>3. TypeOK
  <2>1. eventKnown \in BOOLEAN /\ connected \in BOOLEAN /\ probing \in BOOLEAN
    BY Zenon DEF Init
  <2>2. clock \in 0..MaxObs /\ arrivals \in 0..MaxObs
    BY MaxObsAssumption DEF Init
  <2>3. /\ located \subseteq Drone /\ transit \subseteq Observation
        /\ store \in [Drone -> Item \cup {None}] /\ latest \in Item \cup {None}
        /\ sending \in BOOLEAN /\ pending \in BOOLEAN /\ stored \subseteq 1..MaxObs
        /\ loop \in [Loop -> Working \cup {Resting}]
    BY DEF Init
  <2> QED
    BY <1>2, <2>1, <2>2, <2>3 DEF TypeOK
<1>4. Counted
  BY <1>1 DEF Init, Counted
<1>5. OneLoop
  BY DEF Init, OneLoop
<1>6. Numbered /\ Held /\ SentOnceInOrder
  BY <1>2 DEF Init, Numbered, Held, SentOnceInOrder
<1> QED
  BY <1>3, <1>4, <1>5, <1>6 DEF IInv

LEMMA NextIInv == IInv /\ [Next]_vars => IInv'
<1> SUFFICES ASSUME IInv, [Next]_vars PROVE IInv'
  OBVIOUS
<1>a. PumpType /\ PumpInv /\ TypeOK /\ Counted
  BY DEF IInv, PumpType, PumpInv, TypeOK
<1>b. Cardinality(transit) \in Nat
  BY <1>a, FS_CardinalityType DEF Counted
<1>c. \A d \in Drone : clock < MaxObs => Observe(d) \in Observation
  BY <1>a, MaxObsAssumption DEF TypeOK, Observe, Observation
<1>1. ASSUME NEW d \in Drone, HearPosition(d) \/ HearOther(d) PROVE IInv'
  <2>1. /\ clock < MaxObs /\ clock' = clock + 1 /\ Update(Observe(d))
        /\ UNCHANGED <<transit, clientVars, stored>> /\ located' \subseteq Drone
    BY <1>1, <1>a DEF HearPosition, HearOther, TypeOK
  <2>2. arrivals < MaxObs
    BY <2>1, <1>a, <1>b, MaxObsAssumption DEF Counted, TypeOK
  <2>3. (PumpType /\ PumpInv)'
    BY <2>1, <2>2, <1>a, <1>c, UpdateKeeps
  <2>4. arrivals' = arrivals + 1
    BY <2>1 DEF Update
  <2>5. Counted'
    BY <2>1, <2>4, <1>a, <1>b DEF Counted, TypeOK
  <2>6. TypeOK'
    BY <2>1, <2>3, <1>a, MaxObsAssumption DEF TypeOK, PumpType, clientVars
  <2> QED
    BY <2>3, <2>5, <2>6 DEF IInv, PumpInv
<1>2. ASSUME NEW d \in Drone, PostTelemetry(d) PROVE IInv'
  <2>1. /\ clock < MaxObs /\ clock' = clock + 1 /\ transit' = transit \cup {Observe(d)}
        /\ UNCHANGED <<located, arrivals, store, pumpVars, clientVars, apiVars>>
    BY <1>2 DEF PostTelemetry
  <2>2. /\ IsFiniteSet(transit') /\ Cardinality(transit') <= Cardinality(transit) + 1
        /\ Cardinality(transit') \in Nat
    BY <2>1, <1>a, <1>b, FS_AddElement, FS_CardinalityType DEF Counted
  <2>3. Counted'
    BY <2>1, <2>2, <1>a, <1>b DEF Counted, TypeOK
  <2>4. TypeOK'
    BY <2>1, <1>a, <1>c, MaxObsAssumption DEF TypeOK, clientVars, apiVars, pumpVars
  <2>5. PumpInv'
    BY <2>1, <1>a DEF PumpInv, OneLoop, Numbered, Held, SentOnceInOrder, pumpVars, apiVars
  <2> QED
    BY <2>3, <2>4, <2>5 DEF IInv, PumpInv
<1>3. ASSUME NEW o \in transit, ReceiveTelemetry(o) PROVE IInv'
  <2>1. /\ o \in Observation /\ transit' = transit \ {o} /\ Update(o)
        /\ UNCHANGED <<clock, located, clientVars, stored>>
    BY <1>3, <1>a DEF ReceiveTelemetry, TypeOK
  <2>2. /\ IsFiniteSet(transit') /\ Cardinality(transit') = Cardinality(transit) - 1
        /\ Cardinality(transit') \in Nat
    BY <2>1, <1>a, FS_RemoveElement, FS_CardinalityType DEF Counted
  <2>3. arrivals < MaxObs
    BY <2>2, <1>a, <1>b, MaxObsAssumption DEF Counted, TypeOK
  <2>4. (PumpType /\ PumpInv)'
    BY <2>1, <2>3, <1>a, UpdateKeeps
  <2>5. arrivals' = arrivals + 1
    BY <2>1 DEF Update
  <2>6. Counted'
    BY <2>1, <2>2, <2>5, <1>a, <1>b DEF Counted, TypeOK
  <2>7. TypeOK'
    BY <2>1, <2>4, <1>a, MaxObsAssumption DEF TypeOK, PumpType, clientVars
  <2> QED
    BY <2>4, <2>6, <2>7 DEF IInv, PumpInv
<1>4. ASSUME NEW l \in Loop, EventsAnswer(l) PROVE IInv'
  <2>1. /\ loop[l].pc = "resolving" /\ eventKnown' = TRUE
        /\ UNCHANGED <<storeVars, latest, sending, pending, connected, probing, stored>>
    BY <1>4 DEF EventsAnswer
  <2>2. loop[l] \in Working /\ loop[l] # Resting /\ loop[l].item.seq \in 1..MaxObs
    BY <2>1, <1>a, Apart DEF PumpType, Resting
  <2>3. Counted'
    BY <2>1, <1>a DEF Counted, storeVars
  <2>4. \A i \in 1..Len(posted) :
          /\ posted[i] \in 1..MaxObs /\ posted[i] < loop[l].item.seq
          /\ posted[i] <= arrivals
    BY <2>1, <2>2, <1>a, Numbers DEF PumpInv, Held, Numbered, PumpType
  <2>5. \A k \in Loop : k # l => loop[k] = Resting
    BY <2>2, <1>a DEF PumpInv, OneLoop
  <2>6. loop[l].item.seq <= arrivals /\ (pending <=> loop[l].item.seq < arrivals)
    BY <2>2, <1>a DEF PumpInv, Held
  <2>7. CASE /\ loop' = [loop EXCEPT ![l].pc = "posting"]
             /\ posted' = Append(posted, loop[l].item.seq)
    <3>1. /\ posted' \in Seq(1..MaxObs)
          /\ \A i \in 1..Len(posted') : posted'[i] <= loop[l].item.seq
          /\ \A i, j \in 1..Len(posted') : i < j => posted'[i] < posted'[j]
      BY <2>2, <2>4, <2>7, <1>a, Appended, InOrderAppended DEF PumpType, PumpInv, SentOnceInOrder
    <3>2. /\ loop'[l] \in Working /\ loop'[l] # Resting /\ loop'[l].item = loop[l].item
          /\ loop'[l].pc = "posting"
          /\ \A k \in Loop : k # l => loop'[k] = Resting
          /\ loop' \in [Loop -> Working \cup {Resting}]
      BY <2>2, <2>5, <2>7, <1>a DEF PumpType, Working, Resting
    <3>3. TypeOK'
      BY <2>1, <3>1, <3>2, <1>a DEF TypeOK, storeVars
    <3>4. OneLoop'
      BY <2>1, <2>2, <3>2, <1>a DEF PumpInv, OneLoop
    <3>5. \A i \in 1..Len(posted') : posted'[i] \in 1..MaxObs
      BY <3>1, Numbers
    <3>6. Numbered'
      BY <2>1, <2>2, <2>6, <3>1, <3>5, <1>a, MaxObsAssumption
         DEF PumpInv, PumpType, Numbered, storeVars
    <3>7. Held'
      BY <2>1, <2>6, <3>1, <3>2 DEF Held, storeVars
    <3> QED
      BY <2>3, <3>1, <3>3, <3>4, <3>6, <3>7 DEF IInv, SentOnceInOrder
  <2>8. CASE /\ loop' = [loop EXCEPT ![l].pc = "throwing"]
             /\ posted' = posted
    <3>1. /\ loop'[l] \in Working /\ loop'[l] # Resting /\ loop'[l].item = loop[l].item
          /\ loop'[l].pc = "throwing"
          /\ \A k \in Loop : k # l => loop'[k] = Resting
          /\ loop' \in [Loop -> Working \cup {Resting}]
      BY <2>2, <2>5, <2>8, <1>a DEF PumpType, Working, Resting
    <3>2. TypeOK'
      BY <2>1, <2>8, <3>1, <1>a DEF TypeOK, storeVars
    <3>3. OneLoop'
      BY <2>1, <2>2, <3>1, <1>a DEF PumpInv, OneLoop
    <3>4. Numbered' /\ SentOnceInOrder'
      BY <2>1, <2>8, <1>a DEF PumpInv, Numbered, SentOnceInOrder, storeVars
    <3>5. \A i \in 1..Len(posted) : posted[i] <= loop[l].item.seq
      BY <2>2, <2>4, MaxObsAssumption
    <3>6. Held'
      BY <2>1, <2>6, <2>8, <3>1, <3>5 DEF Held, storeVars
    <3> QED
      BY <2>3, <3>2, <3>3, <3>4, <3>6 DEF IInv
  <2> QED
    BY <1>4, <2>7, <2>8 DEF EventsAnswer
<1>5. ASSUME NEW l \in Loop,
             EventsFail(l) \/ IdentityThrows(l) \/ PostAccepted(l) \/ PostRefused(l) \/ PostThrows(l)
      PROVE IInv'
  <2>1. /\ loop[l].pc \in {"resolving", "throwing", "posting"}
        /\ Again(l) /\ UNCHANGED storeVars
        /\ eventKnown' = eventKnown /\ connected' \in BOOLEAN /\ probing' = probing
        /\ stored' = stored \/ stored' = stored \cup {loop[l].item.seq}
    BY <1>5, <1>a DEF EventsFail, IdentityThrows, PostAccepted, PostRefused, PostThrows,
                      clientVars, TypeOK
  <2>2. loop[l] # Resting /\ loop[l].item.seq \in 1..MaxObs
    BY <2>1, <1>a, Apart DEF PumpType, Resting
  <2>3. (PumpType /\ PumpInv)'
    BY <2>1, <2>2, <1>a, AgainKeeps DEF storeVars
  <2>4. Counted'
    BY <2>1, <1>a DEF Counted, storeVars
  <2>5. TypeOK'
    BY <2>1, <2>2, <2>3, <1>a DEF TypeOK, PumpType, storeVars
  <2> QED
    BY <2>3, <2>4, <2>5 DEF IInv, PumpInv
<1>6. ASSUME Probe \/ ProbeAnswers \/ ProbeFails PROVE IInv'
  <2>1. /\ UNCHANGED <<storeVars, pumpVars, apiVars>>
        /\ eventKnown' \in BOOLEAN /\ connected' \in BOOLEAN /\ probing' \in BOOLEAN
    BY <1>6, <1>a DEF Probe, ProbeAnswers, ProbeFails, TypeOK
  <2>2. TypeOK' /\ Counted'
    BY <2>1, <1>a DEF TypeOK, Counted, storeVars, pumpVars, apiVars
  <2>3. PumpInv'
    BY <2>1, <1>a DEF PumpInv, OneLoop, Numbered, Held, SentOnceInOrder,
                      storeVars, pumpVars, apiVars
  <2> QED
    BY <2>2, <2>3 DEF IInv, PumpInv
<1>7. CASE UNCHANGED vars
  <2>1. TypeOK' /\ Counted'
    BY <1>7, <1>a DEF TypeOK, Counted, vars, storeVars, pumpVars, clientVars, apiVars
  <2>2. PumpInv'
    BY <1>7, <1>a DEF PumpInv, OneLoop, Numbered, Held, SentOnceInOrder,
                      vars, storeVars, pumpVars, apiVars
  <2> QED
    BY <2>1, <2>2 DEF IInv, PumpInv
<1> QED
  BY <1>1, <1>2, <1>3, <1>4, <1>5, <1>6, <1>7 DEF Next, LoopStep

LEMMA Invariance == Spec => []IInv
<1>1. Init => IInv
  BY InitIInv
<1>2. IInv /\ [Next]_vars => IInv'
  BY NextIInv
<1> QED
  BY <1>1, <1>2, PTL DEF Spec

\* Whatever the number of drones, runs and observations, the variables have
\* their types (the state of index.ts:13-15 and forest-api-client.ts:8-18).
THEOREM TypeCorrect == Spec => []TypeOK
<1>1. IInv => TypeOK
  BY DEF IInv
<1> QED
  BY <1>1, Invariance, PTL

\* index.ts:20-31: `sending` stands for exactly one run of the loop, and
\* nothing is pending when no loop runs.
THEOREM SingleFlight == Spec => []OneLoop
<1>1. IInv => OneLoop
  BY DEF IInv
<1> QED
  BY <1>1, Invariance, PTL

\* index.ts:17-33: telemetry leaves in the order it arrived, each item once.
THEOREM InOrder == Spec => []SentOnceInOrder
<1>1. IInv => SentOnceInOrder
  BY DEF IInv
<1> QED
  BY <1>1, Invariance, PTL

-----------------------------------------------------------------------------
(* The flags and the slot implement the mailbox.                             *)

\* The item of the run that works is what is in hand.
LEMMA HeldInHand ==
    ASSUME OneLoop, NEW l \in Loop, loop[l] # Resting
    PROVE  sending /\ InHand = loop[l].item.seq
<1>1. sending
  BY DEF OneLoop
<1>2. \A k \in Loop : loop[k] # Resting <=> k = l
  BY <1>1 DEF OneLoop
<1>3. Running = l
  BY <1>2 DEF Running
<1> QED
  BY <1>1, <1>3 DEF InHand

LEMMA HeldInHandNext ==
    ASSUME OneLoop', NEW l \in Loop, loop'[l] # Resting
    PROVE  sending' /\ InHand' = loop'[l].item.seq
<1>1. sending'
  BY DEF OneLoop
<1>2. \A k \in Loop : loop'[k] # Resting <=> k = l
  BY <1>1 DEF OneLoop
<1>3. Running' = l
  BY <1>2 DEF Running
<1> QED
  BY <1>1, <1>3 DEF InHand

\* What is sent is in hand afterwards.
LEMMA SentInHand ==
    ASSUME PumpType, OneLoop', NEW l \in Loop, NEW item \in Item, Send(l, item)
    PROVE  InHand' = item.seq
<1> DEFINE w == [pc |-> Step(item), item |-> item]
<1>1. w \in Working /\ w # Resting /\ w.item = item
  BY DEF Working, Resting, Step
<1>2. loop'[l] = w
  BY DEF Send, PumpType
<1>3. InHand' = loop'[l].item.seq
  BY <1>1, <1>2, HeldInHandNext
<1> QED
  BY <1>1, <1>2, <1>3

LEMMA InitImplements == Init => Box!MailboxInit
  BY DEF Init, Box!MailboxInit, InHand

\* What arrives is taken up by an adapter at rest, and waits for one that sends.
LEMMA UpdateArrives ==
    ASSUME PumpType, OneLoop, Held, OneLoop', NEW o \in Observation, Update(o), arrivals < MaxObs
    PROVE  Box!Arrive
<1> DEFINE item == [drone |-> o.drone, at |-> o.at, seq |-> arrivals + 1]
<1>1. item \in Item /\ item.seq = arrivals + 1
  BY MaxObsAssumption DEF PumpType, Observation, Item
<1>2. arrivals' = arrivals + 1
  BY DEF Update
<1>3. CASE MayStart /\ \E l \in Loop : Send(l, item)
  <2>1. InHand = 0
    BY <1>3 DEF MayStart, InHand
  <2>2. InHand' = arrivals + 1
    BY <1>1, <1>3, SentInHand
  <2> QED
    BY <1>2, <2>1, <2>2 DEF Box!Arrive
<1>4. CASE sending /\ UNCHANGED <<sending, loop>>
  <2>1. PICK l \in Loop : loop[l] # Resting
    BY <1>4 DEF OneLoop
  <2>2. InHand = loop[l].item.seq /\ InHand' = InHand
    BY <1>4, <2>1, HeldInHand, HeldInHandNext
  <2>3. InHand # 0
    BY <2>1, <2>2, Apart, MaxObsAssumption DEF PumpType
  <2> QED
    BY <1>2, <2>2, <2>3 DEF Box!Arrive
<1> QED
  BY <1>3, <1>4 DEF Update, Listen

\* After a send the hand takes the newest, or is empty because it was that.
LEMMA AgainTakes ==
    ASSUME PumpType, PumpInv, OneLoop', NEW l \in Loop, loop[l] # Resting, Again(l),
           UNCHANGED arrivals
    PROVE  Box!TakeNewest \/ Box!Rest
<1>1. InHand = loop[l].item.seq /\ sending
  BY HeldInHand DEF PumpInv
<1>2. /\ InHand \in 1..MaxObs /\ InHand # 0 /\ InHand <= arrivals
      /\ pending <=> InHand < arrivals
  BY <1>1, Apart, MaxObsAssumption DEF PumpType, PumpInv, Held
<1>3. CASE pending
  <2>1. latest \in Item /\ latest.seq = arrivals
    BY <1>2, <1>3, MaxObsAssumption DEF PumpType, PumpInv, Numbered
  <2>2. InHand' = arrivals
    BY <1>3, <2>1, SentInHand DEF Again
  <2> QED
    BY <1>2, <1>3, <2>2 DEF Box!TakeNewest
<1>4. CASE ~pending
  <2>1. InHand = arrivals
    BY <1>2, <1>4, MaxObsAssumption DEF PumpType
  <2>2. InHand' = 0
    BY <1>4 DEF Again, InHand
  <2> QED
    BY <1>2, <2>1, <2>2 DEF Box!Rest
<1> QED
  BY <1>3, <1>4

LEMMA StepImplements == IInv /\ IInv' /\ [Next]_vars => [Box!MailboxNext]_(Box!boxVars)
<1> SUFFICES ASSUME IInv, IInv', [Next]_vars
             PROVE  Box!MailboxNext \/ (arrivals' = arrivals /\ InHand' = InHand)
  BY DEF Box!boxVars
<1>a. PumpType /\ PumpInv /\ TypeOK /\ Counted /\ OneLoop /\ Held /\ OneLoop'
  BY DEF IInv, PumpType, PumpInv, TypeOK
<1>b. arrivals' = arrivals + 1 => arrivals < MaxObs
  BY <1>a, MaxObsAssumption DEF IInv, TypeOK
<1>c. \A d \in Drone : clock < MaxObs => Observe(d) \in Observation
  BY <1>a, MaxObsAssumption DEF TypeOK, Observe, Observation
<1>1. ASSUME NEW o \in Observation, Update(o) PROVE Box!MailboxNext
  BY <1>1, <1>a, <1>b, UpdateArrives DEF Update, Box!MailboxNext
<1>2. ASSUME NEW d \in Drone, HearPosition(d) \/ HearOther(d) PROVE Box!MailboxNext
  BY <1>2, <1>1, <1>c DEF HearPosition, HearOther
<1>3. ASSUME NEW o \in transit, ReceiveTelemetry(o) PROVE Box!MailboxNext
  BY <1>3, <1>1, <1>a DEF ReceiveTelemetry, TypeOK
<1>4. CASE \/ \E d \in Drone : PostTelemetry(d)
           \/ Probe \/ ProbeAnswers \/ ProbeFails \/ UNCHANGED vars
  <2>1. UNCHANGED <<arrivals, sending, loop>>
    BY <1>4 DEF PostTelemetry, Probe, ProbeAnswers, ProbeFails, vars, storeVars, pumpVars
  <2>2. Running' = Running
    BY <2>1 DEF Running
  <2> QED
    BY <2>1, <2>2 DEF InHand
<1>5. ASSUME NEW l \in Loop, EventsAnswer(l)
      PROVE  arrivals' = arrivals /\ InHand' = InHand
  <2>1. loop[l] # Resting /\ loop[l] \in Working
    BY <1>5, <1>a DEF EventsAnswer, PumpType, Resting
  <2>2. loop'[l] # Resting /\ loop'[l].item = loop[l].item /\ UNCHANGED <<arrivals, sending>>
    BY <1>5, <1>a, <2>1 DEF EventsAnswer, PumpType, Working, Resting, storeVars
  <2> QED
    BY <1>a, <2>1, <2>2, HeldInHand, HeldInHandNext
<1>6. ASSUME NEW l \in Loop,
             EventsFail(l) \/ IdentityThrows(l) \/ PostAccepted(l) \/ PostRefused(l) \/ PostThrows(l)
      PROVE  Box!MailboxNext
  <2>1. Again(l) /\ UNCHANGED arrivals /\ loop[l] # Resting
    BY <1>6 DEF EventsFail, IdentityThrows, PostAccepted, PostRefused, PostThrows, storeVars, Resting
  <2> QED
    BY <1>a, <2>1, AgainTakes DEF Box!MailboxNext
<1> QED
  BY <1>2, <1>3, <1>4, <1>5, <1>6 DEF Next, LoopStep

\* index.ts:13-33: `sending`, `pending` and `latest` implement the mailbox under
\* every failure of the API and for any number of drones: no wake-up is lost,
\* and the adapter rests only when the newest telemetry was the last it tried.
THEOREM Implementation == Spec => ImplementsMailbox
<1>1. Init => Box!MailboxInit
  BY InitImplements
<1>2. IInv /\ IInv' /\ [Next]_vars => [Box!MailboxNext]_(Box!boxVars)
  BY StepImplements
<1> QED
  BY <1>1, <1>2, Invariance, PTL DEF Spec, ImplementsMailbox, Box!MailboxSpec
=============================================================================
