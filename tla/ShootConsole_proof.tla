-------------------------- MODULE ShootConsole_proof --------------------------
(***************************************************************************)
(* The console's safety for any catalogue, any number of requests, timers  *)
(* and loops.  Kept adds to the properties what makes them inductive: at   *)
(* most one run of all, running cards only of loaded tests, and outcomes   *)
(* that the API stands behind.                                             *)
(***************************************************************************)
EXTENDS ShootConsole, TLAPS

OneRunOfAll ==
    \A c, d \in Call : call[c].kind = "all" /\ call[d].kind = "all" => c = d
RunsAll == \A c \in Call : call[c].kind = "all" => call[c].ids = Test
RunningLoaded == \A t \in Test : card[t] = "running" => t \in tests
OutcomeTrue ==
    \A c \in Call : InFlight(c) =>
        \A t \in Test : call[c].out[t] = "ok" => t \in accepted
Kept == TypeOK /\ OneRunOfAll /\ RunsAll /\ RunningLoaded /\ OutcomeTrue
            /\ CardsTellTruth /\ ContinuousLives

\* NoCall is no request, and its kind is none of the four.
LEMMA NoCallKind ==
    /\ NoCall.kind \notin Kind
    /\ NoCall \notin Request
    /\ \A x \in Request : x # NoCall /\ x.kind \in Kind
<1>1. NoCall.kind = "none"
  BY DEF NoCall
<1>2. \A x \in Request : x.kind \in Kind
  BY DEF Request
<1>3. "none" \notin Kind
  BY DEF Kind
<1> QED BY <1>1, <1>2, <1>3

\* A new request keeps everything, when its tests are loaded and it is the
\* first run of all if it is one.
LEMMA SendKeeps ==
    ASSUME NEW kind \in Kind, NEW ids \in SUBSET Test, NEW shown \in SUBSET ids,
           Kept, Send(kind, ids, shown), shown \subseteq tests, tests' = tests,
           accepted' = accepted,
           kind = "all" => ids = Test /\ ~runAllDisabled
    PROVE  /\ call' \in [Call -> Request \cup {NoCall}]
           /\ card' \in [Test -> {"idle", "running", "pass", "fail"}]
           /\ OneRunOfAll' /\ RunsAll' /\ RunningLoaded' /\ OutcomeTrue' /\ CardsTellTruth'
           /\ \E c \in Call : call'[c].kind = kind
           /\ (\E c \in Call : call'[c].kind = "all")
                 <=> (kind = "all" \/ \E c \in Call : call[c].kind = "all")
           /\ Cycling \subseteq Cycling'
           /\ kind # "cycle" =>
                \A c \in Call : call'[c].kind = "cycle" => call[c].kind = "cycle"
<1> DEFINE new == [kind |-> kind, ids |-> ids, out |-> [t \in Test |-> "open"]]
<1>1. PICK c \in Call : /\ call[c] = NoCall
                        /\ call' = [call EXCEPT ![c] = new]
                        /\ card' = Show(shown, "running")
  BY DEF Send
<1>2. new \in Request
  BY DEF Request, Outcome
<1>3. call \in [Call -> Request \cup {NoCall}]
  BY DEF Kept, TypeOK
<1>4. call' \in [Call -> Request \cup {NoCall}]
  BY <1>1, <1>2, <1>3
<1>5. call'[c] = new /\ \A d \in Call \ {c} : call'[d] = call[d]
  BY <1>1, <1>3
<1>6. new.kind = kind /\ new.ids = ids /\ \A t \in Test : new.out[t] = "open"
  OBVIOUS
<1>7. call[c].kind = "none" /\ kind # "none"
  BY <1>1 DEF NoCall, Kind
<1>8. new # NoCall
  BY <1>2, NoCallKind
<1> HIDE DEF new
<1>9. card' \in [Test -> {"idle", "running", "pass", "fail"}]
  BY <1>1 DEF Show, Kept, TypeOK
<1>10. \A t \in Test : card'[t] = IF t \in shown THEN "running" ELSE card[t]
  BY <1>1 DEF Show
<1>11. OneRunOfAll'
  <2>1. CASE kind = "all"
    <3>1. \A d \in Call : call[d].kind # "all"
      BY <2>1 DEF Kept, TypeOK
    <3> QED BY <3>1, <1>5 DEF OneRunOfAll
  <2>2. CASE kind # "all"
    BY <2>2, <1>5, <1>6 DEF Kept, OneRunOfAll
  <2> QED BY <2>1, <2>2
<1>12. RunsAll'
  BY <1>5, <1>6 DEF Kept, RunsAll
<1>13. RunningLoaded'
  BY <1>10 DEF Kept, RunningLoaded
<1>14. OutcomeTrue'
  BY <1>5, <1>6 DEF Kept, OutcomeTrue, InFlight
<1>15. CardsTellTruth'
  <2> SUFFICES ASSUME NEW t \in Test
               PROVE  /\ card'[t] = "running" =>
                           \E d \in Call : call'[d] # NoCall /\ t \in call'[d].ids
                      /\ card'[t] = "pass" => t \in accepted
    BY DEF CardsTellTruth, InFlight
  <2>1. CASE t \in shown
    BY <2>1, <1>5, <1>6, <1>8, <1>10
  <2>2. CASE t \notin shown
    <3>1. card'[t] = card[t]
      BY <2>2, <1>10
    <3>2. card[t] = "pass" => t \in accepted
      BY DEF Kept, CardsTellTruth
    <3>3. ASSUME card[t] = "running"
          PROVE  \E d \in Call : call'[d] # NoCall /\ t \in call'[d].ids
      <4>1. PICK d \in Call : call[d] # NoCall /\ t \in call[d].ids
        BY <3>3 DEF Kept, CardsTellTruth, InFlight
      <4>2. d # c
        BY <4>1, <1>1
      <4> QED BY <4>1, <4>2, <1>5
    <3> QED BY <3>1, <3>2, <3>3
  <2> QED BY <2>1, <2>2
<1>16. (\E d \in Call : call'[d].kind = "all")
          <=> (kind = "all" \/ \E d \in Call : call[d].kind = "all")
  <2>1. "none" # "all"
    OBVIOUS
  <2> QED BY <2>1, <1>5, <1>6, <1>7
<1>17. Cycling \subseteq Cycling'
  <2>1. "none" # "cycle"
    OBVIOUS
  <2> QED BY <2>1, <1>5, <1>7 DEF Cycling
<1>18. kind # "cycle" => \A d \in Call : call'[d].kind = "cycle" => call[d].kind = "cycle"
  BY <1>5, <1>6
<1> QED BY <1>4, <1>5, <1>6, <1>9, <1>11, <1>12, <1>13, <1>14, <1>15, <1>16, <1>17, <1>18

\* The end of a request keeps everything, if its own cards settle truthfully.
LEMMA EndKeeps ==
    ASSUME Kept, NEW c \in Call, InFlight(c), EndCall(c),
           card' \in [Test -> {"idle", "running", "pass", "fail"}],
           \A t \in Test :
              /\ card'[t] = "running" => card[t] = "running" /\ t \notin call[c].ids
              /\ card'[t] = "pass" => t \in accepted
    PROVE  Kept'
<1>1. call \in [Call -> Request \cup {NoCall}]
  BY DEF Kept, TypeOK
<1>2. call' = [call EXCEPT ![c] = NoCall]
  BY DEF EndCall
<1>3. call' \in [Call -> Request \cup {NoCall}]
  BY <1>1, <1>2
<1>4. call'[c] = NoCall /\ \A d \in Call \ {c} : call'[d] = call[d]
  BY <1>1, <1>2
<1>5. call'[c].kind = "none"
  BY <1>4 DEF NoCall
<1>6. UNCHANGED <<tests, selected, continuous, accepted>>
  BY DEF EndCall
<1>7. /\ timers' \subseteq Timer
      /\ continuousTimer' \in Timer \cup {NoTimer}
      /\ timers \subseteq timers'
      /\ call[c].kind = "cycle" /\ continuous => timers' # {}
  <2>1. CASE call[c].kind = "cycle" /\ continuous
    <3>1. PICK k \in Timer \ (timers \cup {continuousTimer}) :
             timers' = timers \cup {k} /\ continuousTimer' = k
      BY <2>1 DEF EndCall, ArmNext
    <3> QED BY <3>1 DEF Kept, TypeOK
  <2>2. CASE ~(call[c].kind = "cycle" /\ continuous)
    BY <2>2 DEF EndCall, ArmNext, Kept, TypeOK
  <2> QED BY <2>1, <2>2
<1>8. runAllDisabled' = (\E d \in Call : call'[d].kind = "all")
  <2>0. "none" # "all"
    OBVIOUS
  <2>1. runAllDisabled' = (runAllDisabled /\ call[c].kind # "all")
    BY DEF EndCall
  <2>2. runAllDisabled = (\E d \in Call : call[d].kind = "all")
    BY DEF Kept, TypeOK
  <2>3. CASE call[c].kind = "all"
    <3>1. \A d \in Call \ {c} : call[d].kind # "all"
      BY <2>3 DEF Kept, OneRunOfAll
    <3> QED BY <2>0, <2>1, <2>3, <3>1, <1>4, <1>5
  <2>4. CASE call[c].kind # "all"
    BY <2>0, <2>1, <2>2, <2>4, <1>4, <1>5
  <2> QED BY <2>3, <2>4
<1>9. TypeOK'
  BY <1>3, <1>6, <1>7, <1>8 DEF Kept, TypeOK
<1>10. OneRunOfAll'
  <2>1. "none" # "all"
    OBVIOUS
  <2> QED BY <2>1, <1>4, <1>5 DEF Kept, OneRunOfAll
<1>11. RunsAll'
  <2>1. "none" # "all"
    OBVIOUS
  <2> QED BY <2>1, <1>4, <1>5 DEF Kept, RunsAll
<1>12. RunningLoaded'
  BY <1>6 DEF Kept, RunningLoaded
<1>13. OutcomeTrue'
  BY <1>4, <1>6 DEF Kept, OutcomeTrue, InFlight
<1>14. CardsTellTruth'
  <2> SUFFICES ASSUME NEW t \in Test
               PROVE  /\ card'[t] = "running" =>
                           \E d \in Call : call'[d] # NoCall /\ t \in call'[d].ids
                      /\ card'[t] = "pass" => t \in accepted'
    BY DEF CardsTellTruth, InFlight
  <2>1. ASSUME card'[t] = "running"
        PROVE  \E d \in Call : call'[d] # NoCall /\ t \in call'[d].ids
    <3>1. card[t] = "running" /\ t \notin call[c].ids
      BY <2>1
    <3>2. PICK d \in Call : call[d] # NoCall /\ t \in call[d].ids
      BY <3>1 DEF Kept, CardsTellTruth, InFlight
    <3> QED BY <3>1, <3>2, <1>4
  <2> QED BY <2>1, <1>6
<1>15. ContinuousLives'
  <2> SUFFICES ASSUME continuous', Cycling' = {}
               PROVE  timers' # {}
    BY DEF ContinuousLives
  <2>1. CASE call[c].kind = "cycle"
    BY <2>1, <1>6, <1>7
  <2>2. CASE call[c].kind # "cycle"
    <3>1. Cycling \subseteq Cycling'
      BY <2>2, <1>4 DEF Cycling
    <3>2. timers # {}
      BY <3>1, <1>6 DEF Kept, ContinuousLives
    <3> QED BY <3>2, <1>7
  <2> QED BY <2>1, <2>2
<1> QED BY <1>9, <1>10, <1>11, <1>12, <1>13, <1>14, <1>15 DEF Kept

\* What a click on "run" or a new cycle leaves true, whatever else it changes.
LEMMA SendStep ==
    ASSUME NEW kind \in Kind, NEW ids \in SUBSET Test, NEW shown \in SUBSET ids,
           Kept, Send(kind, ids, shown), shown \subseteq tests,
           kind = "all" => ids = Test /\ ~runAllDisabled,
           UNCHANGED <<tests, selected, accepted>>,
           continuous' \in BOOLEAN, timers' \subseteq Timer,
           continuousTimer' \in Timer \cup {NoTimer},
           runAllDisabled' = (runAllDisabled \/ kind = "all"),
           kind = "cycle" \/ (timers \subseteq timers' /\ continuous' = continuous)
    PROVE  Kept'
<1>1. /\ call' \in [Call -> Request \cup {NoCall}]
      /\ card' \in [Test -> {"idle", "running", "pass", "fail"}]
      /\ OneRunOfAll' /\ RunsAll' /\ RunningLoaded' /\ OutcomeTrue' /\ CardsTellTruth'
      /\ \E c \in Call : call'[c].kind = kind
      /\ (\E c \in Call : call'[c].kind = "all")
            <=> (kind = "all" \/ \E c \in Call : call[c].kind = "all")
      /\ Cycling \subseteq Cycling'
  BY SendKeeps
<1>2. runAllDisabled = (\E c \in Call : call[c].kind = "all")
  BY DEF Kept, TypeOK
<1>3. runAllDisabled' = (\E c \in Call : call'[c].kind = "all")
  BY <1>1, <1>2
<1>4. TypeOK'
  BY <1>1, <1>3 DEF Kept, TypeOK
<1>5. ContinuousLives'
  <2>1. CASE kind = "cycle"
    BY <2>1, <1>1 DEF ContinuousLives, Cycling
  <2>2. CASE kind # "cycle"
    BY <2>2, <1>1 DEF Kept, ContinuousLives
  <2> QED BY <2>1, <2>2
<1> QED BY <1>1, <1>4, <1>5 DEF Kept

\* Where no request begins or ends: clicks on the selection, a stop.
LEMMA PageStep ==
    ASSUME Kept, UNCHANGED <<card, call, runAllDisabled, accepted>>,
           tests' \in {{}, Test}, tests \subseteq tests', selected' \subseteq tests',
           continuous' \in BOOLEAN, timers' \subseteq Timer,
           continuousTimer' \in Timer \cup {NoTimer},
           continuous' => continuous /\ timers' = timers
    PROVE  Kept'
<1>1. TypeOK'
  BY DEF Kept, TypeOK
<1>2. OneRunOfAll' /\ RunsAll'
  BY DEF Kept, OneRunOfAll, RunsAll
<1>3. RunningLoaded'
  BY DEF Kept, RunningLoaded
<1>4. OutcomeTrue' /\ CardsTellTruth'
  BY DEF Kept, OutcomeTrue, CardsTellTruth, InFlight
<1>5. ContinuousLives'
  BY DEF Kept, ContinuousLives, Cycling
<1> QED BY <1>1, <1>2, <1>3, <1>4, <1>5 DEF Kept

LEMMA InitKept == Init => Kept
<1> SUFFICES ASSUME Init PROVE Kept
  OBVIOUS
<1>1. \A c \in Call : call[c] = NoCall /\ call[c].kind = "none"
  BY DEF Init, NoCall
<1>2. \A t \in Test : card[t] = "idle"
  BY DEF Init
<1>3. TypeOK
  <2>1. call \in [Call -> Request \cup {NoCall}] /\ runAllDisabled = (\E c \in Call : call[c].kind = "all")
    BY <1>1 DEF Init
  <2> QED BY <2>1 DEF Init, TypeOK
<1>4. OneRunOfAll /\ RunsAll
  BY <1>1 DEF OneRunOfAll, RunsAll
<1>5. RunningLoaded /\ OutcomeTrue /\ CardsTellTruth
  BY <1>1, <1>2 DEF RunningLoaded, OutcomeTrue, CardsTellTruth, InFlight
<1>6. ContinuousLives
  BY DEF Init, ContinuousLives
<1> QED BY <1>3, <1>4, <1>5, <1>6 DEF Kept

LEMMA SettleKeeps ==
    ASSUME Kept, NEW c \in Call, NEW t \in Test, SettleTest(c, t)
    PROVE  Kept'
<1>1. PICK o \in {"ok", "bad"} : /\ call' = [call EXCEPT ![c].out[t] = o]
                                 /\ o = "ok" => accepted' = accepted \cup {t}
                                 /\ o = "bad" => accepted' = accepted
  BY DEF SettleTest
<1>2. call[c] \in Request /\ InFlight(c)
  BY DEF SettleTest, InFlight, Kept, TypeOK
<1> DEFINE new == [call[c] EXCEPT !.out[t] = o]
<1>3. /\ new \in Request
      /\ new.kind = call[c].kind /\ new.ids = call[c].ids
      /\ \A u \in Test : new.out[u] = IF u = t THEN o ELSE call[c].out[u]
  BY <1>2 DEF Request, Outcome
<1>4. call' = [call EXCEPT ![c] = new]
  BY <1>1
<1> HIDE DEF new
<1>5. call' \in [Call -> Request \cup {NoCall}]
  BY <1>3, <1>4 DEF Kept, TypeOK
<1>6. call'[c] = new /\ \A d \in Call \ {c} : call'[d] = call[d]
  BY <1>4 DEF Kept, TypeOK
<1>7. \A d \in Call : /\ call'[d].kind = call[d].kind
                      /\ call'[d].ids = call[d].ids
                      /\ call'[d] # NoCall <=> call[d] # NoCall
  BY <1>2, <1>3, <1>6, NoCallKind DEF InFlight
<1>8. UNCHANGED <<pageVars, card>> /\ accepted \subseteq accepted' /\ accepted' \subseteq Test
  BY <1>1 DEF SettleTest, Kept, TypeOK
<1>9. TypeOK'
  <2>1. runAllDisabled' = (\E d \in Call : call'[d].kind = "all")
    BY <1>7, <1>8 DEF Kept, TypeOK, pageVars
  <2> QED BY <2>1, <1>5, <1>8 DEF Kept, TypeOK, pageVars, loopVars
<1>10. OneRunOfAll' /\ RunsAll'
  BY <1>7 DEF Kept, OneRunOfAll, RunsAll
<1>11. RunningLoaded'
  BY <1>8 DEF Kept, RunningLoaded, pageVars
<1>12. OutcomeTrue'
  <2> SUFFICES ASSUME NEW d \in Call, call'[d] # NoCall, NEW u \in Test,
                      call'[d].out[u] = "ok"
               PROVE  u \in accepted'
    BY DEF OutcomeTrue, InFlight
  <2>1. CASE d = c /\ u = t
    BY <2>1, <1>1, <1>3, <1>6
  <2>2. CASE ~(d = c /\ u = t)
    <3>1. call[d].out[u] = "ok" /\ call[d] # NoCall
      BY <2>2, <1>3, <1>6, <1>7
    <3> QED BY <3>1, <1>8 DEF Kept, OutcomeTrue, InFlight
  <2> QED BY <2>1, <2>2
<1>13. CardsTellTruth'
  BY <1>7, <1>8 DEF Kept, CardsTellTruth, InFlight
<1>14. ContinuousLives'
  BY <1>7, <1>8 DEF Kept, ContinuousLives, Cycling, pageVars, loopVars
<1> QED BY <1>9, <1>10, <1>11, <1>12, <1>13, <1>14 DEF Kept

LEMMA ClickKeeps == Kept /\ Click => Kept'
<1> SUFFICES ASSUME Kept, Click PROVE Kept'
  OBVIOUS
<1>0. /\ tests \in {{}, Test} /\ selected \subseteq tests /\ continuous \in BOOLEAN
      /\ timers \subseteq Timer /\ continuousTimer \in Timer \cup {NoTimer}
  BY DEF Kept, TypeOK
<1>1. {"one", "all", "selected", "cycle"} = Kind
  BY DEF Kind
<1>2. selected \in SUBSET Test /\ tests \in SUBSET Test
  BY <1>0
<1>3. CASE RunAll
  <2>1. Send("all", Test, tests) /\ ~runAllDisabled /\ runAllDisabled' = TRUE
    BY <1>3 DEF RunAll
  <2>2. UNCHANGED <<tests, selected, continuous, timers, continuousTimer, accepted>>
    BY <1>3 DEF RunAll, loopVars
  <2> QED BY <2>1, <2>2, <1>0, <1>1, <1>2, SendStep
<1>4. CASE RunSelected
  <2>1. Send("selected", selected, selected)
    BY <1>4 DEF RunSelected
  <2>2. UNCHANGED <<tests, selected, continuous, timers, continuousTimer, runAllDisabled, accepted>>
    BY <1>4 DEF RunSelected, pageVars, loopVars
  <2>3. runAllDisabled' = (runAllDisabled \/ "selected" = "all")
    BY <2>2 DEF Kept, TypeOK
  <2> QED BY <2>1, <2>2, <2>3, <1>0, <1>1, <1>2, SendStep
<1>5. CASE ClearSelection
  <2>1. selected' = {} /\ StopIfEmpty
    BY <1>5 DEF ClearSelection
  <2>2. UNCHANGED <<tests, card, runAllDisabled, call, accepted>>
    BY <1>5 DEF ClearSelection
  <2> QED BY <2>1, <2>2, <1>0, PageStep DEF StopIfEmpty, StopLoop, loopVars
<1>6. CASE StartContinuous
  <2>1. Send("cycle", selected, selected) /\ continuous' = TRUE
    BY <1>6 DEF StartContinuous
  <2>2. UNCHANGED <<tests, selected, timers, continuousTimer, runAllDisabled, accepted>>
    BY <1>6 DEF StartContinuous
  <2>3. runAllDisabled' = (runAllDisabled \/ "cycle" = "all")
    BY <2>2 DEF Kept, TypeOK
  <2> QED BY <2>1, <2>2, <2>3, <1>0, <1>1, <1>2, SendStep
<1>7. CASE StopContinuous
  BY <1>7, <1>0, PageStep DEF StopContinuous, StopLoop
<1>8. ASSUME NEW t \in Test, RunTest(t)
      PROVE  Kept'
  <2>1. Send("one", {t}, {t}) /\ t \in tests
    BY <1>8 DEF RunTest
  <2>2. UNCHANGED <<tests, selected, continuous, timers, continuousTimer, runAllDisabled, accepted>>
    BY <1>8 DEF RunTest, pageVars, loopVars
  <2>3. runAllDisabled' = (runAllDisabled \/ "one" = "all")
    BY <2>2 DEF Kept, TypeOK
  <2>4. /\ "one" \in Kind /\ "one" # "all"
        /\ {t} \in SUBSET Test /\ {t} \in SUBSET {t} /\ {t} \subseteq tests
    BY <2>1, <1>1
  <2>5. /\ continuous' \in BOOLEAN /\ timers' \subseteq Timer
        /\ continuousTimer' \in Timer \cup {NoTimer}
        /\ timers \subseteq timers' /\ continuous' = continuous
    BY <2>2, <1>0
  <2> QED BY <2>1, <2>2, <2>3, <2>4, <2>5, SendStep
<1>9. ASSUME NEW t \in Test, Tick(t)
      PROVE  Kept'
  <2>1. selected' \subseteq tests
    BY <1>9, <1>0 DEF Tick
  <2> QED BY <2>1, <1>9, <1>0, PageStep DEF Tick, loopVars
<1>10. ASSUME NEW d \in Domain, ToggleDomain(d)
       PROVE  Kept'
  <2>1. selected' \subseteq tests
    BY <1>10, <1>0 DEF ToggleDomain
  <2> QED BY <2>1, <1>10, <1>0, PageStep DEF ToggleDomain, StopIfEmpty, StopLoop, loopVars
<1> QED BY <1>3, <1>4, <1>5, <1>6, <1>7, <1>8, <1>9, <1>10 DEF Click

LEMMA EndsKeep ==
    ASSUME Kept, NEW c \in Call, Answer(c) \/ NoAnswer(c)
    PROVE  Kept'
<1>1. card \in [Test -> {"idle", "running", "pass", "fail"}]
  BY DEF Kept, TypeOK
<1>2. CASE Answer(c)
  <2>1. /\ InFlight(c) /\ EndCall(c)
        /\ \A t \in call[c].ids : call[c].out[t] # "open"
        /\ card' = [t \in Test |->
                      IF t \notin call[c].ids THEN card[t]
                      ELSE IF call[c].out[t] = "ok" THEN "pass" ELSE "fail"]
    BY <1>2 DEF Answer
  <2>2. card' \in [Test -> {"idle", "running", "pass", "fail"}]
    BY <2>1, <1>1
  <2>3. \A t \in Test : /\ card'[t] = "running" => card[t] = "running" /\ t \notin call[c].ids
                        /\ card'[t] = "pass" => t \in accepted
    BY <2>1 DEF Kept, CardsTellTruth, OutcomeTrue
  <2> QED BY <2>1, <2>2, <2>3, EndKeeps
<1>3. CASE NoAnswer(c)
  <2>1. InFlight(c) /\ EndCall(c) /\ card' = Show(FailedCards(c), "fail")
    BY <1>3 DEF NoAnswer
  <2>2. card' \in [Test -> {"idle", "running", "pass", "fail"}]
    BY <2>1, <1>1 DEF Show
  <2>3. ASSUME NEW t \in Test
        PROVE  /\ card'[t] = "running" => card[t] = "running" /\ t \notin call[c].ids
               /\ card'[t] = "pass" => t \in accepted
    <3>1. card'[t] = IF t \in FailedCards(c) THEN "fail" ELSE card[t]
      BY <2>1 DEF Show
    <3>2. card[t] = "running" => t \in tests
      BY DEF Kept, RunningLoaded
    <3>3. card[t] = "running" /\ t \notin FailedCards(c) => t \notin call[c].ids
      BY <3>2 DEF FailedCards
    <3> QED BY <3>1, <3>3 DEF Kept, CardsTellTruth
  <2> QED BY <2>1, <2>2, <2>3, EndKeeps
<1> QED BY <1>2, <1>3

LEMMA TimerKeeps ==
    ASSUME Kept, NEW k \in Timer, TimerFires(k)
    PROVE  Kept'
<1>0. /\ tests \in {{}, Test} /\ selected \subseteq tests /\ continuous \in BOOLEAN
      /\ timers \subseteq Timer /\ continuousTimer \in Timer \cup {NoTimer}
  BY DEF Kept, TypeOK
<1>1. UNCHANGED <<tests, selected, runAllDisabled, accepted>> /\ Cycle(k)
  BY DEF TimerFires
<1>2. CASE ~continuous \/ selected = {}
  BY <1>0, <1>1, <1>2, PageStep DEF Cycle
<1>3. CASE ~(~continuous \/ selected = {})
  <2>1. Send("cycle", selected, selected) /\ timers' = timers \ {k}
    BY <1>1, <1>3 DEF Cycle
  <2>2. UNCHANGED <<continuous, continuousTimer>>
    BY <1>1, <1>3 DEF Cycle
  <2>3. runAllDisabled' = (runAllDisabled \/ "cycle" = "all")
    BY <1>1 DEF Kept, TypeOK
  <2>4. "cycle" \in Kind /\ selected \in SUBSET Test
    BY <1>0 DEF Kind
  <2> QED BY <2>1, <2>2, <2>3, <2>4, <1>0, <1>1, SendStep
<1> QED BY <1>2, <1>3

LEMMA StepKeeps == Kept /\ [Next]_vars => Kept'
<1> SUFFICES ASSUME Kept, [Next]_vars PROVE Kept'
  OBVIOUS
<1>1. CASE LoadTests
  <2>1. selected \subseteq Test /\ tests \subseteq Test
    BY DEF Kept, TypeOK
  <2>2. timers \subseteq Timer /\ continuousTimer \in Timer \cup {NoTimer} /\ continuous \in BOOLEAN
    BY DEF Kept, TypeOK
  <2>3. UNCHANGED <<card, call, runAllDisabled, accepted>> /\ tests' = Test
    BY <1>1 DEF LoadTests
  <2>4. UNCHANGED <<selected, continuous, timers, continuousTimer>>
    BY <1>1 DEF LoadTests, loopVars
  <2> QED BY <2>1, <2>2, <2>3, <2>4, PageStep
<1>2. CASE Click
  BY <1>2, ClickKeeps
<1>3. ASSUME NEW c \in Call, NEW t \in Test, SettleTest(c, t) PROVE Kept'
  BY <1>3, SettleKeeps
<1>4. ASSUME NEW c \in Call, Answer(c) \/ NoAnswer(c) PROVE Kept'
  BY <1>4, EndsKeep
<1>5. ASSUME NEW k \in Timer, TimerFires(k) PROVE Kept'
  BY <1>5, TimerKeeps
<1>6. CASE UNCHANGED vars
  <2>1. /\ UNCHANGED <<tests, card, selected, continuous, timers, continuousTimer>>
        /\ UNCHANGED <<runAllDisabled, call, accepted>>
    BY <1>6 DEF vars, loopVars
  <2> QED BY <2>1 DEF Kept, TypeOK, OneRunOfAll, RunsAll, RunningLoaded, OutcomeTrue,
                      CardsTellTruth, ContinuousLives, InFlight, Cycling
<1> QED BY <1>1, <1>2, <1>3, <1>4, <1>5, <1>6 DEF Next

\* Whatever is clicked, times out or overlaps, the page's state has its types
\* and the "run all" button is off exactly while its run is awaited.
THEOREM TypeCorrect == Spec => []TypeOK
<1>1. Kept => TypeOK
  BY DEF Kept
<1> QED BY <1>1, InitKept, StepKeeps, PTL DEF Spec

\* A running card has a request that will settle it and a passed one was
\* accepted, for any overlap of runs.
THEOREM TruthfulCards == Spec => []CardsTellTruth
<1>1. Kept => CardsTellTruth
  BY DEF Kept
<1> QED BY <1>1, InitKept, StepKeeps, PTL DEF Spec

\* However many loops were started over each other, a continuous test that is
\* on has a cycle in flight or a timer armed.
THEOREM LoopSurvives == Spec => []ContinuousLives
<1>1. Kept => ContinuousLives
  BY DEF Kept
<1> QED BY <1>1, InitKept, StepKeeps, PTL DEF Spec

\* After a stop no timer, known to the page or not, starts a cycle.
THEOREM NoCycleAfterStop == Spec => StopIsFinal
<1> DEFINE Final == ~continuous /\ ~continuous' =>
                      \A c \in Call : call'[c].kind = "cycle" => call[c].kind = "cycle"
<1>1. Kept /\ [Next]_vars => [Final]_vars
  <2> SUFFICES ASSUME Kept, Next, ~continuous, ~continuous',
                      NEW c \in Call, call'[c].kind = "cycle"
               PROVE  call[c].kind = "cycle"
    OBVIOUS
  <2>0. /\ call \in [Call -> Request \cup {NoCall}]
        /\ selected \in SUBSET Test /\ selected \subseteq tests /\ tests \in SUBSET Test
    BY DEF Kept, TypeOK
  <2>1. UNCHANGED call => call[c].kind = "cycle"
    OBVIOUS
  <2>2. CASE LoadTests \/ ClearSelection \/ StopContinuous
             \/ (\E t \in Test : Tick(t)) \/ \E d \in Domain : ToggleDomain(d)
    BY <2>1, <2>2 DEF LoadTests, ClearSelection, StopContinuous, Tick, ToggleDomain
  <2>3. CASE StartContinuous
    BY <2>3 DEF StartContinuous
  <2>4. ASSUME NEW kind \in {"one", "all", "selected"}, NEW ids \in SUBSET Test,
               NEW shown \in SUBSET ids, Send(kind, ids, shown)
        PROVE  call[c].kind = "cycle"
    <3> DEFINE new == [kind |-> kind, ids |-> ids, out |-> [t \in Test |-> "open"]]
    <3>1. PICK d \in Call : call' = [call EXCEPT ![d] = new]
      BY <2>4 DEF Send
    <3>2. d # c
      <4>1. new.kind # "cycle"
        OBVIOUS
      <4>2. d = c => call'[c] = new
        BY <3>1, <2>0
      <4> QED BY <4>1, <4>2
    <3> QED BY <3>1, <3>2, <2>0
  <2>5. CASE RunAll
    BY <2>5, <2>4, <2>0 DEF RunAll
  <2>6. CASE RunSelected
    BY <2>6, <2>4, <2>0 DEF RunSelected
  <2>7. CASE \E t \in Test : RunTest(t)
    BY <2>7, <2>4, <2>0 DEF RunTest
  <2>8. ASSUME NEW d \in Call, NEW t \in Test, SettleTest(d, t)
        PROVE  call[c].kind = "cycle"
    <3>1. PICK o \in {"ok", "bad"} : call' = [call EXCEPT ![d].out[t] = o]
      BY <2>8 DEF SettleTest
    <3>2. call[d] \in Request
      BY <2>8, <2>0 DEF SettleTest, InFlight
    <3>3. call'[c].kind = call[c].kind
      BY <3>1, <3>2, <2>0 DEF Request
    <3> QED BY <3>3
  <2>9. ASSUME NEW d \in Call, Answer(d) \/ NoAnswer(d)
        PROVE  call[c].kind = "cycle"
    <3>1. call' = [call EXCEPT ![d] = NoCall]
      BY <2>9 DEF Answer, NoAnswer, EndCall
    <3>2. NoCall.kind # "cycle"
      BY DEF NoCall
    <3> QED BY <3>1, <3>2, <2>0
  <2>10. ASSUME NEW k \in Timer, TimerFires(k)
         PROVE  call[c].kind = "cycle"
    BY <2>10, <2>1 DEF TimerFires, Cycle
  <2> QED BY <2>2, <2>3, <2>5, <2>6, <2>7, <2>8, <2>9, <2>10 DEF Next, Click
<1> QED BY <1>1, InitKept, StepKeeps, PTL DEF Spec, StopIsFinal
==============================================================================
