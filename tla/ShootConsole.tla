----------------------------- MODULE ShootConsole -----------------------------
(***************************************************************************)
(* forest-api-shoot: the test console of public/app.js and the requests it *)
(* makes to src/server.js, which runs every test of a request at once      *)
(* against the integration API and answers with one outcome per test.      *)
(*                                                                         *)
(* The page is one JavaScript thread: an action is a click, a timer or the *)
(* end of a request, with every render it makes.  Renders decide which     *)
(* buttons work: "run selected" and the conditions are disabled by         *)
(* renderSelection alone, because the render inside runSelected undoes     *)
(* their own `disabled = true`; only "run all" stays off while it runs.    *)
(* Payloads, filters, wording and the cycle counter are left out, and so   *)
(* is the fleet pulse that follows a run of all: it delays the answer.     *)
(***************************************************************************)
EXTENDS FiniteSets, Naturals

CONSTANTS
    Test,      \* ids of the catalogue, all with a result mode
    Invocable, \* those that have an invoke mode as well
    Domain,    \* the tests of each domain, for its select-all button
    Call,      \* requests of the page in flight at once
    Timer,     \* ids of setTimeout
    NoTimer,   \* null, where a handle is kept
    MaxLoops   \* bound: continuous loops alive when another is started

ASSUME CatalogAssumption == Invocable \subseteq Test /\ Domain \subseteq SUBSET Test
ASSUME MaxLoopsAssumption == MaxLoops \in Nat

VARIABLES
    tests,           \* state.tests: empty until the catalogue is loaded
    card,            \* state.results: what each card shows
    selected, continuous,
    timers,          \* timers that are armed
    continuousTimer, \* the handle kept of the last one, or NoTimer
    runAllDisabled,  \* runAllBtn.disabled
    call,            \* each request in flight: what it runs, outcomes so far
    accepted         \* tests whose data the API has ever accepted (history)

loopVars == <<continuous, timers, continuousTimer>>
pageVars == <<tests, selected, loopVars, runAllDisabled>>
vars == <<tests, card, selected, loopVars, runAllDisabled, call, accepted>>

Kind == {"one", "all", "selected", "cycle"}
Outcome == {"open", "ok", "bad"}
NoCall == [kind |-> "none"]
Request == [kind : Kind, ids : SUBSET Test, out : [Test -> Outcome]]
InFlight(c) == call[c] # NoCall
Cycling == {c \in Call : call[c].kind = "cycle"}
Loops == Cardinality(timers) + Cardinality(Cycling)

Init ==
    /\ tests = {} /\ selected = {} /\ accepted = {}
    /\ card = [t \in Test |-> "idle"]
    /\ continuous = FALSE /\ timers = {} /\ continuousTimer = NoTimer
    /\ runAllDisabled = FALSE
    /\ call = [c \in Call |-> NoCall]

------------------------------------------------------------------------------
(* Requests                                                                 *)

Show(ids, what) == [t \in Test |-> IF t \in ids THEN what ELSE card[t]]

\* A request of the page: the cards it runs turn to "running" at once.  The
\* server puts the tests of `ids` to work together.
Send(kind, ids, shown) ==
    \E c \in Call :
        /\ call[c] = NoCall
        /\ call' = [call EXCEPT ![c] = [kind |-> kind, ids |-> ids,
                                        out |-> [t \in Test |-> "open"]]]
        /\ card' = Show(shown, "running")

\* renderSelection: what the buttons over the grid allow.
MayRunSelected == selected # {} /\ ~continuous
MayToggleContinuous == selected # {}

\* refresh, every 5 s and after a new key: it may load the catalogue.
LoadTests ==
    /\ tests = {}
    /\ tests' = Test
    /\ UNCHANGED <<card, selected, loopVars, runAllDisabled, call, accepted>>

\* runTest: the button invokes one capability.
RunTest(t) ==
    /\ t \in tests \cap Invocable
    /\ Send("one", {t}, {t})
    /\ UNCHANGED <<pageVars, accepted>>

\* runAll: the server runs its whole catalogue.
RunAll ==
    /\ ~runAllDisabled
    /\ runAllDisabled' = TRUE
    /\ Send("all", Test, tests)
    /\ UNCHANGED <<tests, selected, loopVars, accepted>>

\* runSelected, from its own button or from one of the conditions.
RunSelected ==
    /\ MayRunSelected
    /\ Send("selected", selected, selected)
    /\ UNCHANGED <<pageVars, accepted>>

\* ServerApi.testIntegration: 200 within 5 s, or anything else.
SettleTest(c, t) ==
    /\ InFlight(c) /\ t \in call[c].ids /\ call[c].out[t] = "open"
    /\ \/ /\ call' = [call EXCEPT ![c].out[t] = "ok"]
          /\ accepted' = accepted \cup {t}
       \/ /\ call' = [call EXCEPT ![c].out[t] = "bad"]
          /\ UNCHANGED accepted
    /\ UNCHANGED <<pageVars, card>>

\* What follows the await of a request, whether it succeeded or not: finally
\* in runAll; continuousCycle arms its next timer.
ArmNextIfPassed(c) ==                           \* mutant
    IF call[c].kind = "cycle" /\ continuous /\ \A t \in call[c].ids : call[c].out[t] = "ok"
    THEN \E k \in Timer \ (timers \cup {continuousTimer}) :
            timers' = timers \cup {k} /\ continuousTimer' = k
    ELSE UNCHANGED <<timers, continuousTimer>>
ArmNext(c) ==
    IF call[c].kind = "cycle" /\ continuous
    THEN \E k \in Timer \ (timers \cup {continuousTimer}) :
            timers' = timers \cup {k} /\ continuousTimer' = k
    ELSE UNCHANGED <<timers, continuousTimer>>

EndCall(c) ==
    /\ runAllDisabled' = (runAllDisabled /\ call[c].kind # "all")
    /\ ArmNext(c)
    /\ call' = [call EXCEPT ![c] = NoCall]
    /\ UNCHANGED <<tests, selected, continuous, accepted>>

\* All tests have settled (Promise.allSettled), and the answer arrives.  What
\* the server still does for a request the page gave up has no effect on it.
Answer(c) ==
    /\ InFlight(c) /\ \A t \in call[c].ids : call[c].out[t] # "open"
    /\ card' = [t \in Test |->
                  IF t \notin call[c].ids THEN card[t]
                  ELSE IF call[c].out[t] = "ok" THEN "pass" ELSE "fail"]
    /\ EndCall(c)

\* The request ends without an answer: the page gives up after 5.5 s, the
\* server refuses the key or the body, or it cannot be reached.
FailedCardsNow(c) == IF call[c].kind = "all" THEN tests ELSE call[c].ids \cap selected  \* mutant
FailedCards(c) == IF call[c].kind = "all" THEN tests ELSE call[c].ids
NoAnswer(c) ==
    /\ InFlight(c)
    /\ card' = Show(FailedCards(c), "fail")
    /\ EndCall(c)

------------------------------------------------------------------------------
(* The selection and the continuous test                                    *)

\* stopContinuous clears the one handle it knows.
StopLoop ==
    /\ continuous' = FALSE
    /\ timers' = timers \ {continuousTimer}
    /\ continuousTimer' = NoTimer

StopIfEmpty == IF selected' = {} /\ continuous THEN StopLoop ELSE UNCHANGED loopVars

\* A checkbox: deselecting the last test does not stop a continuous test.
Tick(t) ==
    /\ t \in tests
    /\ selected' = IF t \in selected THEN selected \ {t} ELSE selected \cup {t}
    /\ UNCHANGED <<tests, card, loopVars, runAllDisabled, call, accepted>>

\* The select-all button of a domain.
ToggleDomain(d) ==
    /\ d \subseteq tests
    /\ selected' = IF d \subseteq selected THEN selected \ d ELSE selected \cup d
    /\ StopIfEmpty
    /\ UNCHANGED <<tests, card, runAllDisabled, call, accepted>>

ClearSelection ==
    /\ selected' = {}
    /\ StopIfEmpty
    /\ UNCHANGED <<tests, card, runAllDisabled, call, accepted>>

\* toggleContinuous
StartContinuous ==
    /\ MayToggleContinuous /\ ~continuous
    /\ Loops < MaxLoops
    /\ continuous' = TRUE
    /\ Send("cycle", selected, selected)
    /\ UNCHANGED <<tests, selected, timers, continuousTimer, runAllDisabled, accepted>>

StopContinuous ==
    /\ MayToggleContinuous /\ continuous
    /\ StopLoop
    /\ UNCHANGED <<tests, card, selected, runAllDisabled, call, accepted>>

\* continuousCycle, called by a timer.
CycleUnchecked(k) ==                            \* mutant: trusts clearTimeout
    /\ timers' = timers \ {k}
    /\ IF selected = {}
       THEN /\ continuous' = FALSE /\ continuousTimer' = NoTimer
            /\ UNCHANGED <<card, call>>
       ELSE /\ Send("cycle", selected, selected)
            /\ UNCHANGED <<continuous, continuousTimer>>
CycleOnEmpty(k) ==                              \* mutant: goes round idly
    IF ~continuous
    THEN /\ continuous' = FALSE /\ continuousTimer' = NoTimer
         /\ timers' = timers \ {k, continuousTimer}
         /\ UNCHANGED <<card, call>>
    ELSE IF selected = {} THEN UNCHANGED <<loopVars, card, call>>
    ELSE /\ timers' = timers \ {k}
         /\ Send("cycle", selected, selected)
         /\ UNCHANGED <<continuous, continuousTimer>>
Cycle(k) ==
    IF ~continuous \/ selected = {}
    THEN /\ continuous' = FALSE /\ continuousTimer' = NoTimer
         /\ timers' = timers \ {k, continuousTimer}
         /\ UNCHANGED <<card, call>>
    ELSE /\ timers' = timers \ {k}
         /\ Send("cycle", selected, selected)
         /\ UNCHANGED <<continuous, continuousTimer>>

TimerFires(k) ==
    /\ k \in timers
    /\ Cycle(k)
    /\ UNCHANGED <<tests, selected, runAllDisabled, accepted>>

------------------------------------------------------------------------------
Click ==
    \/ RunAll \/ RunSelected \/ ClearSelection \/ StartContinuous \/ StopContinuous
    \/ \E t \in Test : RunTest(t) \/ Tick(t)
    \/ \E d \in Domain : ToggleDomain(d)

Next ==
    \/ LoadTests \/ Click
    \/ \E c \in Call : (\E t \in Test : SettleTest(c, t)) \/ Answer(c) \/ NoAnswer(c)
    \/ \E k \in Timer : TimerFires(k)

\* Every request ends, at the latest when AbortSignal.timeout fires, and every
\* timer that is not cleared fires.
Fairness ==
    /\ \A c \in Call : WF_vars(Answer(c) \/ NoAnswer(c))
    /\ \A k \in Timer : WF_vars(TimerFires(k))

Spec == Init /\ [][Next]_vars /\ Fairness

------------------------------------------------------------------------------
(* Properties                                                               *)

\* Types; and the "run all" button is off exactly while its run is awaited.
TypeOK ==
    /\ tests \in {{}, Test}
    /\ card \in [Test -> {"idle", "running", "pass", "fail"}]
    /\ selected \subseteq tests
    /\ continuous \in BOOLEAN
    /\ timers \subseteq Timer
    /\ continuousTimer \in Timer \cup {NoTimer}
    /\ call \in [Call -> Request \cup {NoCall}]
    /\ runAllDisabled = (\E c \in Call : call[c].kind = "all")
    /\ accepted \subseteq Test

\* No card says more than happened, however runs of the same tests overlap
\* and whatever is selected meanwhile: a card that runs has a request in
\* flight that will settle it, one that passed has been accepted by the API.
CardsTellTruth ==
    \A t \in Test :
        /\ card[t] = "running" => \E c \in Call : InFlight(c) /\ t \in call[c].ids
        /\ card[t] = "pass" => t \in accepted

\* A continuous test never dies silently: while the page says it is on, a
\* cycle is in flight or a timer is armed, also after failed cycles and after
\* loops were stopped and started over each other.
ContinuousLives == continuous => timers # {} \/ Cycling # {}

\* Once the operator has stopped the continuous test no cycle starts, not
\* even from a timer whose handle a second loop has overwritten.
StopIsFinal ==
    [][~continuous /\ ~continuous' =>
         \A c \in Call : call'[c].kind = "cycle" => call[c].kind = "cycle"]_vars

\* A continuous test with nothing left to run ends by itself: its button is
\* disabled then, so the operator could not end it.
EmptyTestEnds == continuous /\ selected = {} ~> ~continuous \/ selected # {}
==============================================================================
