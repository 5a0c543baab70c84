-------------------------- MODULE GenerationProofs --------------------------
(* Proofs about Generation for any policy, any number of attempts and any  *)
(* clock: no more generations than the rates allow, at no more than the    *)
(* limits, one probe of a half-open circuit, and a configuration failure   *)
(* that only a restart clears.                                             *)
EXTENDS Generation, FiniteSetTheorems, NaturalsInduction, WellFoundedInduction, TLAPS

-----------------------------------------------------------------------------
(* The inductive invariant                                                 *)

(* A call has read a clock that has passed, no longer ago than it may last. *)
Timely ==
  \A a \in Attempts : /\ read[a] <= now
                      /\ Live(a) => now - read[a] <= CallLimit

(* While a circuit cools down, what was admitted before it opened read the  *)
(* clock a cooldown before the probe may.                                  *)
Cooling ==
  circuit.state = "open" /\ ~circuit.indefinite =>
    \A a \in Attempts : Past(a) => read[a] + FailureWindow <= circuit.retry

(* Half-open means that one call is the probe, and unless a write failed   *)
(* that it is still there.                                                 *)
Probing ==
  circuit.state = "half_open" =>
    /\ \A a, b \in Attempts : Past(a) /\ Past(b) => a = b
    /\ faults = 0 => \E a \in Attempts : Past(a)

(* The rates, of all attempts that count: also those not sent yet.         *)
DayWindow(t) == {a \in Attempts : Counted(a) /\ t <= read[a] /\ read[a] <= t + Day}
MemberWindow(m, t) ==
  {a \in Attempts : Counted(a) /\ caller[a] = m /\ t <= read[a] /\ read[a] <= t + DirectWindow}
Rates ==
  \A t \in 0..MaxClock : /\ Cardinality(DayWindow(t)) <= DayCalls
                         /\ \A m \in Members : Cardinality(MemberWindow(m, t)) <= DirectCalls

(* The limits, for what all attempts that count are charged.               *)
MonthWindow(t) ==
  {a \in Attempts : Counted(a) /\ MonthStart(t) <= read[a] /\ read[a] <= MonthStart(t) + Month - 1}
Costs ==
  \A t \in 0..MaxClock : /\ SumFunctionOnSet(charge, DayWindow(t)) <= DayLimit
                         /\ SumFunctionOnSet(charge, MonthWindow(t)) <= MonthLimit

(* The provider takes nothing for what was not sent, and no more than the  *)
(* row says for what was; until it is answered that is the reservation.    *)
Priced ==
  \A a \in Attempts :
    /\ at[a] = "begun" => row[a] = "none"
    /\ row[a] \in {"none", "reserved", "cancelled"} => billed[a] = 0
    /\ row[a] \in {"reserved", "submitted"} => charge[a] = Reservation[caller[a]]
    /\ row[a] \in {"submitted", "succeeded", "failed", "unknown"} => billed[a] <= charge[a]

(* An attempt that is not sent yet is reserved.                            *)
Unsent == \A a \in Attempts : at[a] \in {"reserved", "admitted"} => row[a] = "reserved"

GInv == TypeOK /\ Timely /\ Unsent /\ Cooling /\ Probing /\ Rates /\ Priced /\ Costs

-----------------------------------------------------------------------------
(* What the circuit's transactions do                                      *)

Fields == [state: {"closed", "open", "half_open"}, failures: 0..FailureThreshold,
           first: Nat \cup {NoTime}, retry: Nat \cup {NoTime}, indefinite: BOOLEAN]

LEMMA RowFields ==
  ASSUME NEW c \in CircuitRow
  PROVE  /\ c \in Fields
         /\ c.indefinite = TRUE => c.state = "open" /\ c.retry = NoTime
         /\ c.retry = NoTime => c.state = "closed" \/ c.indefinite = TRUE
BY DEF CircuitRow, Fields

LEMMA OpenRows ==
  ASSUME NEW c \in Fields, c.state = "open", c.indefinite = TRUE <=> c.retry = NoTime
  PROVE  c \in CircuitRow
BY DEF CircuitRow, Fields

LEMMA AdmittedCircuit ==
  ASSUME CircuitAssumption, NEW c \in CircuitRow, NEW t \in Nat, Admits(c, t)
  PROVE  /\ Admitted(c, t) \in CircuitRow
         /\ c.indefinite => Admitted(c, t).indefinite
         /\ \/ c.state = "closed" /\ Admitted(c, t) = c
            \/ /\ c.state = "open" /\ ~c.indefinite /\ c.retry <= t
               /\ Admitted(c, t).state = "half_open"
BY DEF CircuitAssumption, CircuitRow, Admits, Admitted, MayProbe, NoTime

LEMMA SucceededCircuit ==
  ASSUME CircuitAssumption, NEW c \in CircuitRow
  PROVE  /\ Succeeded(c) \in CircuitRow
         /\ Succeeded(c).state # "half_open"
         /\ Succeeded(c).state = "open" => Succeeded(c) = c
         /\ c.indefinite => Succeeded(c).indefinite
BY DEF CircuitAssumption, CircuitRow, Succeeded, Closed, NoTime

LEMMA ReleasedCircuit ==
  ASSUME CircuitAssumption, NEW c \in CircuitRow, NEW t \in Nat
  PROVE  /\ Released(c, t) \in CircuitRow
         /\ Released(c, t).state # "half_open"
         /\ c.state # "half_open" => Released(c, t) = c
         /\ c.indefinite => Released(c, t).indefinite
<1>1. CASE c.state = "half_open"
  <2>1. Released(c, t) = [c EXCEPT !.state = "open", !.retry = t, !.indefinite = FALSE]
    BY <1>1 DEF Released
  <2>2. c \in Fields /\ c.indefinite = FALSE
    BY <1>1, RowFields DEF Fields
  <2>3. Released(c, t) \in Fields /\ Released(c, t).state = "open"
        /\ Released(c, t).retry = t /\ Released(c, t).indefinite = FALSE
    BY <2>1, <2>2 DEF Fields
  <2>4. t # NoTime
    BY DEF NoTime
  <2> QED
    BY <1>1, <2>2, <2>3, <2>4, OpenRows
<1>2. CASE c.state # "half_open"
  BY <1>2 DEF Released, CircuitRow
<1> QED
  BY <1>1, <1>2

LEMMA RestartedCircuit ==
  ASSUME CircuitAssumption, NEW c \in CircuitRow, NEW t \in Nat
  PROVE  Restarted(c, t) \in CircuitRow /\ Restarted(c, t).state # "half_open"
BY ReleasedCircuit DEF CircuitAssumption, CircuitRow, Restarted, Closed, NoTime

LEMMA FailuresCounted ==
  ASSUME CircuitAssumption, NEW c \in CircuitRow, NEW t \in Nat
  PROVE  Failures(c, t) \in 0..FailureThreshold
BY DEF CircuitAssumption, CircuitRow, Failures, Fresh, NoTime

LEMMA FailedCircuit ==
  ASSUME CircuitAssumption, NEW c \in CircuitRow, NEW authentication \in BOOLEAN, NEW t \in Nat
  PROVE  LET d == Failed(c, authentication, t) IN
         /\ d \in CircuitRow /\ d.state # "half_open"
         /\ d.state = "open" /\ ~d.indefinite => d = c \/ d.retry = t + FailureWindow
         /\ c.indefinite => d.indefinite
<1> DEFINE n == Failures(c, t)
           first == IF Fresh(c, t) THEN t ELSE c.first
           counted == [c EXCEPT !.failures = n, !.first = first]
           opens == authentication \/ c.state = "half_open" \/ n >= FailureThreshold
           open == [counted EXCEPT !.state = "open", !.indefinite = authentication,
                      !.retry = IF authentication THEN NoTime ELSE t + FailureWindow]
           d == Failed(c, authentication, t)
<1>1. n \in 0..FailureThreshold /\ first \in Nat \cup {NoTime}
  BY FailuresCounted DEF CircuitRow
<1>2. CASE ~opens /\ c.state = "closed"
  <2>1. d = counted
    BY <1>2 DEF Failed
  <2> HIDE DEF n, first
  <2> QED
    BY <1>1, <1>2, <2>1 DEF CircuitRow
<1>3. CASE ~opens /\ c.state # "closed"
  <2>1. d = c /\ c.state = "open"
    BY <1>3 DEF Failed, CircuitRow
  <2> QED
    BY <2>1
<1>4. CASE opens /\ c.indefinite
  <2>1. d = c /\ c.state = "open"
    BY <1>4 DEF Failed, CircuitRow
  <2> QED
    BY <2>1
<1>5. CASE opens /\ ~c.indefinite
  <2>1. d = open
    BY <1>5 DEF Failed
  <2>2. c \in Fields /\ t + FailureWindow \in Nat
    <3>1. c \in Fields
      BY RowFields
    <3>2. t + FailureWindow \in Nat
      BY DEF CircuitAssumption
    <3> QED
      BY <3>1, <3>2
  <2> HIDE DEF n, first
  <2>3. d \in Fields /\ d.state = "open" /\ d.indefinite = authentication
        /\ d.retry = IF authentication THEN NoTime ELSE t + FailureWindow
    <3>1. counted \in Fields
      BY <1>1, <2>2 DEF Fields
    <3>2. (IF authentication THEN NoTime ELSE t + FailureWindow) \in Nat \cup {NoTime}
      BY <2>2
    <3> HIDE DEF counted
    <3> QED
      BY <2>1, <3>1, <3>2 DEF Fields
  <2>4. t + FailureWindow # NoTime
    BY <2>2 DEF NoTime
  <2> QED
    BY <1>5, <2>3, <2>4, OpenRows
<1> QED
  BY <1>2, <1>3, <1>4, <1>5 DEF CircuitRow

(* What a call reports leaves the circuit open or closed.                  *)
LEMMA ReportedCircuit ==
  ASSUME CircuitAssumption, TypeOK, NEW a \in Attempts, Report(a)
  PROVE  /\ circuit' \in CircuitRow /\ circuit'.state # "half_open"
         /\ circuit'.state = "open" /\ ~circuit'.indefinite =>
              \/ circuit' = circuit \/ circuit'.retry = now + FailureWindow
              \/ circuit.state = "half_open"
         /\ circuit.indefinite => circuit'.indefinite
<1>1. circuit \in CircuitRow /\ now \in Nat
  BY DEF TypeOK
<1>2. CASE at[a] = "succeeded"
  <2>1. circuit' = Succeeded(circuit)
    BY <1>2 DEF Report
  <2> QED
    BY <1>1, <2>1, SucceededCircuit
<1>3. CASE at[a] = "release"
  <2>1. circuit' = Released(circuit, now)
    BY <1>3 DEF Report
  <2> QED
    BY <1>1, <2>1, ReleasedCircuit
<1>4. CASE at[a] \notin {"succeeded", "release"}
  <2>1. circuit' = Failed(circuit, at[a] = "authentication", now)
    BY <1>4 DEF Report
  <2>2. (at[a] = "authentication") \in BOOLEAN
    OBVIOUS
  <2> QED
    BY <1>1, <2>1, <2>2, FailedCircuit
<1> QED
  BY <1>2, <1>3, <1>4

-----------------------------------------------------------------------------
(* Types                                                                   *)

LEMMA TypesKept ==
  ASSUME GenerationAssumption, CircuitAssumption, TypeOK, [Next]_vars
  PROVE  TypeOK'
<1>1. CASE UNCHANGED vars
  BY <1>1 DEF TypeOK, vars
<1>2. ASSUME NEW a \in Attempts, NEW m \in Requesters, Begin(a, m)
      PROVE  TypeOK'
  BY <1>2 DEF Begin, TypeOK, GenerationAssumption, Places
<1>3. ASSUME NEW a \in Attempts, Reserve(a)
      PROVE  TypeOK'
  <2>1. Reservation[caller[a]] \in Nat
    BY DEF TypeOK, GenerationAssumption
  <2> QED
    BY <1>3, <2>1 DEF Reserve, TypeOK, Places
<1>4. ASSUME NEW a \in Attempts, Refuse(a)
      PROVE  TypeOK'
  BY <1>4 DEF Refuse, TypeOK, Places
<1>5. ASSUME NEW a \in Attempts, Admit(a)
      PROVE  TypeOK'
  <2>1. circuit' \in CircuitRow
    BY <1>5, AdmittedCircuit DEF Admit, TypeOK
  <2> QED
    BY <1>5, <2>1 DEF Admit, TypeOK, Places
<1>6. ASSUME NEW a \in Attempts, CircuitOpen(a)
      PROVE  TypeOK'
  BY <1>6 DEF CircuitOpen, TypeOK, Places
<1>7. ASSUME NEW a \in Attempts, Send(a)
      PROVE  TypeOK'
  <2>1. Reservation[caller[a]] \in Nat
    BY DEF TypeOK, GenerationAssumption
  <2>2. PICK b \in 1..Reservation[caller[a]] : billed' = [billed EXCEPT ![a] = b]
    BY <1>7 DEF Send
  <2>3. b \in Nat /\ b <= Reservation[caller[a]]
    BY <2>1
  <2> QED
    BY <1>7, <2>1, <2>2, <2>3 DEF Send, TypeOK, Places
<1>8. ASSUME NEW a \in Attempts, ReleaseUnsent(a)
      PROVE  TypeOK'
  BY <1>8 DEF ReleaseUnsent, TypeOK, Places, Reports
<1>9. ASSUME NEW a \in Attempts, Complete(a)
      PROVE  TypeOK'
  <2>1. Reservation[caller[a]] \in Nat
    BY DEF TypeOK, GenerationAssumption
  <2>2. PICK u \in {billed[a], Reservation[caller[a]]} : charge' = [charge EXCEPT ![a] = u]
    BY <1>9 DEF Complete
  <2>3. billed[a] \in Nat /\ billed[a] <= Reservation[caller[a]]
    BY DEF TypeOK
  <2>4. u \in Nat /\ u <= Reservation[caller[a]]
    BY <2>1, <2>2, <2>3
  <2> QED
    BY <1>9, <2>1, <2>2, <2>4 DEF Complete, TypeOK, Places, Reports
<1>10. ASSUME NEW a \in Attempts, Fail(a)
       PROVE  TypeOK'
  BY <1>10 DEF Fail, TypeOK, Places, Reports
<1>11. ASSUME NEW a \in Attempts, Report(a)
       PROVE  TypeOK'
  <2>1. circuit' \in CircuitRow
    BY <1>11, ReportedCircuit
  <2> QED
    BY <1>11, <2>1 DEF Report, TypeOK, Places
<1>12. ASSUME NEW a \in Attempts, WriteFails(a)
       PROVE  TypeOK'
  BY <1>12 DEF WriteFails, TypeOK, Places, Reports, GenerationAssumption
<1>13. CASE Restart
  <2>1. circuit' \in CircuitRow
    BY <1>13, RestartedCircuit DEF Restart, TypeOK
  <2> QED
    BY <1>13, <2>1 DEF Restart, TypeOK, Places, Recovered
<1>14. CASE Tick
  BY <1>14 DEF Tick, TypeOK, GenerationAssumption
<1> QED
  BY <1>1, <1>2, <1>3, <1>4, <1>5, <1>6, <1>7, <1>8, <1>9, <1>10, <1>11, <1>12,
     <1>13, <1>14 DEF Next, Step

LEMMA UnsentKept ==
  ASSUME TypeOK, Unsent, [Next]_vars
  PROVE  Unsent'
<1>1. CASE UNCHANGED vars
  BY <1>1 DEF Unsent, vars
<1>2. ASSUME NEW a \in Attempts, NEW m \in Requesters, Begin(a, m)
      PROVE  Unsent'
  BY <1>2 DEF Begin, TypeOK, Unsent
<1>3. ASSUME NEW a \in Attempts, Step(a)
      PROVE  Unsent'
  <2>1. CASE Reserve(a) \/ Refuse(a) \/ Admit(a) \/ CircuitOpen(a)
    BY <2>1 DEF TypeOK, Unsent, Reserve, Refuse, Admit, CircuitOpen
  <2>2. CASE Send(a) \/ ReleaseUnsent(a) \/ Complete(a) \/ Fail(a)
    BY <2>2 DEF TypeOK, Unsent, Send, ReleaseUnsent, Complete, Fail, Reports
  <2>3. CASE Report(a) \/ WriteFails(a)
    BY <2>3 DEF TypeOK, Unsent, Report, WriteFails
  <2> QED
    BY <1>3, <2>1, <2>2, <2>3 DEF Step
<1>4. CASE Restart \/ Tick
  BY <1>4 DEF Restart, Tick, Unsent
<1> QED
  BY <1>1, <1>2, <1>3, <1>4 DEF Next

-----------------------------------------------------------------------------
(* The clock readings of calls                                             *)

(* A call that goes on keeps its reading.                                  *)
LEMMA ReadingsKept ==
  ASSUME TypeOK, NEW a \in Attempts, Step(a)
  PROVE  /\ UNCHANGED <<now, read, caller>>
         /\ \A b \in Attempts \ {a} : at'[b] = at[b]
         /\ Live(a)
BY DEF TypeOK, Step, Live, Reports, Reserve, Refuse, Admit, CircuitOpen, Send, ReleaseUnsent,
       Complete, Fail, Report, WriteFails

LEMMA TimelyKept ==
  ASSUME GenerationAssumption, TypeOK, Timely, [Next]_vars
  PROVE  Timely'
<1>1. CASE UNCHANGED vars
  BY <1>1 DEF Timely, Live, vars
<1>2. ASSUME NEW a \in Attempts, NEW m \in Requesters, Begin(a, m)
      PROVE  Timely'
  BY <1>2 DEF Begin, TypeOK, Timely, Live, GenerationAssumption
<1>3. ASSUME NEW a \in Attempts, Step(a)
      PROVE  Timely'
  BY <1>3, ReadingsKept DEF Timely, Live
<1>4. CASE Restart
  BY <1>4 DEF Restart, Timely, Live
<1>5. CASE Tick
  BY <1>5 DEF Tick, TypeOK, Timely, Live, GenerationAssumption
<1> QED
  BY <1>1, <1>2, <1>3, <1>4, <1>5 DEF Next

-----------------------------------------------------------------------------
(* The circuit                                                             *)

(* Nobody who is past the circuit when the cooldown is over, by the reading *)
(* of a call, is past it still.                                            *)
LEMMA CooledDown ==
  ASSUME GenerationAssumption, CircuitAssumption, TypeOK, Timely, Cooling,
         NEW a \in Attempts, circuit.state = "open", ~circuit.indefinite,
         circuit.retry <= read[a]
  PROVE  \A b \in Attempts : ~Past(b)
<1>1. SUFFICES ASSUME NEW b \in Attempts, Past(b)
               PROVE  FALSE
  OBVIOUS
<1>2. circuit.retry \in Int /\ now \in Nat /\ read[a] \in Nat /\ read[b] \in Nat
  <2>1. circuit \in Fields
    BY RowFields DEF TypeOK
  <2> QED
    BY <2>1 DEF TypeOK, Fields, NoTime
<1>3. read[b] + FailureWindow <= circuit.retry
  BY <1>1 DEF Cooling
<1>4. read[a] <= now /\ now - read[b] <= CallLimit
  BY <1>1 DEF Timely, Past, Live, Reports
<1> QED
  BY <1>2, <1>3, <1>4 DEF GenerationAssumption, CircuitAssumption

(* Steps of a call between its admission and its report.                   *)
Underway(a) == Reserve(a) \/ Refuse(a) \/ CircuitOpen(a) \/ Send(a) \/ ReleaseUnsent(a)
                 \/ Complete(a) \/ Fail(a)

LEMMA UnderwayKeeps ==
  ASSUME TypeOK, NEW a \in Attempts, Underway(a)
  PROVE  /\ UNCHANGED <<now, circuit, read, faults>>
         /\ \A b \in Attempts : Past(b)' <=> Past(b)
BY DEF Underway, TypeOK, Past, Reports, Reserve, Refuse, CircuitOpen, Send, ReleaseUnsent,
       Complete, Fail

LEMMA CircuitKept ==
  ASSUME GenerationAssumption, CircuitAssumption, TypeOK, Timely, Cooling, Probing, [Next]_vars
  PROVE  Cooling' /\ Probing'
<1>1. CASE UNCHANGED vars
  BY <1>1 DEF Cooling, Probing, Past, vars
<1>2. ASSUME NEW a \in Attempts, NEW m \in Requesters, Begin(a, m)
      PROVE  Cooling' /\ Probing'
  <2>1. UNCHANGED <<circuit, faults>> /\ \A b \in Attempts : Past(b)' <=> Past(b)
    BY <1>2 DEF Begin, TypeOK, Past, Reports
  <2>2. \A b \in Attempts : Past(b) => read'[b] = read[b]
    BY <1>2 DEF Begin, TypeOK, Past, Reports
  <2> QED
    BY <2>1, <2>2 DEF Cooling, Probing
<1>3. ASSUME NEW a \in Attempts, Underway(a)
      PROVE  Cooling' /\ Probing'
  BY <1>3, UnderwayKeeps DEF Cooling, Probing
<1>4. ASSUME NEW a \in Attempts, Admit(a)
      PROVE  Cooling' /\ Probing'
  <2>1. /\ UNCHANGED <<now, read, faults>> /\ Past(a)'
        /\ \A b \in Attempts \ {a} : Past(b)' <=> Past(b)
    BY <1>4 DEF Admit, TypeOK, Past
  <2>2. CASE circuit.state = "closed" /\ circuit' = circuit
    BY <2>2 DEF Cooling, Probing
  <2>3. CASE /\ circuit.state = "open" /\ ~circuit.indefinite /\ circuit.retry <= read[a]
             /\ circuit'.state = "half_open"
    <3>1. \A b \in Attempts : ~Past(b)
      BY <2>3, CooledDown
    <3> QED
      BY <2>1, <2>3, <3>1 DEF Cooling, Probing
  <2> QED
    BY <1>4, <2>2, <2>3, AdmittedCircuit DEF Admit, TypeOK
<1>5. ASSUME NEW a \in Attempts, Report(a)
      PROVE  Cooling' /\ Probing'
  <2>1. /\ UNCHANGED <<now, read, faults>> /\ Past(a) /\ ~Past(a)'
        /\ \A b \in Attempts \ {a} : Past(b)' <=> Past(b)
    BY <1>5 DEF Report, TypeOK, Past, Reports
  <2>2. Probing'
    BY <1>5, ReportedCircuit DEF Probing
  <2>3. CASE circuit' = circuit
    BY <2>1, <2>2, <2>3 DEF Cooling
  <2>4. CASE circuit.state = "half_open"
    <3>1. \A b \in Attempts : ~Past(b)'
      BY <2>1, <2>4 DEF Probing
    <3> QED
      BY <2>2, <3>1 DEF Cooling
  <2>5. CASE circuit'.retry = now + FailureWindow
    <3>1. ASSUME NEW b \in Attempts
          PROVE  read'[b] + FailureWindow <= circuit'.retry
      BY <2>1, <2>5 DEF Timely, TypeOK, CircuitAssumption
    <3> QED
      BY <2>2, <3>1 DEF Cooling
  <2> QED
    BY <1>5, <2>2, <2>3, <2>4, <2>5, ReportedCircuit DEF Cooling
<1>6. ASSUME NEW a \in Attempts, WriteFails(a)
      PROVE  Cooling' /\ Probing'
  <2>1. /\ UNCHANGED <<now, read, circuit>> /\ faults' = faults + 1
        /\ \A b \in Attempts : Past(b)' => Past(b)
    BY <1>6 DEF WriteFails, TypeOK, Past, Reports
  <2> QED
    BY <2>1 DEF Cooling, Probing, TypeOK
<1>7. CASE Restart
  <2>1. \A b \in Attempts : ~Past(b)'
    BY <1>7 DEF Restart, Past, Reports
  <2>2. circuit'.state # "half_open"
    BY <1>7, RestartedCircuit DEF Restart, TypeOK
  <2> QED
    BY <2>1, <2>2 DEF Cooling, Probing
<1>8. CASE Tick
  BY <1>8 DEF Tick, Cooling, Probing, Past
<1> QED
  BY <1>1, <1>2, <1>3, <1>4, <1>5, <1>6, <1>7, <1>8 DEF Next, Step, Underway

(* A half-open circuit has one call under way.                             *)
LEMMA ProbingIsOne ==
  ASSUME GenerationAssumption, Probing
  PROVE  OneProbe
<1>1. SUFFICES ASSUME circuit.state = "half_open"
               PROVE  LET probes == {a \in Attempts : Past(a)}
                      IN Cardinality(probes) <= 1 /\ (faults = 0 => probes # {})
  BY DEF OneProbe
<1> DEFINE probes == {a \in Attempts : Past(a)}
<1>2. faults = 0 => probes # {}
  BY <1>1 DEF Probing
<1>3. CASE probes = {}
  BY <1>2, <1>3, FS_EmptySet
<1>4. CASE probes # {}
  <2>1. PICK a : a \in probes
    BY <1>4
  <2>2. probes = {a}
    BY <1>1, <2>1 DEF Probing
  <2> QED
    BY <1>2, <2>2, FS_Singleton
<1> QED
  BY <1>3, <1>4

-----------------------------------------------------------------------------
(* The rates                                                               *)

LEMMA OneMore ==
  ASSUME NEW S, IsFiniteSet(S), NEW x, NEW T, T \subseteq S \cup {x},
         NEW n \in Nat, Cardinality(S) < n
  PROVE  Cardinality(T) <= n
<1>1. /\ IsFiniteSet(S \cup {x}) /\ Cardinality(S) \in Nat
      /\ Cardinality(S \cup {x}) = IF x \in S THEN Cardinality(S) ELSE Cardinality(S) + 1
  BY FS_AddElement, FS_CardinalityType
<1>2. Cardinality(T) <= Cardinality(S \cup {x}) /\ IsFiniteSet(T)
  BY <1>1, FS_Subset
<1>3. Cardinality(T) \in Nat
  BY <1>2, FS_CardinalityType
<1> QED
  BY <1>1, <1>2, <1>3

LEMMA Windows ==
  ASSUME GenerationAssumption, NEW t, NEW m
  PROVE  /\ IsFiniteSet(DayWindow(t)) /\ IsFiniteSet(MemberWindow(m, t))
         /\ IsFiniteSet(Since(t)) /\ IsFiniteSet(DirectSince(m, t))
BY FS_Subset DEF GenerationAssumption, DayWindow, MemberWindow, Since, DirectSince

(* What does not count anew leaves the rates as they were.                 *)
LEMMA FewerCounted ==
  ASSUME GenerationAssumption, Rates,
         \A a \in Attempts : Counted(a)' => Counted(a) /\ UNCHANGED <<read[a], caller[a]>>
  PROVE  Rates'
<1>1. ASSUME NEW t \in 0..MaxClock
      PROVE  Cardinality(DayWindow(t)') <= DayCalls
  <2>1. DayWindow(t)' \subseteq DayWindow(t)
    BY DEF DayWindow
  <2>2. /\ Cardinality(DayWindow(t)') <= Cardinality(DayWindow(t))
        /\ Cardinality(DayWindow(t)') \in Nat /\ Cardinality(DayWindow(t)) \in Nat
    BY <2>1, Windows, FS_Subset, FS_CardinalityType
  <2> QED
    BY <2>2 DEF Rates, GenerationAssumption
<1>2. ASSUME NEW t \in 0..MaxClock, NEW m \in Members
      PROVE  Cardinality(MemberWindow(m, t)') <= DirectCalls
  <2>1. MemberWindow(m, t)' \subseteq MemberWindow(m, t)
    BY DEF MemberWindow
  <2>2. /\ Cardinality(MemberWindow(m, t)') <= Cardinality(MemberWindow(m, t))
        /\ Cardinality(MemberWindow(m, t)') \in Nat /\ Cardinality(MemberWindow(m, t)) \in Nat
    BY <2>1, Windows, FS_Subset, FS_CardinalityType
  <2> QED
    BY <2>2 DEF Rates, GenerationAssumption
<1> QED
  BY <1>1, <1>2 DEF Rates

(* A reservation has counted what its window holds.                        *)
LEMMA ReserveKeepsRates ==
  ASSUME GenerationAssumption, TypeOK, Rates, NEW a \in Attempts, Reserve(a)
  PROVE  Rates'
<1> DEFINE r == read[a]
<1>1. /\ UNCHANGED <<read, caller>> /\ Counted(a)' /\ r \in Nat /\ WithinLimits(caller[a], r)
      /\ \A b \in Attempts \ {a} : Counted(b)' <=> Counted(b)
  BY DEF Reserve, TypeOK, Counted
<1>3. ASSUME NEW t \in 0..MaxClock
      PROVE  Cardinality(DayWindow(t)') <= DayCalls
  <2>1. CASE t <= r /\ r <= t + Day
    <3>1. DayWindow(t)' \subseteq Since(r - Day) \cup {a}
      BY <1>1, <2>1 DEF DayWindow, Since, TypeOK, GenerationAssumption
    <3>2. Cardinality(Since(r - Day)) < DayCalls
      BY <1>1 DEF WithinLimits
    <3> QED
      BY <3>1, <3>2, OneMore, Windows DEF GenerationAssumption
  <2>2. CASE ~(t <= r /\ r <= t + Day)
    <3>1. DayWindow(t)' = DayWindow(t)
      BY <1>1, <2>2 DEF DayWindow
    <3> QED
      BY <3>1 DEF Rates
  <2> QED
    BY <2>1, <2>2
<1>4. ASSUME NEW t \in 0..MaxClock, NEW m \in Members
      PROVE  Cardinality(MemberWindow(m, t)') <= DirectCalls
  <2>1. CASE caller[a] = m /\ t <= r /\ r <= t + DirectWindow
    <3>1. MemberWindow(m, t)' \subseteq DirectSince(m, r - DirectWindow) \cup {a}
      BY <1>1, <2>1 DEF MemberWindow, DirectSince, Since, TypeOK, GenerationAssumption
    <3>2. Cardinality(DirectSince(m, r - DirectWindow)) < DirectCalls
      BY <1>1, <2>1 DEF WithinLimits
    <3> QED
      BY <3>1, <3>2, OneMore, Windows DEF GenerationAssumption
  <2>2. CASE ~(caller[a] = m /\ t <= r /\ r <= t + DirectWindow)
    <3>1. MemberWindow(m, t)' = MemberWindow(m, t)
      BY <1>1, <2>2 DEF MemberWindow
    <3> QED
      BY <3>1 DEF Rates
  <2> QED
    BY <2>1, <2>2
<1> QED
  BY <1>3, <1>4 DEF Rates

LEMMA RatesKept ==
  ASSUME GenerationAssumption, TypeOK, Unsent, Rates, [Next]_vars
  PROVE  Rates'
<1> DEFINE Fewer == \A b \in Attempts : Counted(b)' => Counted(b) /\ UNCHANGED <<read[b], caller[b]>>
<1>1. CASE UNCHANGED vars
  <2>1. Fewer
    BY <1>1 DEF Counted, vars
  <2> QED
    BY <2>1, FewerCounted
<1>2. ASSUME NEW a \in Attempts, NEW m \in Requesters, Begin(a, m)
      PROVE  Rates'
  <2>1. Fewer
    BY <1>2 DEF Begin, Counted, TypeOK
  <2> QED
    BY <2>1, FewerCounted
<1>3. ASSUME NEW a \in Attempts, Reserve(a)
      PROVE  Rates'
  BY <1>3, ReserveKeepsRates
<1>4. ASSUME NEW a \in Attempts, Step(a), ~Reserve(a)
      PROVE  Rates'
  <2>1. UNCHANGED <<read, caller>>
    BY <1>4, ReadingsKept
  <2>2. \A b \in Attempts : Counted(b)' => Counted(b)
    <3>1. CASE Admit(a) \/ Refuse(a) \/ Report(a) \/ WriteFails(a)
      BY <3>1 DEF Counted, Admit, Refuse, Report, WriteFails
    <3>2. CASE CircuitOpen(a) \/ ReleaseUnsent(a)
      BY <3>2 DEF Counted, TypeOK, CircuitOpen, ReleaseUnsent
    <3>3. CASE Complete(a) \/ Fail(a)
      <4>1. Counted(a)
        <5>1. at[a] = "sent"
          BY <3>3 DEF Complete, Fail
        <5>2. row[a] = "submitted"
          BY <5>1 DEF TypeOK
        <5> QED
          BY <5>2 DEF Counted
      <4>2. \A b \in Attempts \ {a} : row'[b] = row[b]
        BY <3>3 DEF TypeOK, Complete, Fail
      <4> QED
        BY <4>1, <4>2 DEF Counted
    <3>4. CASE Send(a)
      <4>1. Counted(a)
        BY <3>4 DEF Counted, Unsent, Send
      <4>2. \A b \in Attempts \ {a} : row'[b] = row[b]
        BY <3>4 DEF TypeOK, Send
      <4> QED
        BY <4>1, <4>2 DEF Counted
    <3> QED
      BY <1>4, <3>1, <3>2, <3>3, <3>4 DEF Step
  <2>3. Fewer
    BY <2>1, <2>2
  <2> QED
    BY <2>3, FewerCounted
<1>5. CASE Restart
  <2>1. Fewer
    BY <1>5 DEF Restart, Recovered, Counted, TypeOK
  <2> QED
    BY <2>1, FewerCounted
<1>6. CASE Tick
  <2>1. Fewer
    BY <1>6 DEF Tick, Counted
  <2> QED
    BY <2>1, FewerCounted
<1> QED
  BY <1>1, <1>2, <1>3, <1>4, <1>5, <1>6 DEF Next

(* What was sent counts.                                                   *)
LEMMA SentIsCounted ==
  ASSUME GenerationAssumption, TypeOK, Rates
  PROVE  RatesHold
<1>1. SUFFICES ASSUME NEW t \in 0..MaxClock
               PROVE  LET Sent(from, to) == {a \in Made(from, to) : row[a] \notin {"reserved", "cancelled"}}
                      IN /\ Cardinality(Sent(t, t + Day)) <= DayCalls
                         /\ \A m \in Members :
                              Cardinality({a \in Sent(t, t + DirectWindow) : caller[a] = m}) <= DirectCalls
  BY DEF RatesHold
<1> DEFINE Sent(from, to) == {a \in Made(from, to) : row[a] \notin {"reserved", "cancelled"}}
<1>2. Cardinality(Sent(t, t + Day)) <= DayCalls
  <2>1. Sent(t, t + Day) \subseteq DayWindow(t)
    BY DEF Made, DayWindow, Counted, GenerationAssumption
  <2> HIDE DEF Sent
  <2>2. /\ Cardinality(Sent(t, t + Day)) <= Cardinality(DayWindow(t))
        /\ Cardinality(Sent(t, t + Day)) \in Nat /\ Cardinality(DayWindow(t)) \in Nat
    BY <2>1, Windows, FS_Subset, FS_CardinalityType
  <2> QED
    BY <2>2 DEF Rates, GenerationAssumption
<1>3. ASSUME NEW m \in Members
      PROVE  Cardinality({a \in Sent(t, t + DirectWindow) : caller[a] = m}) <= DirectCalls
  <2> DEFINE S == {a \in Sent(t, t + DirectWindow) : caller[a] = m}
  <2>1. S \subseteq MemberWindow(m, t)
    BY DEF Made, MemberWindow, Counted, GenerationAssumption
  <2> HIDE DEF S
  <2>2. /\ Cardinality(S) <= Cardinality(MemberWindow(m, t))
        /\ Cardinality(S) \in Nat /\ Cardinality(MemberWindow(m, t)) \in Nat
    BY <2>1, Windows, FS_Subset, FS_CardinalityType
  <2>3. Cardinality(S) <= DirectCalls
    BY <2>2 DEF Rates, GenerationAssumption
  <2> QED
    BY <2>3 DEF S
<1> QED
  BY <1>2, <1>3

-----------------------------------------------------------------------------
(* Sums over a set of attempts                                             *)

Pick(s) == CHOOSE y \in s : TRUE

(* What a fold computes, one element at a time.                            *)
Unfolds(g, S, base, H) ==
  \A s \in SUBSET S : g[s] = IF s = {} THEN base
                             ELSE H[<<Pick(s), g[s \ {Pick(s)}]>>]

LEMMA Least ==
  ASSUME NEW M \in SUBSET Nat, M # {}
  PROVE  \E n \in M : \A k \in M : n <= k
<1> DEFINE Lt == OpToRel(<, Nat)
<1>1. IsWellFoundedOn(Lt, Nat)
  BY NatLessThanWellFounded
<1> HIDE DEF Lt
<1>2. PICK n \in M : \A k \in M : ~ (<<k, n>> \in Lt)
  BY <1>1, WFMin
<1>3. \A k \in M : ~ (k < n)
  BY <1>2 DEF OpToRel, Lt
<1> QED
  BY <1>3

LEMMA FiniteInduction ==
  ASSUME NEW S, IsFiniteSet(S), NEW Q, {} \in Q,
         \A T \in SUBSET S : T # {} /\ (\A x \in T : T \ {x} \in Q) => T \in Q
  PROVE  \A T \in SUBSET S : T \in Q
<1> DEFINE M == {n \in Nat : \E T \in SUBSET S : T \notin Q /\ Cardinality(T) = n}
<1>1. ASSUME M # {}
      PROVE  FALSE
  <2>1. PICK n \in M : \A k \in M : n <= k
    BY <1>1, Least
  <2>2. PICK T \in SUBSET S : T \notin Q /\ Cardinality(T) = n
    BY <2>1
  <2>3. IsFiniteSet(T) /\ T # {}
    BY <2>2, FS_Subset
  <2>4. ASSUME NEW x \in T
        PROVE  T \ {x} \in Q
    <3>1. IsFiniteSet(T \ {x}) /\ Cardinality(T \ {x}) = n - 1 /\ Cardinality(T \ {x}) \in Nat
      BY <2>2, <2>3, FS_RemoveElement, FS_CardinalityType
    <3>2. n - 1 \notin M
      BY <2>1
    <3> QED
      BY <3>1, <3>2
  <2> QED
    BY <2>2, <2>3, <2>4
<1>2. ASSUME NEW T \in SUBSET S
      PROVE  Cardinality(T) \in Nat
  BY FS_Subset, FS_CardinalityType
<1> QED
  BY <1>1, <1>2

LEMMA FoldExists ==
  ASSUME NEW S, IsFiniteSet(S), NEW V, NEW base \in V, NEW H \in [S \X V -> V]
  PROVE  \E g \in [SUBSET S -> V] : Unfolds(g, S, base, H)
<1> DEFINE Upto(n) == {s \in SUBSET S : Cardinality(s) <= n}
           Body(g, s) == IF s = {} THEN base ELSE H[<<Pick(s), g[s \ {Pick(s)}]>>]
           Good(n) == \E g \in [Upto(n) -> V] : \A s \in Upto(n) : g[s] = Body(g, s)
           M == {n \in Nat : ~Good(n)}
<1>0. ASSUME NEW T \in SUBSET S
      PROVE  /\ IsFiniteSet(T) /\ Cardinality(T) \in Nat /\ (Cardinality(T) = 0 <=> T = {})
             /\ T # {} => /\ Pick(T) \in T /\ Pick(T) \in S /\ T \ {Pick(T)} \in SUBSET S
                          /\ Cardinality(T \ {Pick(T)}) = Cardinality(T) - 1
  <2>1. IsFiniteSet(T) /\ Cardinality(T) \in Nat /\ (Cardinality(T) = 0 <=> T = {})
    BY FS_Subset, FS_CardinalityType, FS_EmptySet
  <2>2. T # {} => Pick(T) \in T
    BY DEF Pick
  <2> QED
    BY <2>1, <2>2, FS_RemoveElement
<1>1. Good(0)
  <2>1. ASSUME NEW s \in Upto(0)
        PROVE  s = {}
    <3>1. s \in SUBSET S /\ Cardinality(s) <= 0
      OBVIOUS
    <3>2. Cardinality(s) \in Nat /\ (Cardinality(s) = 0 <=> s = {})
      BY <1>0, <3>1
    <3> QED
      BY <3>1, <3>2
  <2> DEFINE g == [s \in Upto(0) |-> base]
  <2> HIDE DEF Upto
  <2>2. g \in [Upto(0) -> V] /\ \A s \in Upto(0) : g[s] = base
    OBVIOUS
  <2> HIDE DEF g
  <2>3. \A s \in Upto(0) : g[s] = Body(g, s)
    BY <2>1, <2>2
  <2> HIDE DEF Body
  <2> QED
    BY <2>2, <2>3
<1>2. ASSUME NEW n \in Nat \ {0}, Good(n - 1)
      PROVE  Good(n)
  <2>1. PICK g \in [Upto(n - 1) -> V] : \A s \in Upto(n - 1) : g[s] = Body(g, s)
    BY <1>2
  <2> DEFINE h == [s \in Upto(n) |-> Body(g, s)]
  <2>2. ASSUME NEW s \in Upto(n), s # {}
        PROVE  s \ {Pick(s)} \in Upto(n - 1) /\ Pick(s) \in S
    BY <1>0, <2>2
  <2>3. ASSUME NEW s \in Upto(n)
        PROVE  h[s] = Body(g, s) /\ Body(g, s) \in V
    <3>1. s # {} => <<Pick(s), g[s \ {Pick(s)}]>> \in S \X V
      BY <2>2
    <3> QED
      BY <3>1
  <2>4. h \in [Upto(n) -> V]
    BY <2>3
  <2>5. ASSUME NEW s \in Upto(n - 1)
        PROVE  h[s] = g[s]
    <3>0. s \in SUBSET S /\ Cardinality(s) \in Nat /\ Cardinality(s) <= n - 1
      BY <1>0
    <3>1. s \in Upto(n)
      BY <3>0
    <3>2. h[s] = Body(g, s)
      BY <2>3, <3>1
    <3> QED
      BY <2>1, <3>2
  <2> HIDE DEF h
  <2>6. ASSUME NEW s \in Upto(n)
        PROVE  h[s] = Body(h, s)
    <3>1. s # {} => h[s \ {Pick(s)}] = g[s \ {Pick(s)}]
      BY <2>2, <2>5
    <3>2. h[s] = Body(g, s)
      BY <2>3
    <3> HIDE DEF Upto
    <3> QED
      BY <3>1, <3>2
  <2> HIDE DEF Body, Upto
  <2> QED
    BY <2>4, <2>6
<1> HIDE DEF Good
<1>3. M = {}
  <2> SUFFICES ASSUME M # {} PROVE FALSE
    OBVIOUS
  <2>1. PICK n \in M : \A k \in M : n <= k
    BY Least
  <2>2. n # 0 /\ n - 1 \in Nat
    BY <1>1
  <2>3. n - 1 \notin M
    BY <2>1, <2>2
  <2> QED
    BY <1>2, <2>2, <2>3
<1>4. Cardinality(S) \in Nat /\ Upto(Cardinality(S)) = SUBSET S
  BY FS_CardinalityType, FS_Subset
<1>5. Good(Cardinality(S))
  BY <1>3, <1>4
<1>6. PICK g \in [Upto(Cardinality(S)) -> V] : \A s \in Upto(Cardinality(S)) : g[s] = Body(g, s)
  BY <1>5 DEF Good
<1> QED
  BY <1>4, <1>6 DEF Unfolds

(* g sums up F over the subsets of S.                                    *)
Sums(g, F, S) ==
  /\ g \in [SUBSET S -> Int]
  /\ \A s \in SUBSET S : g[s] = IF s = {} THEN 0 ELSE F[Pick(s)] + g[s \ {Pick(s)}]

LEMMA SumExists ==
  ASSUME NEW S, IsFiniteSet(S), NEW F \in [S -> Int]
  PROVE  \E g : Sums(g, F, S)
<1> DEFINE H == [p \in S \X Int |-> F[p[1]] + p[2]]
<1>1. H \in [S \X Int -> Int]
  OBVIOUS
<1>2. \A x \in S, n \in Int : H[<<x, n>>] = F[x] + n
  OBVIOUS
<1> DEFINE V == Int  z == 0
<1>a. z \in V /\ H \in [S \X V -> V]
  BY <1>1
<1> HIDE DEF H, V, z
<1>b. \E g \in [SUBSET S -> V] : Unfolds(g, S, z, H)
  BY <1>a, FoldExists
<1>3. PICK g \in [SUBSET S -> Int] : Unfolds(g, S, 0, H)
  BY <1>b DEF V, z
<1>4. ASSUME NEW s \in SUBSET S, s # {}
      PROVE  Pick(s) \in S /\ g[s \ {Pick(s)}] \in Int
  BY <1>4 DEF Pick
<1>5. \A s \in SUBSET S : g[s] = IF s = {} THEN 0 ELSE F[Pick(s)] + g[s \ {Pick(s)}]
  BY <1>2, <1>3, <1>4 DEF Unfolds
<1>6. Sums(g, F, S)
  BY <1>3, <1>5 DEF Sums
<1> QED
  BY <1>6

LEMMA SumNothing ==
  ASSUME NEW S, NEW F, NEW g, Sums(g, F, S)
  PROVE  g[{}] = 0
<1>1. {} \in SUBSET S
  OBVIOUS
<1> QED
  BY <1>1 DEF Sums

(* One element set apart, whichever it is.                               *)
LEMMA SumRemove ==
  ASSUME NEW S, IsFiniteSet(S), NEW F \in [S -> Int], NEW g, Sums(g, F, S),
         NEW T \in SUBSET S, NEW x \in T
  PROVE  g[T] = F[x] + g[T \ {x}]
<1> DEFINE Q == {U \in SUBSET S : \A y \in U : g[U] = F[y] + g[U \ {y}]}
<1>1. ASSUME NEW U \in SUBSET S, U # {}, \A y \in U : U \ {y} \in Q
      PROVE  U \in Q
  <2>1. ASSUME NEW y \in U
        PROVE  g[U] = F[y] + g[U \ {y}]
    <3> DEFINE p == Pick(U)
    <3>1. p \in U /\ g[U] = F[p] + g[U \ {p}]
      BY <1>1 DEF Pick, Sums
    <3> HIDE DEF p
    <3>2. CASE y = p
      BY <3>1, <3>2
    <3>3. CASE y # p
      <4>1. y \in U \ {p} /\ p \in U \ {y}
        BY <3>1, <3>3
      <4>2. U \ {p} \in Q /\ U \ {y} \in Q
        BY <1>1, <3>1
      <4> DEFINE W == (U \ {y}) \ {p}
      <4>3. (U \ {p}) \ {y} = W
        OBVIOUS
      <4>4. g[U \ {p}] = F[y] + g[W] /\ g[U \ {y}] = F[p] + g[W]
        BY <4>1, <4>2, <4>3
      <4>5. F[y] \in Int /\ F[p] \in Int /\ g[W] \in Int
        BY <3>1 DEF Sums
      <4> HIDE DEF W, Q
      <4>6. g[U] = F[p] + (F[y] + g[W])
        BY <3>1, <4>4
      <4>7. F[y] + g[U \ {y}] = F[y] + (F[p] + g[W])
        BY <4>4
      <4> QED
        BY <4>5, <4>6, <4>7
    <3> QED
      BY <3>2, <3>3
  <2> QED
    BY <2>1
<1>2. {} \in Q
  OBVIOUS
<1> HIDE DEF Q
<1>3. T \in Q
  BY <1>1, <1>2, FiniteInduction
<1> QED
  BY <1>3 DEF Q

(* The library's sum over a part of what is summed up.                     *)
LEMMA SumOverPart ==
  ASSUME NEW D, IsFiniteSet(D), NEW F \in [D -> Int], NEW g, Sums(g, F, D),
         NEW S \in SUBSET D
  PROVE  SumFunctionOnSet(F, S) = g[S]
<1> DEFINE Folds(f) == f = [s \in SUBSET S |-> IF s = {} THEN 0
                        ELSE F[(CHOOSE y \in s : TRUE)] + f[s \ {CHOOSE y \in s : TRUE}]]
           it == CHOOSE f : Folds(f)
           part == [s \in SUBSET S |-> g[s]]
<1>1. SumFunctionOnSet(F, S) = it[S]
  BY DEF SumFunctionOnSet, FoldFunctionOnSet, MapThenFoldSet
<1>2. Folds(part)
  <2>1. \A s \in SUBSET S : g[s] = IF s = {} THEN 0
          ELSE F[(CHOOSE y \in s : TRUE)] + g[s \ {CHOOSE y \in s : TRUE}]
    BY DEF Sums, Pick
  <2>2. \A s \in SUBSET S : s \ {CHOOSE y \in s : TRUE} \in SUBSET S
    OBVIOUS
  <2> HIDE DEF Folds
  <2>3. \A s \in SUBSET S :
          (IF s = {} THEN 0 ELSE F[(CHOOSE y \in s : TRUE)] + g[s \ {CHOOSE y \in s : TRUE}])
            = (IF s = {} THEN 0 ELSE F[(CHOOSE y \in s : TRUE)] + part[s \ {CHOOSE y \in s : TRUE}])
    BY <2>2
  <2>4. \A s \in SUBSET S : part[s] = g[s]
    OBVIOUS
  <2>5. part = [s \in SUBSET S |-> part[s]]
    OBVIOUS
  <2> HIDE DEF part
  <2>6. \A s \in SUBSET S : part[s] = IF s = {} THEN 0
          ELSE F[(CHOOSE y \in s : TRUE)] + part[s \ {CHOOSE y \in s : TRUE}]
    BY <2>1, <2>3, <2>4
  <2> QED
    BY <2>5, <2>6 DEF Folds
<1>3. Folds(it)
  BY <1>2
<1> HIDE DEF it
<1>4. \A s \in SUBSET S : it[s] = IF s = {} THEN 0 ELSE F[Pick(s)] + it[s \ {Pick(s)}]
  BY <1>3 DEF Pick
<1> DEFINE Q == {s \in SUBSET S : it[s] = g[s]}
<1>5. ASSUME NEW T \in SUBSET S, T # {}, \A y \in T : T \ {y} \in Q
      PROVE  T \in Q
  <2>1. Pick(T) \in T
    BY <1>5 DEF Pick
  <2>2. it[T \ {Pick(T)}] = g[T \ {Pick(T)}]
    BY <1>5, <2>1
  <2>3. g[T] = F[Pick(T)] + g[T \ {Pick(T)}]
    BY <1>5 DEF Sums
  <2> QED
    BY <1>4, <1>5, <2>2, <2>3
<1>6. {} \in Q
  BY <1>4, SumNothing
<1> HIDE DEF Q
<1>7. S \in Q
  <2>1. IsFiniteSet(S) /\ S \in SUBSET S
    BY FS_Subset
  <2> QED
    BY <1>5, <1>6, <2>1, FiniteInduction
<1> QED
  BY <1>1, <1>7 DEF Q

(* A sum whose every term is paid for by a term of the other is no more.   *)
LEMMA SumIsPaidFor ==
  ASSUME NEW D, IsFiniteSet(D), NEW F \in [D -> Nat], NEW G \in [D -> Nat],
         NEW T \in SUBSET D, NEW S \in SUBSET D,
         \A x \in T : F[x] <= IF x \in S THEN G[x] ELSE 0
  PROVE  /\ SumFunctionOnSet(F, T) \in Nat /\ SumFunctionOnSet(G, S) \in Nat
         /\ SumFunctionOnSet(F, T) <= SumFunctionOnSet(G, S)
<1>0. F \in [D -> Int] /\ G \in [D -> Int]
  OBVIOUS
<1>1. PICK f : Sums(f, F, D)
  BY <1>0, SumExists
<1>2. PICK g : Sums(g, G, D)
  BY <1>0, SumExists
<1> DEFINE Natural == {U \in SUBSET D : f[U] \in Nat /\ g[U] \in Nat}
           Paid == {U \in SUBSET D : U \subseteq T => f[U] <= g[U \cap S]}
           Grows == {U \in SUBSET D : T \cap S \subseteq U => g[T \cap S] <= g[U]}
<1>3. ASSUME NEW U \in SUBSET D, NEW x \in U
      PROVE  /\ f[U] = F[x] + f[U \ {x}] /\ g[U] = G[x] + g[U \ {x}]
             /\ F[x] \in Nat /\ G[x] \in Nat /\ U \ {x} \in SUBSET D
  <2>1. f[U] = F[x] + f[U \ {x}]
    BY <1>0, <1>1, SumRemove
  <2>2. g[U] = G[x] + g[U \ {x}]
    BY <1>0, <1>2, SumRemove
  <2>3. F[x] \in Nat /\ G[x] \in Nat /\ U \ {x} \in SUBSET D
    OBVIOUS
  <2> QED
    BY <2>1, <2>2, <2>3
<1>4. f[{}] = 0 /\ g[{}] = 0
  BY <1>1, <1>2, SumNothing
<1>5. \A U \in SUBSET D : U \in Natural
  <2>1. ASSUME NEW U \in SUBSET D, U # {}, \A y \in U : U \ {y} \in Natural
        PROVE  U \in Natural
    <3>1. PICK x : x \in U
      BY <2>1
    <3>2. f[U \ {x}] \in Nat /\ g[U \ {x}] \in Nat
      BY <2>1, <3>1
    <3>3. /\ f[U] = F[x] + f[U \ {x}] /\ g[U] = G[x] + g[U \ {x}]
          /\ F[x] \in Nat /\ G[x] \in Nat
      BY <1>3, <3>1
    <3>4. f[U] \in Nat /\ g[U] \in Nat
      BY <3>2, <3>3
    <3> QED
      BY <3>4
  <2>2. {} \in Natural
    BY <1>4
  <2> HIDE DEF Natural
  <2> QED
    BY <2>1, <2>2, FiniteInduction
<1>6. \A U \in SUBSET D : U \in Paid
  <2>1. ASSUME NEW U \in SUBSET D, U # {}, \A y \in U : U \ {y} \in Paid, U \subseteq T
        PROVE  f[U] <= g[U \cap S]
    <3>1. PICK x : x \in U
      BY <2>1
    <3>2. f[U \ {x}] <= g[(U \ {x}) \cap S]
      BY <1>3, <2>1, <3>1
    <3>3. f[U \ {x}] \in Nat /\ g[(U \ {x}) \cap S] \in Nat
      BY <1>5
    <3>4. CASE x \in S
      <4>1. x \in U \cap S /\ U \cap S \in SUBSET D /\ (U \cap S) \ {x} = (U \ {x}) \cap S
        BY <3>1, <3>4
      <4>2. g[U \cap S] = G[x] + g[(U \ {x}) \cap S]
        BY <1>3, <4>1
      <4>3. F[x] <= G[x]
        BY <2>1, <3>1, <3>4
      <4> QED
        BY <1>3, <3>1, <3>2, <3>3, <4>2, <4>3
    <3>5. CASE x \notin S
      <4>1. U \cap S = (U \ {x}) \cap S
        BY <3>5
      <4>2. F[x] = 0
        BY <1>3, <2>1, <3>1, <3>5
      <4>3. f[U] = f[U \ {x}]
        BY <1>3, <3>1, <3>3, <4>2
      <4> QED
        BY <3>2, <4>1, <4>3
    <3> QED
      BY <3>4, <3>5
  <2>2. \A U \in SUBSET D : U # {} /\ (\A y \in U : U \ {y} \in Paid) => U \in Paid
    BY <2>1
  <2>3. {} \in Paid
    <3>1. {} \cap S = {}
      OBVIOUS
    <3> QED
      BY <1>4, <3>1
  <2> HIDE DEF Paid
  <2> QED
    BY <2>2, <2>3, FiniteInduction
<1>7. \A U \in SUBSET D : U \in Grows
  <2>1. ASSUME NEW U \in SUBSET D, U # {}, \A y \in U : U \ {y} \in Grows, T \cap S \subseteq U
        PROVE  g[T \cap S] <= g[U]
    <3>1. CASE U = T \cap S
      BY <1>5, <3>1
    <3>2. CASE U # T \cap S
      <4>1. PICK x : x \in U /\ x \notin T \cap S
        BY <2>1, <3>2
      <4>2. T \cap S \subseteq U \ {x}
        BY <2>1, <4>1
      <4>3. g[T \cap S] <= g[U \ {x}]
        BY <2>1, <4>1, <4>2
      <4>4. g[T \cap S] \in Nat /\ g[U \ {x}] \in Nat
        BY <1>5
      <4> QED
        BY <1>3, <4>1, <4>3, <4>4
    <3> QED
      BY <3>1, <3>2
  <2>2. \A U \in SUBSET D : U # {} /\ (\A y \in U : U \ {y} \in Grows) => U \in Grows
    BY <2>1
  <2>3. {} \in Grows
    <3>1. T \cap S \subseteq {} => T \cap S = {}
      OBVIOUS
    <3> QED
      BY <1>4, <3>1
  <2> HIDE DEF Grows
  <2> QED
    BY <2>2, <2>3, FiniteInduction
<1>8. f[T] <= g[T \cap S] /\ g[T \cap S] <= g[S]
  BY <1>6, <1>7
<1>9. f[T] \in Nat /\ g[T \cap S] \in Nat /\ g[S] \in Nat
  BY <1>5
<1>10. SumFunctionOnSet(F, T) = f[T] /\ SumFunctionOnSet(G, S) = g[S]
  BY <1>0, <1>1, <1>2, SumOverPart
<1> QED
  BY <1>8, <1>9, <1>10

(* One term more.                                                          *)
LEMMA SumAddsOne ==
  ASSUME NEW D, IsFiniteSet(D), NEW F \in [D -> Nat], NEW S \in SUBSET D, NEW x \in D \ S
  PROVE  /\ SumFunctionOnSet(F, S \cup {x}) = F[x] + SumFunctionOnSet(F, S)
         /\ SumFunctionOnSet(F, S) \in Nat
<1>1. F \in [D -> Int] /\ S \cup {x} \in SUBSET D /\ (S \cup {x}) \ {x} = S
  OBVIOUS
<1>2. PICK f : Sums(f, F, D)
  BY <1>1, SumExists
<1>3. f[S \cup {x}] = F[x] + f[S]
  BY <1>1, <1>2, SumRemove
<1>4. SumFunctionOnSet(F, S) = f[S] /\ SumFunctionOnSet(F, S \cup {x}) = f[S \cup {x}]
  BY <1>1, <1>2, SumOverPart
<1>5. SumFunctionOnSet(F, S) \in Nat
  BY SumIsPaidFor
<1> QED
  BY <1>3, <1>4, <1>5

-----------------------------------------------------------------------------
(* The budget                                                              *)

LEMMA MonthsAreApart ==
  ASSUME NEW M \in Nat \ {0}, NEW t \in Nat, NEW r \in Nat, r <= M * (t \div M) + M - 1
  PROVE  M * (r \div M) <= M * (t \div M)
<1> DEFINE p == r \div M
           q == t \div M
<1>1. p \in Int /\ q \in Int
  OBVIOUS
<1>2. M * p <= r /\ r <= M * q + M - 1
  OBVIOUS
<1> HIDE DEF p, q
<1>3. ASSUME NEW x \in Int, NEW y \in Int, x <= y
      PROVE  M * x <= M * y
  BY <1>3
<1>4. CASE p <= q
  BY <1>1, <1>3, <1>4 DEF p, q
<1>5. CASE p >= q + 1
  <2>1. M * (q + 1) <= M * p
    BY <1>1, <1>3, <1>5
  <2>2. M * (q + 1) = M * q + M
    BY <1>1
  <2>3. M * p \in Int /\ M * q \in Int
    BY <1>1
  <2> DEFINE u == M * p
             v == M * q
  <2> HIDE DEF u, v
  <2>4. u <= r /\ r <= v + M - 1 /\ v + M <= u /\ u \in Int /\ v \in Int
    BY <1>2, <2>1, <2>2, <2>3 DEF u, v
  <2> QED
    BY <2>4
<1> QED
  BY <1>1, <1>4, <1>5

LEMMA MonthTypes ==
  ASSUME GenerationAssumption, NEW t \in Nat
  PROVE  MonthStart(t) \in Int /\ Month \in Nat \ {0}
BY DEF GenerationAssumption, MonthStart

(* What is charged for fewer attempts, or less for some, is within the     *)
(* limits too.                                                             *)
LEMMA LessCharged ==
  ASSUME GenerationAssumption, TypeOK, TypeOK', Costs,
         \A a \in Attempts :
           Counted(a)' => Counted(a) /\ read'[a] = read[a] /\ charge'[a] <= charge[a]
  PROVE  Costs'
<1>1. /\ charge \in [Attempts -> Nat] /\ charge' \in [Attempts -> Nat]
      /\ IsFiniteSet(Attempts) /\ DayLimit \in Nat /\ MonthLimit \in Nat
  BY DEF TypeOK, GenerationAssumption
<1>2. ASSUME NEW t \in 0..MaxClock
      PROVE  SumFunctionOnSet(charge', DayWindow(t)') <= DayLimit
  <2>1. /\ DayWindow(t)' \in SUBSET Attempts /\ DayWindow(t) \in SUBSET Attempts
        /\ \A x \in DayWindow(t)' : x \in DayWindow(t) /\ charge'[x] <= charge[x]
    BY DEF DayWindow
  <2>2. SumFunctionOnSet(charge, DayWindow(t)) <= DayLimit
    BY DEF Costs
  <2> HIDE DEF DayWindow
  <2>3. /\ SumFunctionOnSet(charge', DayWindow(t)') \in Nat
        /\ SumFunctionOnSet(charge, DayWindow(t)) \in Nat
        /\ SumFunctionOnSet(charge', DayWindow(t)') <= SumFunctionOnSet(charge, DayWindow(t))
    BY <1>1, <2>1, SumIsPaidFor
  <2> QED
    BY <1>1, <2>2, <2>3
<1>3. ASSUME NEW t \in 0..MaxClock
      PROVE  SumFunctionOnSet(charge', MonthWindow(t)') <= MonthLimit
  <2>1. /\ MonthWindow(t)' \in SUBSET Attempts /\ MonthWindow(t) \in SUBSET Attempts
        /\ \A x \in MonthWindow(t)' : x \in MonthWindow(t) /\ charge'[x] <= charge[x]
    BY DEF MonthWindow
  <2>2. SumFunctionOnSet(charge, MonthWindow(t)) <= MonthLimit
    BY DEF Costs
  <2> HIDE DEF MonthWindow
  <2>3. /\ SumFunctionOnSet(charge', MonthWindow(t)') \in Nat
        /\ SumFunctionOnSet(charge, MonthWindow(t)) \in Nat
        /\ SumFunctionOnSet(charge', MonthWindow(t)') <= SumFunctionOnSet(charge, MonthWindow(t))
    BY <1>1, <2>1, SumIsPaidFor
  <2> QED
    BY <1>1, <2>2, <2>3
<1> QED
  BY <1>2, <1>3 DEF Costs

(* A reservation that does not exceed what is left beside what counts      *)
(* since a time fits in any window that begins no earlier.                 *)
LEMMA ReservationFits ==
  ASSUME GenerationAssumption, TypeOK, TypeOK', NEW a \in Attempts, Reserve(a),
         NEW from \in Int, NEW limit \in Nat,
         ~WouldExceed(Usage(from), Reservation[caller[a]], limit),
         NEW W \in SUBSET Attempts, W \subseteq Since(from) \cup {a}
  PROVE  SumFunctionOnSet(charge', W) <= limit
<1> DEFINE cost == Reservation[caller[a]]
           others == Since(from) \ {a}
<1>1. /\ charge \in [Attempts -> Nat] /\ charge' \in [Attempts -> Nat]
      /\ IsFiniteSet(Attempts) /\ cost \in Nat
      /\ charge'[a] = cost /\ \A b \in Attempts \ {a} : charge'[b] = charge[b]
  BY DEF TypeOK, GenerationAssumption, Reserve
<1>2. /\ Since(from) \in SUBSET Attempts /\ others \in SUBSET Attempts /\ a \in Attempts \ others
      /\ others \cup {a} \in SUBSET Attempts /\ W \subseteq others \cup {a}
  BY DEF Since
<1>3. Usage(from) = SumFunctionOnSet(charge, Since(from))
  BY DEF Usage
<1> DEFINE used == SumFunctionOnSet(charge, Since(from))
<1>4. ~(used > limit) /\ ~(cost > limit - used)
  BY <1>3 DEF WouldExceed
<1>5. \A x \in others : x \in Since(from) /\ charge'[x] <= charge[x]
  BY <1>1, <1>2
<1> HIDE DEF cost, others, Since
<1>6. /\ SumFunctionOnSet(charge', others) \in Nat /\ used \in Nat
      /\ SumFunctionOnSet(charge', others) <= used
  BY <1>1, <1>2, <1>5, SumIsPaidFor
<1>7. SumFunctionOnSet(charge', others \cup {a}) = cost + SumFunctionOnSet(charge', others)
  BY <1>1, <1>2, SumAddsOne
<1>8. \A x \in W : x \in others \cup {a} /\ charge'[x] <= charge'[x]
  BY <1>1, <1>2
<1>9. /\ SumFunctionOnSet(charge', W) \in Nat
      /\ SumFunctionOnSet(charge', W) <= SumFunctionOnSet(charge', others \cup {a})
  BY <1>1, <1>2, <1>8, SumIsPaidFor
<1> HIDE DEF used
<1> QED
  BY <1>1, <1>4, <1>6, <1>7, <1>9

(* A window the reservation is not in charges what it did.                 *)
LEMMA WindowKeepsCharge ==
  ASSUME GenerationAssumption, TypeOK, TypeOK', NEW a \in Attempts, Reserve(a),
         NEW W \in SUBSET Attempts, a \notin W
  PROVE  /\ SumFunctionOnSet(charge', W) \in Nat /\ SumFunctionOnSet(charge, W) \in Nat
         /\ SumFunctionOnSet(charge', W) <= SumFunctionOnSet(charge, W)
<1>1. /\ charge \in [Attempts -> Nat] /\ charge' \in [Attempts -> Nat]
      /\ IsFiniteSet(Attempts)
  BY DEF TypeOK, GenerationAssumption
<1>2. \A x \in W : x \in W /\ charge'[x] <= charge[x]
  <2>1. \A b \in Attempts \ {a} : charge'[b] = charge[b]
    BY DEF TypeOK, Reserve
  <2> QED
    BY <1>1, <2>1
<1> QED
  BY <1>1, <1>2, SumIsPaidFor

LEMMA ReserveKeepsCosts ==
  ASSUME GenerationAssumption, TypeOK, TypeOK', Costs, NEW a \in Attempts, Reserve(a)
  PROVE  Costs'
<1> DEFINE r == read[a]
<1>1. /\ UNCHANGED read /\ r \in Nat /\ WithinLimits(caller[a], r)
      /\ \A b \in Attempts \ {a} : Counted(b)' <=> Counted(b)
      /\ read \in [Attempts -> Nat] /\ {Day, DayLimit, MonthLimit} \subseteq Nat
      /\ Month \in Nat \ {0} /\ r - Day \in Int /\ MonthStart(r) \in Int
  BY MonthTypes DEF Reserve, TypeOK, Counted, GenerationAssumption
<1>2. ASSUME NEW t \in 0..MaxClock
      PROVE  SumFunctionOnSet(charge', DayWindow(t)') <= DayLimit
  <2>1. DayWindow(t)' \in SUBSET Attempts /\ DayWindow(t) \in SUBSET Attempts
    BY DEF DayWindow
  <2>2. CASE t <= r /\ r <= t + Day
    <3>1. DayWindow(t)' \subseteq Since(r - Day) \cup {a}
      BY <1>1, <2>2 DEF DayWindow, Since
    <3>2. ~WouldExceed(Usage(r - Day), Reservation[caller[a]], DayLimit)
      BY <1>1 DEF WithinLimits
    <3> QED
      BY <1>1, <2>1, <3>1, <3>2, ReservationFits
  <2>3. CASE ~(t <= r /\ r <= t + Day)
    <3>1. a \notin DayWindow(t)' /\ DayWindow(t)' = DayWindow(t)
      BY <1>1, <2>3 DEF DayWindow
    <3>2. SumFunctionOnSet(charge, DayWindow(t)) <= DayLimit
      BY DEF Costs
    <3> DEFINE W == DayWindow(t)
    <3> HIDE DEF W
    <3>3. a \notin W /\ W \in SUBSET Attempts /\ DayWindow(t)' = W
      BY <2>1, <3>1 DEF W
    <3>4. /\ SumFunctionOnSet(charge', W) \in Nat /\ SumFunctionOnSet(charge, W) \in Nat
          /\ SumFunctionOnSet(charge', W) <= SumFunctionOnSet(charge, W)
      BY <3>3, WindowKeepsCharge
    <3>5. SumFunctionOnSet(charge, W) <= DayLimit
      BY <3>2 DEF W
    <3>6. SumFunctionOnSet(charge', W) <= DayLimit
      BY <1>1, <3>4, <3>5
    <3> QED
      BY <3>3, <3>6
  <2> QED
    BY <2>2, <2>3
<1>3. ASSUME NEW t \in 0..MaxClock
      PROVE  SumFunctionOnSet(charge', MonthWindow(t)') <= MonthLimit
  <2>1. MonthWindow(t)' \in SUBSET Attempts /\ MonthWindow(t) \in SUBSET Attempts
        /\ t \in Nat /\ MonthStart(t) \in Int
    BY MonthTypes DEF MonthWindow
  <2>2. CASE MonthStart(t) <= r /\ r <= MonthStart(t) + Month - 1
    <3>1. MonthStart(r) <= MonthStart(t)
      BY <1>1, <2>1, <2>2, MonthsAreApart DEF MonthStart
    <3>2. MonthWindow(t)' \subseteq Since(MonthStart(r)) \cup {a}
      BY <1>1, <2>1, <3>1 DEF MonthWindow, Since
    <3>3. ~WouldExceed(Usage(MonthStart(r)), Reservation[caller[a]], MonthLimit)
      BY <1>1 DEF WithinLimits
    <3> QED
      BY <1>1, <2>1, <3>2, <3>3, ReservationFits
  <2>3. CASE ~(MonthStart(t) <= r /\ r <= MonthStart(t) + Month - 1)
    <3>1. a \notin MonthWindow(t)' /\ MonthWindow(t)' = MonthWindow(t)
      BY <1>1, <2>3 DEF MonthWindow
    <3>2. SumFunctionOnSet(charge, MonthWindow(t)) <= MonthLimit
      BY DEF Costs
    <3> DEFINE W == MonthWindow(t)
    <3> HIDE DEF W
    <3>3. a \notin W /\ W \in SUBSET Attempts /\ MonthWindow(t)' = W
      BY <2>1, <3>1 DEF W
    <3>4. /\ SumFunctionOnSet(charge', W) \in Nat /\ SumFunctionOnSet(charge, W) \in Nat
          /\ SumFunctionOnSet(charge', W) <= SumFunctionOnSet(charge, W)
      BY <3>3, WindowKeepsCharge
    <3>5. SumFunctionOnSet(charge, W) <= MonthLimit
      BY <3>2 DEF W
    <3>6. SumFunctionOnSet(charge', W) <= MonthLimit
      BY <1>1, <3>4, <3>5
    <3> QED
      BY <3>3, <3>6
  <2> QED
    BY <2>2, <2>3
<1> QED
  BY <1>2, <1>3 DEF Costs

(* A step of a call that does not reserve counts nothing anew and charges  *)
(* nothing more.                                                           *)
LEMMA NothingMoreCharged ==
  ASSUME TypeOK, Unsent, Priced, NEW a \in Attempts, Step(a), ~Reserve(a)
  PROVE  \A b \in Attempts : Counted(b)' => Counted(b) /\ charge'[b] <= charge[b]
<1>1. CASE Admit(a) \/ Refuse(a) \/ Report(a) \/ WriteFails(a)
  BY <1>1 DEF Counted, TypeOK, Admit, Refuse, Report, WriteFails
<1>2. CASE CircuitOpen(a) \/ ReleaseUnsent(a)
  BY <1>2 DEF Counted, TypeOK, CircuitOpen, ReleaseUnsent
<1>3. CASE Fail(a)
  <2>1. Counted(a)
    BY <1>3 DEF Counted, Fail, TypeOK
  <2>2. charge' = charge /\ \A b \in Attempts \ {a} : row'[b] = row[b]
    BY <1>3 DEF TypeOK, Fail
  <2> QED
    BY <2>1, <2>2 DEF Counted, TypeOK
<1>4. CASE Complete(a)
  <2>1. row[a] = "submitted"
    BY <1>4 DEF Complete, TypeOK
  <2>2. charge[a] = Reservation[caller[a]] /\ billed[a] <= charge[a] /\ charge[a] \in Nat
    BY <2>1 DEF Priced, TypeOK
  <2>3. charge'[a] \in {billed[a], Reservation[caller[a]]}
    BY <1>4 DEF Complete, TypeOK
  <2>4. charge'[a] <= charge[a]
    BY <2>2, <2>3
  <2>5. \A b \in Attempts \ {a} : row'[b] = row[b] /\ charge'[b] = charge[b]
    BY <1>4 DEF TypeOK, Complete
  <2> QED
    BY <2>1, <2>4, <2>5 DEF Counted, TypeOK
<1>5. CASE Send(a)
  <2>1. Counted(a)
    BY <1>5 DEF Counted, Unsent, Send
  <2>2. charge' = charge /\ \A b \in Attempts \ {a} : row'[b] = row[b]
    BY <1>5 DEF TypeOK, Send
  <2> QED
    BY <2>1, <2>2 DEF Counted, TypeOK
<1> QED
  BY <1>1, <1>2, <1>3, <1>4, <1>5 DEF Step

LEMMA CostsKept ==
  ASSUME GenerationAssumption, TypeOK, TypeOK', Unsent, Priced, Costs, [Next]_vars
  PROVE  Costs'
<1> DEFINE Less == \A b \in Attempts :
                     Counted(b)' => Counted(b) /\ read'[b] = read[b] /\ charge'[b] <= charge[b]
<1>1. CASE UNCHANGED vars
  <2>1. Less
    BY <1>1 DEF Counted, TypeOK, vars
  <2> QED
    BY <2>1, LessCharged
<1>2. ASSUME NEW a \in Attempts, NEW m \in Requesters, Begin(a, m)
      PROVE  Costs'
  <2>1. Less
    BY <1>2 DEF Begin, Counted, TypeOK
  <2> QED
    BY <2>1, LessCharged
<1>3. ASSUME NEW a \in Attempts, Reserve(a)
      PROVE  Costs'
  BY <1>3, ReserveKeepsCosts
<1>4. ASSUME NEW a \in Attempts, Step(a), ~Reserve(a)
      PROVE  Costs'
  <2>1. Less
    BY <1>4, ReadingsKept, NothingMoreCharged
  <2> QED
    BY <2>1, LessCharged
<1>5. CASE Restart
  <2>1. Less
    BY <1>5 DEF Restart, Recovered, Counted, TypeOK
  <2> QED
    BY <2>1, LessCharged
<1>6. CASE Tick
  <2>1. Less
    BY <1>6 DEF Tick, Counted, TypeOK
  <2> QED
    BY <2>1, LessCharged
<1> QED
  BY <1>1, <1>2, <1>3, <1>4, <1>5, <1>6 DEF Next

LEMMA PricedKept ==
  ASSUME GenerationAssumption, TypeOK, Unsent, Priced, [Next]_vars
  PROVE  Priced'
<1>1. CASE UNCHANGED vars
  BY <1>1 DEF Priced, Counted, vars
<1>2. ASSUME NEW a \in Attempts, NEW m \in Requesters, Begin(a, m)
      PROVE  Priced'
  BY <1>2 DEF Begin, TypeOK, Priced
<1>3. ASSUME NEW a \in Attempts, Reserve(a)
      PROVE  Priced'
  <2>1. row[a] = "none" /\ billed[a] = 0 /\ Reservation[caller[a]] \in Nat
    BY <1>3 DEF Reserve, Priced, TypeOK, GenerationAssumption
  <2> QED
    BY <1>3, <2>1 DEF Reserve, TypeOK, Priced
<1>4. ASSUME NEW a \in Attempts, Refuse(a) \/ Admit(a) \/ Report(a) \/ WriteFails(a)
      PROVE  Priced'
  BY <1>4 DEF TypeOK, Priced, Refuse, Admit, Report, WriteFails
<1>5. ASSUME NEW a \in Attempts, CircuitOpen(a) \/ ReleaseUnsent(a)
      PROVE  Priced'
  <2>1. row[a] = "reserved" /\ billed[a] = 0
    BY <1>5 DEF CircuitOpen, ReleaseUnsent, Unsent, Priced
  <2> QED
    BY <1>5, <2>1 DEF TypeOK, Priced, CircuitOpen, ReleaseUnsent
<1>6. ASSUME NEW a \in Attempts, Send(a)
      PROVE  Priced'
  <2>1. row[a] = "reserved" /\ charge[a] = Reservation[caller[a]]
    BY <1>6 DEF Send, Unsent, Priced
  <2>2. Reservation[caller[a]] \in Nat
    BY DEF TypeOK, GenerationAssumption
  <2>3. PICK b \in 1..Reservation[caller[a]] : billed' = [billed EXCEPT ![a] = b]
    BY <1>6 DEF Send
  <2>4. billed'[a] <= charge[a] /\ \A x \in Attempts \ {a} : billed'[x] = billed[x]
    BY <2>1, <2>2, <2>3 DEF TypeOK
  <2> QED
    BY <1>6, <2>1, <2>4 DEF TypeOK, Priced, Send
<1>7. ASSUME NEW a \in Attempts, Complete(a)
      PROVE  Priced'
  <2>1. row[a] = "submitted"
    BY <1>7 DEF Complete, TypeOK
  <2>2. /\ charge[a] = Reservation[caller[a]] /\ billed[a] <= charge[a]
        /\ billed[a] \in Nat
    BY <2>1 DEF Priced, TypeOK
  <2>3. charge'[a] \in {billed[a], Reservation[caller[a]]}
    BY <1>7 DEF Complete, TypeOK
  <2>4. billed[a] <= charge'[a]
    BY <2>2, <2>3
  <2>5. \A b \in Attempts \ {a} : charge'[b] = charge[b]
    BY <1>7 DEF TypeOK, Complete
  <2> QED
    BY <1>7, <2>4, <2>5 DEF TypeOK, Priced, Complete, Reports
<1>8. ASSUME NEW a \in Attempts, Fail(a)
      PROVE  Priced'
  BY <1>8 DEF TypeOK, Priced, Fail, Reports
<1>9. CASE Restart
  BY <1>9 DEF Restart, Recovered, TypeOK, Priced
<1>10. CASE Tick
  BY <1>10 DEF Tick, Priced
<1> QED
  BY <1>1, <1>2, <1>3, <1>4, <1>5, <1>6, <1>7, <1>8, <1>9, <1>10 DEF Next, Step

(* What the provider takes was charged.                                    *)
LEMMA BilledIsCharged ==
  ASSUME GenerationAssumption, TypeOK, Priced, Costs
  PROVE  BudgetHolds
<1>1. /\ billed \in [Attempts -> Nat] /\ charge \in [Attempts -> Nat]
      /\ IsFiniteSet(Attempts) /\ DayLimit \in Nat /\ MonthLimit \in Nat
  BY DEF TypeOK, GenerationAssumption
<1>2. ASSUME NEW from, NEW to, NEW W \in SUBSET Attempts,
             W = {a \in Attempts : Counted(a) /\ from <= read[a] /\ read[a] <= to},
             from \in Int, to \in Int
      PROVE  /\ Bill(Made(from, to)) \in Nat /\ SumFunctionOnSet(charge, W) \in Nat
             /\ Bill(Made(from, to)) <= SumFunctionOnSet(charge, W)
  <2>1. Made(from, to) \in SUBSET Attempts
    BY DEF Made
  <2>2. ASSUME NEW x \in Made(from, to)
        PROVE  billed[x] <= IF x \in W THEN charge[x] ELSE 0
    <3>1. x \in Attempts /\ row[x] # "none" /\ from <= read[x] /\ read[x] <= to
      BY <1>2 DEF Made
    <3>2. CASE Counted(x)
      <4>1. row[x] \in {"reserved", "submitted", "succeeded", "failed", "unknown"}
        BY <3>1, <3>2 DEF TypeOK, Counted
      <4>2. billed[x] <= charge[x]
        BY <1>1, <3>1, <4>1 DEF Priced
      <4>3. x \in W
        BY <1>2, <3>1, <3>2
      <4> QED
        BY <4>2, <4>3
    <3>3. CASE ~Counted(x)
      <4>1. x \notin W /\ billed[x] = 0
        BY <1>2, <3>1, <3>3 DEF Priced, Counted
      <4> QED
        BY <4>1
    <3> QED
      BY <3>2, <3>3
  <2> QED
    BY <1>1, <2>1, <2>2, SumIsPaidFor DEF Bill
<1>3. ASSUME NEW t \in 0..MaxClock
      PROVE  Bill(Made(t, t + Day)) <= DayLimit
  <2>1. /\ DayWindow(t) \in SUBSET Attempts /\ t \in Int /\ t + Day \in Int
        /\ DayWindow(t) = {a \in Attempts : Counted(a) /\ t <= read[a] /\ read[a] <= t + Day}
    BY DEF DayWindow, GenerationAssumption
  <2>2. SumFunctionOnSet(charge, DayWindow(t)) <= DayLimit
    BY DEF Costs
  <2> DEFINE W == DayWindow(t)
             to == t + Day
  <2> HIDE DEF W, to
  <2>3. /\ Bill(Made(t, to)) \in Nat /\ SumFunctionOnSet(charge, W) \in Nat
        /\ Bill(Made(t, to)) <= SumFunctionOnSet(charge, W)
    BY <1>2, <2>1 DEF W, to
  <2>4. Bill(Made(t, to)) <= DayLimit
    BY <1>1, <2>2, <2>3 DEF W
  <2> QED
    BY <2>4 DEF to
<1>4. ASSUME NEW t \in 0..MaxClock
      PROVE  Bill(Made(MonthStart(t), MonthStart(t) + Month - 1)) <= MonthLimit
  <2> DEFINE from == MonthStart(t)
             to == MonthStart(t) + Month - 1
             W == MonthWindow(t)
  <2>1. /\ W \in SUBSET Attempts /\ from \in Int /\ to \in Int
        /\ W = {a \in Attempts : Counted(a) /\ from <= read[a] /\ read[a] <= to}
    BY MonthTypes DEF MonthWindow
  <2>2. SumFunctionOnSet(charge, W) <= MonthLimit
    BY DEF Costs
  <2> HIDE DEF W, from, to
  <2>3. /\ Bill(Made(from, to)) \in Nat /\ SumFunctionOnSet(charge, W) \in Nat
        /\ Bill(Made(from, to)) <= SumFunctionOnSet(charge, W)
    BY <1>2, <2>1
  <2>4. Bill(Made(from, to)) <= MonthLimit
    BY <1>1, <2>2, <2>3
  <2> QED
    BY <2>4 DEF from, to
<1> QED
  BY <1>3, <1>4 DEF BudgetHolds

-----------------------------------------------------------------------------
(* The theorems                                                            *)

LEMMA GenerationBegins ==
  ASSUME GenerationAssumption, CircuitAssumption, Init
  PROVE  GInv
<1>1. Closed \in CircuitRow /\ Closed.state = "closed"
  BY DEF Closed, CircuitRow, CircuitAssumption, NoTime
<1>2. TypeOK
  BY <1>1 DEF Init, TypeOK, Places, GenerationAssumption, Requesters
<1>3. Timely /\ Cooling /\ Probing
  BY <1>1 DEF Init, Timely, Live, Cooling, Probing
<1>4. ASSUME NEW t, NEW m
      PROVE  Cardinality(DayWindow(t)) = 0 /\ Cardinality(MemberWindow(m, t)) = 0
  <2>1. DayWindow(t) = {} /\ MemberWindow(m, t) = {}
    BY DEF Init, DayWindow, MemberWindow, Counted
  <2> QED
    BY <2>1, FS_EmptySet
<1>5. Rates
  BY <1>4 DEF Rates, GenerationAssumption
<1>6. Priced
  BY DEF Init, Priced
<1>7. Costs
  <2>1. /\ charge \in [Attempts -> Nat] /\ IsFiniteSet(Attempts)
        /\ DayLimit \in Nat /\ MonthLimit \in Nat
    BY <1>2 DEF TypeOK, GenerationAssumption
  <2>2. ASSUME NEW W \in SUBSET Attempts, \A x \in W : Counted(x)
        PROVE  SumFunctionOnSet(charge, W) = 0
    <3>1. W = {}
      BY <2>2 DEF Init, Counted
    <3>2. PICK g : Sums(g, charge, Attempts)
      BY <2>1, SumExists
    <3> QED
      BY <2>1, <3>1, <3>2, SumOverPart, SumNothing
  <2>3. ASSUME NEW t
        PROVE  /\ SumFunctionOnSet(charge, DayWindow(t)) = 0
               /\ SumFunctionOnSet(charge, MonthWindow(t)) = 0
    BY <2>2 DEF DayWindow, MonthWindow
  <2> QED
    BY <2>1, <2>3 DEF Costs
<1> QED
  BY <1>2, <1>3, <1>5, <1>6, <1>7 DEF GInv, Init, Unsent

LEMMA GenerationGoesOn ==
  ASSUME GenerationAssumption, CircuitAssumption, GInv, [Next]_vars
  PROVE  GInv'
BY TypesKept, UnsentKept, TimelyKept, CircuitKept, RatesKept, PricedKept, CostsKept DEF GInv

(* For every policy: no member gets more generations in a window of the    *)
(* direct rate, and all no more in a rolling day, than allowed, though the *)
(* calls reserve on clock readings in any order, are cancelled, recovered  *)
(* or end in the middle; and a half-open circuit has one probe, which is   *)
(* there to end that state unless a write to the database failed.          *)
THEOREM RatesAndProbesHold ==
  ASSUME GenerationAssumption, CircuitAssumption
  PROVE  Spec => [](TypeOK /\ RatesHold /\ OneProbe)
<1>1. Init => GInv
  BY GenerationBegins
<1>2. GInv /\ [Next]_vars => GInv'
  BY GenerationGoesOn
<1>3. GInv => TypeOK /\ RatesHold /\ OneProbe
  BY SentIsCounted, ProbingIsOne DEF GInv
<1> QED
  BY <1>1, <1>2, <1>3, PTL DEF Spec

(* For every policy: whatever the provider takes for the requests of a     *)
(* rolling day or of a calendar month stays within its limit, with answers *)
(* that never come, rows left behind by failed writes, and restarts in the *)
(* middle of a transfer.                                                   *)
THEOREM BudgetIsKept ==
  ASSUME GenerationAssumption, CircuitAssumption
  PROVE  Spec => []BudgetHolds
<1>1. Init => GInv
  BY GenerationBegins
<1>2. GInv /\ [Next]_vars => GInv'
  BY GenerationGoesOn
<1>3. GInv => BudgetHolds
  BY BilledIsCharged DEF GInv
<1> QED
  BY <1>1, <1>2, <1>3, PTL DEF Spec

(* A step that clears a configuration failure is the restart.              *)
LEMMA OnlyRestartClears ==
  ASSUME GenerationAssumption, CircuitAssumption, GInv, [Next]_vars,
         circuit.indefinite, ~circuit'.indefinite
  PROVE  \A a \in Attempts : ~Live(a)'
<1>1. CASE UNCHANGED circuit
  BY <1>1
<1>2. ASSUME NEW a \in Attempts, Admit(a)
      PROVE  FALSE
  BY <1>2, AdmittedCircuit DEF Admit, GInv, TypeOK
<1>3. ASSUME NEW a \in Attempts, Report(a)
      PROVE  FALSE
  BY <1>3, ReportedCircuit DEF GInv
<1>4. CASE Restart
  BY <1>4 DEF Restart, Live
<1> QED
  BY <1>1, <1>2, <1>3, <1>4 DEF Next, Step, Begin, Reserve, Refuse, CircuitOpen, Send,
     ReleaseUnsent, Complete, Fail, WriteFails, Tick, vars

(* For every policy: after a configuration failure the circuit stays open  *)
(* until a restart, whatever the calls already under way report.           *)
THEOREM ConfigurationFailureHolds ==
  ASSUME GenerationAssumption, CircuitAssumption
  PROVE  Spec => ConfigurationFailureSticks
<1>1. Init => GInv
  BY GenerationBegins
<1>2. GInv /\ [Next]_vars => GInv'
  BY GenerationGoesOn
<1>3. GInv /\ [Next]_vars =>
        [circuit.indefinite /\ ~circuit'.indefinite => \A a \in Attempts : ~Live(a)']_vars
  BY OnlyRestartClears
<1> QED
  BY <1>1, <1>2, <1>3, PTL DEF Spec, ConfigurationFailureSticks
=============================================================================
