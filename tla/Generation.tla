----------------------------- MODULE Generation -----------------------------
(***************************************************************************)
(* AiGenerationService: admission of text generation against the rolling   *)
(* day, the calendar month and the direct rate, the accounting row of each *)
(* attempt, and the text provider's circuit, with concurrent calls, failing *)
(* database writes and restarts.                                           *)
(*                                                                         *)
(* Each repository call is one transaction and one step, so other calls    *)
(* come between reading the clock, reserving, asking the circuit, sending, *)
(* accounting and reporting to the circuit.                                *)
(***************************************************************************)
EXTENDS ProviderCircuit, FiniteSetsExt

CONSTANTS
  Attempts,     \* attempt rows; a cancelled one that was not sent is reused
  Members,      \* requesters of direct generations
  Background,   \* requester of the others
  Reservation,  \* what a request of each requester may cost at most
  Day, Month,   \* rolling_day_ms, and the length of a calendar month
  DayLimit, MonthLimit,     \* rolling_day_micro_usd, calendar_month_micro_usd
  DayCalls,                 \* rolling_day_generations
  DirectWindow, DirectCalls,\* direct_window_ms and the limit of a member
  CallLimit,    \* longest call: the transfer's 60 s and a few transactions
  MaxClock,     \* bound on the clock
  MaxFaults     \* bound on database writes that fail

Requesters == Members \cup {Background}

(* What the policy and its callers guarantee of the constants.             *)
GenerationAssumption ==
  /\ IsFiniteSet(Attempts) /\ Background \notin Members
  /\ Reservation \in [Requesters -> Nat \ {0}]
  /\ {Day, Month, DirectWindow, CallLimit} \subseteq Nat \ {0}
  /\ {DayLimit, MonthLimit, DayCalls, DirectCalls, MaxClock, MaxFaults}
       \subseteq Nat
  /\ CallLimit < FailureWindow

VARIABLES
  now,      \* the clock
  circuit,  \* provider_circuit_state of openai_text
  at,       \* where the call of each attempt is in generate
  read,     \* the clock reading of the call; created_at_ms of its row
  caller,   \* requester_user_id, by which a direct call is recognised
  row,      \* ai_generation_attempt.state
  charge,   \* actual_micro_usd if succeeded, else reserved_micro_usd
  billed,   \* what the provider takes for the attempt
  faults    \* writes that have failed

vars == <<now, circuit, at, read, caller, row, charge, billed, faults>>

(* Reports to the circuit that a call may still owe.                       *)
Reports == {"succeeded", "retryable", "authentication", "release"}

Places == {"idle", "begun", "reserved", "admitted", "sent"} \cup Reports

Live(a) == at[a] # "idle"

Init ==
  /\ now = 0 /\ circuit = Closed /\ faults = 0
  /\ at = [a \in Attempts |-> "idle"]
  /\ read = [a \in Attempts |-> 0]
  /\ caller = [a \in Attempts |-> Background]
  /\ row = [a \in Attempts |-> "none"]
  /\ charge = [a \in Attempts |-> 0]
  /\ billed = [a \in Attempts |-> 0]

-----------------------------------------------------------------------------
(* Accounting                                                              *)

\* Seeded fault: an attempt of unknown outcome is not counted.
Counted_known(a) == row[a] \notin {"none", "cancelled", "unknown"}

(* The rows accepted_count and charged_usage look at.                      *)
Counted(a) == row[a] \notin {"none", "cancelled"}

MonthStart(t) == Month * (t \div Month)

Since(t) == {a \in Attempts : Counted(a) /\ read[a] >= t}

Usage(t) == SumFunctionOnSet(charge, Since(t))

WouldExceed(used, reserved, limit) == used > limit \/ reserved > limit - used

\* Seeded fault: a member's generations are counted without those under way.
DirectSince_settled(m, t) ==
  {a \in Since(t) : caller[a] = m /\ row[a] \notin {"reserved", "submitted"}}

DirectSince(m, t) == {a \in Since(t) : caller[a] = m}

\* Seeded fault: a reservation fits as long as the limit is not reached.
WithinLimits_reached(m, t) ==
  /\ Cardinality(Since(t - Day)) < DayCalls
  /\ m \in Members => Cardinality(DirectSince(m, t - DirectWindow)) < DirectCalls
  /\ Usage(t - Day) < DayLimit
  /\ Usage(MonthStart(t)) < MonthLimit

WithinLimits(m, t) ==
  /\ Cardinality(Since(t - Day)) < DayCalls
  /\ m \in Members => Cardinality(DirectSince(m, t - DirectWindow)) < DirectCalls
  /\ ~WouldExceed(Usage(t - Day), Reservation[m], DayLimit)
  /\ ~WouldExceed(Usage(MonthStart(t)), Reservation[m], MonthLimit)

-----------------------------------------------------------------------------
(* generate.  The clock is read before the mutex is taken.                 *)
Begin(a, m) ==
  /\ at[a] = "idle" /\ row[a] \in {"none", "cancelled"} /\ billed[a] = 0
  /\ at' = [at EXCEPT ![a] = "begun"]
  /\ read' = [read EXCEPT ![a] = now]
  /\ caller' = [caller EXCEPT ![a] = m]
  /\ row' = [row EXCEPT ![a] = "none"]
  /\ charge' = [charge EXCEPT ![a] = 0]
  /\ UNCHANGED <<now, circuit, billed, faults>>

Reserve(a) ==
  /\ at[a] = "begun" /\ WithinLimits(caller[a], read[a])
  /\ at' = [at EXCEPT ![a] = "reserved"]
  /\ row' = [row EXCEPT ![a] = "reserved"]
  /\ charge' = [charge EXCEPT ![a] = Reservation[caller[a]]]
  /\ UNCHANGED <<now, circuit, read, caller, billed, faults>>

(* Text generation disabled by the operator, a limit reached, or another   *)
(* attempt's idempotency key: nothing is written.                          *)
Refuse(a) ==
  /\ at[a] = "begun"
  /\ at' = [at EXCEPT ![a] = "idle"]
  /\ UNCHANGED <<now, circuit, read, caller, row, charge, billed, faults>>

Admit(a) ==
  /\ at[a] = "reserved" /\ Admits(circuit, read[a])
  /\ circuit' = Admitted(circuit, read[a])
  /\ at' = [at EXCEPT ![a] = "admitted"]
  /\ UNCHANGED <<now, read, caller, row, charge, billed, faults>>

CircuitOpen(a) ==
  /\ at[a] = "reserved" /\ ~Admits(circuit, read[a])
  /\ at' = [at EXCEPT ![a] = "idle"]
  /\ row' = [row EXCEPT ![a] = "cancelled"]
  /\ UNCHANGED <<now, circuit, read, caller, charge, billed, faults>>

(* transmission_started, then the transfer: the provider may bill what the *)
(* request's token ceilings allow, and a request it does not bill costs    *)
(* less than one it does.                                                  *)
Send(a) ==
  /\ at[a] = "admitted"
  /\ at' = [at EXCEPT ![a] = "sent"]
  /\ row' = [row EXCEPT ![a] = "submitted"]
  /\ \E b \in 1..Reservation[caller[a]] : billed' = [billed EXCEPT ![a] = b]
  /\ UNCHANGED <<now, circuit, read, caller, charge, faults>>

(* release_unsent: the request fails or is called off before it is sent.   *)
ReleaseUnsent(a) ==
  /\ at[a] = "admitted"
  /\ at' = [at EXCEPT ![a] = "release"]
  /\ row' = [row EXCEPT ![a] = "cancelled"]
  /\ UNCHANGED <<now, circuit, read, caller, charge, billed, faults>>

(* A usable answer; unreported usage is charged in full.                   *)
Complete(a) ==
  /\ at[a] = "sent"
  /\ at' = [at EXCEPT ![a] = "succeeded"]
  /\ row' = [row EXCEPT ![a] = "succeeded"]
  /\ \E u \in {billed[a], Reservation[caller[a]]} : charge' = [charge EXCEPT ![a] = u]
  /\ UNCHANGED <<now, circuit, read, caller, billed, faults>>

(* No usable answer: an error, a refusal, an incomplete or oversized       *)
(* answer, cancellation, or complete itself failing.                       *)
Fail(a) ==
  /\ at[a] = "sent"
  /\ \E r \in Reports : at' = [at EXCEPT ![a] = r]
  /\ row' = [row EXCEPT ![a] = "failed"]
  /\ UNCHANGED <<now, circuit, read, caller, charge, billed, faults>>

Report(a) ==
  /\ at[a] \in Reports
  /\ circuit' = CASE at[a] = "succeeded" -> Succeeded(circuit)
                  [] at[a] = "release" -> Released(circuit, now)
                  [] OTHER -> Failed(circuit, at[a] = "authentication", now)
  /\ at' = [at EXCEPT ![a] = "idle"]
  /\ UNCHANGED <<now, read, caller, row, charge, billed, faults>>

(* A write that throws: a row keeps its state, and the call ends without   *)
(* what was to follow, except that an unsent one still releases its probe. *)
WriteFails(a) ==
  /\ at[a] \in {"reserved", "admitted", "sent"} \cup Reports
  /\ faults < MaxFaults
  /\ faults' = faults + 1
  /\ at' = [at EXCEPT ![a] = IF at[a] = "admitted" THEN "release" ELSE "idle"]
  /\ UNCHANGED <<now, circuit, read, caller, row, charge, billed>>

-----------------------------------------------------------------------------
\* Seeded fault: every attempt under way is taken for one that was not sent.
Recovered_cancelled(s) == IF s \in {"reserved", "submitted"} THEN "cancelled" ELSE s

(* recover_reserved and recover_submitted.                                 *)
Recovered(s) ==
  CASE s = "reserved" -> "cancelled" [] s = "submitted" -> "unknown" [] OTHER -> s

(* The process dies and starts again; no call is made before the service's *)
(* constructor has returned.                                               *)
Restart ==
  /\ at' = [a \in Attempts |-> "idle"]
  /\ row' = [a \in Attempts |-> Recovered(row[a])]
  /\ circuit' = Restarted(circuit, now)
  /\ UNCHANGED <<now, read, caller, charge, billed, faults>>

Tick ==
  /\ now < MaxClock
  /\ \A a \in Attempts : Live(a) => now - read[a] < CallLimit
  /\ now' = now + 1
  /\ UNCHANGED <<circuit, at, read, caller, row, charge, billed, faults>>

Step(a) ==
  \/ Reserve(a) \/ Refuse(a) \/ Admit(a) \/ CircuitOpen(a) \/ Send(a)
  \/ ReleaseUnsent(a) \/ Complete(a) \/ Fail(a) \/ Report(a) \/ WriteFails(a)

Next ==
  \/ \E a \in Attempts : (\E m \in Requesters : Begin(a, m)) \/ Step(a)
  \/ Restart \/ Tick

(* A call runs on a pool thread and each of its waits is bounded.          *)
Spec == Init /\ [][Next]_vars /\ \A a \in Attempts : WF_vars(Step(a))

-----------------------------------------------------------------------------
(* Types, and the columns' agreement with the place of a live call.        *)
TypeOK ==
  /\ now \in 0..MaxClock /\ faults \in 0..MaxFaults
  /\ circuit \in CircuitRow
  /\ at \in [Attempts -> Places]
  /\ read \in [Attempts -> 0..MaxClock]
  /\ caller \in [Attempts -> Requesters]
  /\ row \in [Attempts -> {"none", "reserved", "submitted", "succeeded",
                           "failed", "cancelled", "unknown"}]
  /\ charge \in [Attempts -> Nat] /\ billed \in [Attempts -> Nat]
  /\ \A a \in Attempts : charge[a] <= Reservation[caller[a]]
  /\ \A a \in Attempts : billed[a] <= Reservation[caller[a]]
  /\ \A a \in Attempts : at[a] = "sent" => row[a] = "submitted"

Bill(S) == SumFunctionOnSet(billed, S)

Made(from, to) == {a \in Attempts : row[a] # "none" /\ read[a] \in from..to}

(* Whatever the provider takes for the requests of any rolling day or of   *)
(* any month stays within its limit: with calls reserving on clock readings *)
(* that are out of order, answers that never come, rows left behind by     *)
(* failed writes and restarts in the middle of a transfer.                 *)
BudgetHolds ==
  \A t \in 0..MaxClock :
    /\ Bill(Made(t, t + Day)) <= DayLimit
    /\ Bill(Made(MonthStart(t), MonthStart(t) + Month - 1)) <= MonthLimit

(* No member gets more generations sent in any ten minutes, and the guild  *)
(* no more in any day, than the policy allows.                             *)
RatesHold ==
  \A t \in 0..MaxClock :
    LET Sent(from, to) == {a \in Made(from, to) : row[a] \notin {"reserved", "cancelled"}}
    IN /\ Cardinality(Sent(t, t + Day)) <= DayCalls
       /\ \A m \in Members :
            Cardinality({a \in Sent(t, t + DirectWindow) : caller[a] = m}) <= DirectCalls

Past(a) == at[a] \in {"admitted", "sent"} \cup Reports

(* A half-open circuit has one call under way, its probe, no earlier call  *)
(* can still report in the probe's place, and unless a write has failed    *)
(* the probe is there to end the state.                                    *)
OneProbe ==
  circuit.state = "half_open" =>
    LET probes == {a \in Attempts : Past(a)}
    IN Cardinality(probes) <= 1 /\ (faults = 0 => probes # {})

(* A configuration failure holds the circuit open until a restart, whatever *)
(* the calls that were already under way report afterwards.                *)
ConfigurationFailureSticks ==
  [][circuit.indefinite /\ ~circuit'.indefinite =>
       \A a \in Attempts : ~Live(a)']_vars

(* The comment at ai_generation.cpp:223 says of a success whose write to   *)
(* the circuit fails that the bookkeeping is recovered from subsequent     *)
(* calls: as long as calls keep asking for admission, a probe that was     *)
(* answered ends the half-open state.                                      *)
BookkeepingIsRecovered ==
  []<>(\E a \in Attempts : at[a] = "reserved") =>
    (circuit.state = "half_open" /\ (\E a \in Attempts : at[a] = "succeeded")
       ~> circuit.state # "half_open")
=============================================================================
