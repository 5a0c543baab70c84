--------------------------- MODULE ProviderCircuit ---------------------------
(***************************************************************************)
(* The persistent circuit breaker kept for each external provider: one row *)
(* of provider_circuit_state and the transactions on it, as functions from *)
(* the row and the caller's clock reading to the new row.  The text        *)
(* provider's copy in the AI generation repository is the same machine.    *)
(***************************************************************************)
EXTENDS Integers

CONSTANTS
  FailureWindow,    \* failure_window_ms: span of a failure count, cooldown
  FailureThreshold  \* failures within the window that open the circuit

(* Five minutes and three failures in the code.                            *)
CircuitAssumption ==
  FailureWindow \in Nat \ {0} /\ FailureThreshold \in Nat \ {0}

NoTime == -1

(* failures is not counted beyond the threshold; probe_in_flight holds     *)
(* exactly in half_open, and opened_at_ms decides nothing.                 *)
CircuitRow ==
 {c \in
    [state: {"closed", "open", "half_open"}, failures: 0..FailureThreshold,
     first: Nat \cup {NoTime}, retry: Nat \cup {NoTime}, indefinite: BOOLEAN] :
    /\ c.state = "closed" => c.retry = NoTime
    /\ c.indefinite => c.state = "open" /\ c.retry = NoTime
    /\ c.retry = NoTime => c.state = "closed" \/ c.indefinite}

Closed == [state |-> "closed", failures |-> 0, first |-> NoTime,
           retry |-> NoTime, indefinite |-> FALSE]

(* A call whose clock read t may be made: through a closed circuit, or as  *)
(* the probe of one whose cooldown has passed.                             *)
MayProbe(c, t) ==
  c.state = "open" /\ ~c.indefinite /\ c.retry # NoTime /\ c.retry <= t

Admits(c, t) == c.state = "closed" \/ MayProbe(c, t)

Admitted(c, t) == IF MayProbe(c, t) THEN [c EXCEPT !.state = "half_open"] ELSE c

\* Seeded fault: closing the circuit leaves the retry time set.
Succeeded_partly(c) == IF c.state = "open" THEN c
                       ELSE [c EXCEPT !.state = "closed", !.failures = 0]

Succeeded(c) == IF c.state = "open" THEN c ELSE Closed

\* Seeded fault: the probe of a call that was called off is not given back.
Released_kept(c, t) == c

(* A call that says nothing about the provider: a probe is given back.     *)
Released(c, t) ==
  IF c.state = "half_open"
  THEN [c EXCEPT !.state = "open", !.retry = t, !.indefinite = FALSE] ELSE c

Fresh(c, t) == c.first = NoTime \/ t - c.first > FailureWindow

Failures(c, t) ==
  IF Fresh(c, t) THEN 1
  ELSE IF c.failures < FailureThreshold THEN c.failures + 1 ELSE c.failures

\* Seeded fault: a failure after a configuration error sets a retry time.
Failed_downgraded(c, authentication, t) ==
  LET n == Failures(c, t) counted == [c EXCEPT !.failures = n,
                                        !.first = IF Fresh(c, t) THEN t ELSE c.first]
      opens == authentication \/ c.state = "half_open" \/ n >= FailureThreshold
  IN IF opens
     THEN [counted EXCEPT !.state = "open", !.indefinite = authentication,
             !.retry = IF authentication THEN NoTime ELSE t + FailureWindow]
     ELSE IF c.state = "closed" THEN counted ELSE c

(* A retryable or a configuration failure, reported at t.                  *)
Failed(c, authentication, t) ==
  LET n == Failures(c, t)
      counted == [c EXCEPT !.failures = n,
                    !.first = IF Fresh(c, t) THEN t ELSE c.first]
      opens == authentication \/ c.state = "half_open" \/ n >= FailureThreshold
  IN CASE ~opens /\ c.state = "closed" -> counted
       [] ~opens /\ c.state # "closed" -> c
       [] opens /\ c.indefinite -> c
       [] opens /\ ~c.indefinite ->
            [counted EXCEPT !.state = "open", !.indefinite = authentication,
               !.retry = IF authentication THEN NoTime ELSE t + FailureWindow]

(* A start gives a probe back and clears a configuration failure.          *)
Restarted(c, t) ==
  IF c.state = "open" /\ c.indefinite THEN Closed ELSE Released(c, t)
=============================================================================
