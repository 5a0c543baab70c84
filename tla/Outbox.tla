------------------------------- MODULE Outbox -------------------------------
(***************************************************************************)
(* The durable outbox: rows of the outbox_message table, the OutboxService *)
(* workers that claim and deliver them, and the Discord REST endpoint they *)
(* talk to.                                                                *)
(*                                                                         *)
(* Every database statement of the repository is one atomic step (the      *)
(* connection mutex and an immediate transaction).  Between two statements *)
(* of a handler anything else may run: another worker, a crash, a stop     *)
(* request, the gateway losing readiness, time.                            *)
(*                                                                         *)
(* Instants are kept as distances from now, counted down (leases, retry    *)
(* times, request deadlines) or up (age of the first attempt) by Tick, so  *)
(* the state is finite without a horizon.                                  *)
(***************************************************************************)
EXTENDS Integers, Sequences

CONSTANTS
  PublicRows,     \* rows of kind discord.message.v1
  EditRows,       \* rows of kind discord.message_edit.v1
  Source,         \* Source[e]: the public row whose message e replaces
  Revision,       \* Revision[e]: the card revision e carries
  Predecessors,   \* Predecessors[r]: rows that must be settled before r
  Workers,        \* threads of the outbox executor
  Tokens,         \* lease tokens (UUIDs)
  NoToken,
  NoRow,
  MaxAttempts,    \* max_attempts of every row
  ClaimLease,     \* lease_duration_ms
  ReceiptWait,    \* receipt_wait_timeout
  LeaseMargin,    \* submission_lease_margin_ms
  NonceWindow,    \* nonce_retry_window_ms
  RetryDelays,    \* the delays of retry_delay_ms
  WireDelay,      \* a request reaches Discord, or is lost, within this time
  ProviderMemory  \* how long Discord refuses a nonce it has accepted

Rows == PublicRows \cup EditRows

ASSUME OutboxAssumption ==
  /\ PublicRows \cap EditRows = {}
  /\ NoRow \notin Rows /\ NoToken \notin Tokens
  /\ Source \in [EditRows -> PublicRows]
  /\ Revision \in [EditRows -> Nat \ {0}]
  /\ Predecessors \in [Rows -> SUBSET Rows]
  /\ MaxAttempts \in Nat \ {0}
  /\ ClaimLease \in Nat \ {0}
  /\ ReceiptWait \in Nat \ {0}
  /\ LeaseMargin \in Nat
  /\ NonceWindow \in Nat
  /\ RetryDelays \in Seq(Nat) /\ RetryDelays # <<>>
  /\ WireDelay \in Nat
  /\ ProviderMemory \in Nat \ {0}

(* The message that a row is about.                                        *)
Card(r) == IF r \in PublicRows THEN r ELSE Source[r]

(* What rules out a second message.  A request ends within the timeout of  *)
(* the HTTP client, before the handler stops waiting for its receipt, and  *)
(* Discord remembers a nonce longer than the handler dares to resend it.   *)
ASSUME TimingAssumption ==
  /\ WireDelay < ReceiptWait
  /\ NonceWindow + WireDelay < ProviderMemory

(* A row about a message waits for every earlier row about the same one    *)
(* (the created_at_ms clauses of the claim query), and revisions are       *)
(* queued in order.                                                        *)
ASSUME OrderAssumption ==
  /\ \A r, s \in Rows :
       r # s /\ Card(r) = Card(s) => r \in Predecessors[s] \/ s \in Predecessors[r]
  /\ \A e, f \in EditRows :
       e \in Predecessors[f] /\ Source[e] = Source[f]
         => Revision[e] <= Revision[f]

VARIABLES
  row,       \* the outbox_message table
  worker,    \* what each executor thread holds in memory
  ready,     \* DiscordStatusProvider::status().ready
  stopping,  \* the stop token of the service
  wire,      \* requests handed to the HTTP client and not yet answered
  posts,     \* number of messages visible in Discord for a public row
  memory,    \* remaining time Discord remembers the row's nonce
  shown      \* revision of the card visible in Discord

vars == <<row, worker, ready, stopping, wire, posts, memory, shown>>

Open     == {"pending", "claimed"}
Terminal == {"delivered", "failed", "dead", "cancelled"}

(* last_error_code: "unknown" is discord_unknown_outcome, the one code the *)
(* handlers read; "stale" is discord_unknown_outcome_stale, the quarantine *)
(* of a message that may or may not exist.                                 *)
Errors == {"none", "unknown", "stale", "other"}

Results == {"success", "transient", "permanent", "unknown"}

(* What a waiting worker holds: "none" until the callback runs, which it   *)
(* may never do.                                                           *)
Receipts == Results \cup {"none"}

(* first: whether a first attempt is recorded, and under which boot id.    *)
RowRecord ==
  [state: {"absent"} \cup Open \cup Terminal, attempts: 0..MaxAttempts,
   token: Tokens \cup {NoToken}, lease: Nat, wait: Nat,
   first: {"never", "this boot", "earlier boot"}, age: Nat,
   submitted: BOOLEAN, error: Errors]

WorkerRecord ==
  [pc: {"idle", "claimed", "cleared", "waiting"}, row: Rows \cup {NoRow},
   token: Tokens \cup {NoToken}, attempts: 0..MaxAttempts,
   first: {"never", "this boot", "earlier boot"}, ambiguous: BOOLEAN,
   receipt: Receipts, timer: Nat]

AbsentRow ==
  [state |-> "absent", attempts |-> 0, token |-> NoToken, lease |-> 0,
   wait |-> 0, first |-> "never", age |-> 0, submitted |-> FALSE,
   error |-> "none"]

IdleWorker ==
  [pc |-> "idle", row |-> NoRow, token |-> NoToken, attempts |-> 0,
   first |-> "never", ambiguous |-> FALSE, receipt |-> "none", timer |-> 0]

Init ==
  /\ row = [r \in Rows |-> AbsentRow]
  /\ worker = [w \in Workers |-> IdleWorker]
  /\ ready \in BOOLEAN
  /\ stopping = FALSE
  /\ wire = {}
  /\ posts = [r \in PublicRows |-> 0]
  /\ memory = [r \in PublicRows |-> 0]
  /\ shown = [r \in PublicRows |-> 0]

-----------------------------------------------------------------------------
(* Helpers *)

Lower(a, b) == IF a < b THEN a ELSE b
Upper(a, b) == IF a > b THEN a ELSE b
Earlier(n)  == IF n = 0 THEN 0 ELSE n - 1

RetryDelay(n) ==
  RetryDelays[IF n = 0 THEN 1 ELSE Lower(n, Len(RetryDelays))]

(* Seeded fault: the submission asks for no more than the claim lease.     *)
SubmissionLease_short == ClaimLease

(* The lease a submission asks for outlives the wait for its receipt.      *)
SubmissionLease == ReceiptWait + LeaseMargin

(* Seeded fault: the age of the first attempt is not compared.             *)
WithinNonceWindow_ageless(first, age) == first = "this boot"

(* A resend is allowed only under the boot that recorded the first attempt *)
(* and while Discord is known to remember the nonce.                       *)
WithinNonceWindow(first, age) == first = "this boot" /\ age <= NonceWindow

(* Seeded fault: the WHERE clause names the row but not the lease token.   *)
Owns_anyToken(w) ==
  /\ worker[w].row \in Rows
  /\ row[worker[w].row].state = "claimed"

(* The row still carries the worker's lease token: the WHERE clause of     *)
(* every statement that settles a claim.                                   *)
Owns(w) ==
  /\ worker[w].row \in Rows
  /\ row[worker[w].row].state = "claimed"
  /\ row[worker[w].row].token = worker[w].token

(* A settling statement: changes the row when the claim is still owned,    *)
(* else reports a stale claim; either way the worker is done.              *)
Settle(w, settled) ==
  /\ row' = IF Owns(w) THEN [row EXCEPT ![worker[w].row] = settled] ELSE row
  /\ worker' = [worker EXCEPT ![w] = IdleWorker]

(* Seeded fault: submission_started_at survives the end of the claim.      *)
Unleased_keepsSubmission(rec, state, error) ==
  [rec EXCEPT !.state = state, !.token = NoToken, !.lease = 0,
              !.error = error]

Unleased(rec, state, error) ==
  [rec EXCEPT !.state = state, !.token = NoToken, !.lease = 0,
              !.submitted = FALSE, !.error = error]

(* fail_outbox: a retryable failure goes back to pending while attempts    *)
(* remain, else the row is terminal.                                       *)
FailedRow(w, mode, error) ==
  LET rec == row[worker[w].row]
  IN IF mode = "retryable" /\ worker[w].attempts < MaxAttempts
       THEN [Unleased(rec, "pending", error)
               EXCEPT !.wait = RetryDelay(worker[w].attempts)]
       ELSE Unleased(rec, IF mode = "failed" THEN "failed" ELSE "dead", error)

(* release_outbox is refused once a submission has started.                *)
Release(w) ==
  LET rec == row[worker[w].row]
  IN Settle(w, IF rec.submitted THEN rec
               ELSE [Unleased(rec, "pending", rec.error)
                       EXCEPT !.attempts = Earlier(@)])

-----------------------------------------------------------------------------
(* Producers *)

(* enqueue_public, or a repository that adds a card edit: a pending row.   *)
(* Rows a later row depends on are inserted before it.                     *)
Enqueue(r) ==
  /\ row[r].state = "absent"
  /\ \A p \in Predecessors[r] : row[p].state # "absent"
  /\ row' = [row EXCEPT ![r].state = "pending"]
  /\ UNCHANGED <<worker, ready, stopping, wire, posts, memory, shown>>

(* cancel_outbox: only a pending row can be withdrawn.                     *)
Cancel(r) ==
  /\ row[r].state = "pending"
  /\ row' = [row EXCEPT ![r].state = "cancelled"]
  /\ UNCHANGED <<worker, ready, stopping, wire, posts, memory, shown>>

-----------------------------------------------------------------------------
(* Claiming *)

Due(rec) ==
  \/ rec.state = "pending" /\ rec.wait = 0
  \/ rec.state = "claimed" /\ rec.lease = 0

(* Seeded fault: expired last attempts are quarantined, but a due row      *)
(* without attempts left is otherwise left alone.                          *)
Swept_noExhaustion ==
  [r \in Rows |->
     LET rec == row[r]
     IN IF Due(rec) /\ rec.attempts = MaxAttempts
            /\ r \in PublicRows /\ rec.submitted
          THEN Unleased(rec, "failed", "stale")
        ELSE rec]

(* The two sweeps at the head of claim_due_outbox: an expired last attempt *)
(* that had been handed to Discord is quarantined as an unknown outcome,   *)
(* every other due row without attempts left is dead.                      *)
Swept ==
  [r \in Rows |->
     LET rec == row[r]
     IN IF ~Due(rec) \/ rec.attempts < MaxAttempts THEN rec
        ELSE IF r \in PublicRows /\ rec.submitted
          THEN Unleased(rec, "failed", "stale")
        ELSE IF ready \/ r \in EditRows
          THEN Unleased(rec, "dead", "other")
        ELSE rec]

(* Seeded fault: an edit only waits for the card, not for earlier edits.   *)
Eligible_anyOrder(table, r) ==
  /\ Due(table[r])
  /\ table[r].attempts < MaxAttempts
  /\ ready \/ r \in EditRows
  /\ \A p \in Predecessors[r] \cap PublicRows : table[p].state \notin Open

Eligible(table, r) ==
  /\ Due(table[r])
  /\ table[r].attempts < MaxAttempts
  /\ ready \/ r \in EditRows
  /\ \A p \in Predecessors[r] : table[p].state \notin Open

FreshTokens ==
  Tokens \ ({row[r].token : r \in Rows} \cup {worker[w].token : w \in Workers}
            \cup {q.token : q \in wire})

(* process_one and claim_due_outbox: sweep, then claim one due row under a *)
(* fresh token.  submission_started_at and last_error stay on the row, the *)
(* worker takes a copy of what it will decide on.                          *)
Claim(w, r) ==
  /\ worker[w].pc = "idle"
  /\ ~stopping
  /\ Eligible(Swept, r)
  /\ FreshTokens # {}
  /\ LET token == CHOOSE t \in FreshTokens : TRUE
         rec   == Swept[r]
     IN /\ row' = [Swept EXCEPT ![r] =
                     [rec EXCEPT !.state = "claimed", !.token = token,
                                 !.lease = ClaimLease,
                                 !.attempts = @ + 1]]
        /\ worker' = [worker EXCEPT ![w] =
                        [IdleWorker EXCEPT
                           !.pc = "claimed", !.row = r, !.token = token,
                           !.attempts = rec.attempts + 1,
                           !.first = rec.first,
                           !.ambiguous = \/ rec.submitted
                                         \/ rec.error = "unknown"]]
  /\ UNCHANGED <<ready, stopping, wire, posts, memory, shown>>

(* A poll that finds no eligible row still commits the sweeps.             *)
Sweep(w) ==
  /\ worker[w].pc = "idle"
  /\ ~stopping
  /\ \A r \in Rows : ~Eligible(Swept, r)
  /\ Swept # row
  /\ row' = Swept
  /\ UNCHANGED <<worker, ready, stopping, wire, posts, memory, shown>>

-----------------------------------------------------------------------------
(* The handlers *)

(* An unknown kind, an undecodable payload or a request outside the        *)
(* configured guild and channel: the row is dead.                          *)
Reject(w) ==
  /\ worker[w].pc = "claimed"
  /\ Settle(w, FailedRow(w, "dead", "other"))
  /\ UNCHANGED <<ready, stopping, wire, posts, memory, shown>>

(* An exception out of a handler, caught by process_one.  The public       *)
(* handler catches what happens after its submission itself; the edit      *)
(* handler does not.                                                       *)
HandlerThrows(w) ==
  /\ \/ worker[w].pc \in {"claimed", "cleared"}
     \/ worker[w].pc = "waiting" /\ worker[w].row \in EditRows
                                 /\ worker[w].receipt # "none"
  /\ Settle(w, FailedRow(w, "retryable", "other"))
  /\ UNCHANGED <<ready, stopping, wire, posts, memory, shown>>

(* The settling statement itself failed and the exception was swallowed:   *)
(* the row keeps its lease until it expires.                               *)
AbandonClaim(w) ==
  /\ worker[w].pc \in {"claimed", "cleared", "waiting"}
  /\ worker[w].pc = "waiting" => worker[w].receipt # "none"
  /\ worker' = [worker EXCEPT ![w] = IdleWorker]
  /\ UNCHANGED <<row, ready, stopping, wire, posts, memory, shown>>

(* A stop request or a gateway that is not ready gives the claim back.     *)
GiveBack(w) ==
  /\ worker[w].pc = "claimed"
  /\ stopping \/ ~ready
  /\ Release(w)
  /\ UNCHANGED <<ready, stopping, wire, posts, memory, shown>>

(* handle_public: a later attempt outside the nonce window is not resent.  *)
Quarantine(w) ==
  LET k == worker[w]
  IN /\ k.pc = "claimed" /\ k.row \in PublicRows
     /\ ready
     /\ k.first # "never" /\ k.attempts > 1
     /\ ~WithinNonceWindow(k.first, row[k.row].age)
     /\ Settle(w, FailedRow(w, "failed",
                            IF k.ambiguous THEN "stale" ELSE "other"))
     /\ UNCHANGED <<ready, stopping, wire, posts, memory, shown>>

(* handle_public_edit: the card itself was not delivered (yet).            *)
EditTargetMissing(w) ==
  LET k == worker[w]
  IN /\ k.pc = "claimed" /\ k.row \in EditRows
     /\ ready
     /\ row[Source[k.row]].state # "delivered"
     /\ Settle(w, FailedRow(w, "retryable", "other"))
     /\ UNCHANGED <<ready, stopping, wire, posts, memory, shown>>

(* Every check of the handler passed.                                      *)
Clear(w) ==
  LET k == worker[w]
  IN /\ k.pc = "claimed"
     /\ ready /\ ~stopping
     /\ IF k.row \in PublicRows
          THEN k.first # "never" /\ k.attempts > 1
                 => WithinNonceWindow(k.first, row[k.row].age)
          ELSE row[Source[k.row]].state = "delivered"
     /\ worker' = [worker EXCEPT ![w].pc = "cleared"]
     /\ UNCHANGED <<row, ready, stopping, wire, posts, memory, shown>>

(* Seeded fault: the request goes out before the attempt is on record.     *)
Submit_unrecorded(w) ==
  LET k == worker[w]
  IN /\ k.pc = "cleared"
     /\ IF Owns(w)
          THEN /\ row' = [row EXCEPT ![k.row].lease = Upper(@, SubmissionLease)]
               /\ wire' = wire \cup {[row |-> k.row, token |-> k.token,
                                      left |-> WireDelay]}
               /\ worker' = [worker EXCEPT
                               ![w].pc = "waiting", ![w].timer = ReceiptWait]
          ELSE /\ worker' = [worker EXCEPT ![w] = IdleWorker]
               /\ UNCHANGED <<row, wire>>
     /\ UNCHANGED <<ready, stopping, posts, memory, shown>>

(* mark_public_outbox_submitted, and when it applied the request to        *)
(* Discord.  The first attempt is recorded once; the lease is only ever    *)
(* extended.                                                               *)
Submit(w) ==
  LET k   == worker[w]
      rec == row[k.row]
  IN /\ k.pc = "cleared"
     /\ IF Owns(w)
          THEN /\ row' = [row EXCEPT ![k.row] =
                            [rec EXCEPT
                               !.first = IF @ = "never" THEN "this boot" ELSE @,
                               !.submitted = TRUE,
                               !.lease = Upper(@, SubmissionLease)]]
               /\ wire' = wire \cup {[row |-> k.row, token |-> k.token,
                                      left |-> WireDelay]}
               /\ worker' = [worker EXCEPT
                               ![w].pc = "waiting", ![w].timer = ReceiptWait,
                               ![w].first = IF @ = "never" THEN "this boot"
                                            ELSE @]
          ELSE /\ worker' = [worker EXCEPT ![w] = IdleWorker]
               /\ UNCHANGED <<row, wire>>
     /\ UNCHANGED <<ready, stopping, posts, memory, shown>>

(* classify_discord_delivery_failure for a public message, and the same    *)
(* table for an edit, which has no nonce window.                           *)
FailureMode(r, result, within) ==
  IF result = "permanent" THEN "failed"
  ELSE IF r \in EditRows \/ within THEN "retryable"
  ELSE "failed"

FailureError(r, result, within) ==
  IF r \in EditRows \/ result # "unknown" THEN "other"
  ELSE IF within THEN "unknown"
  ELSE "stale"

(* Seeded fault: an edit without a receipt is taken to have been made.     *)
SettleWith_optimistic(w, result) ==
  LET k      == worker[w]
      rec    == row[k.row]
      within == WithinNonceWindow(k.first, rec.age)
  IN IF result = "success" \/ (result = "unknown" /\ k.row \in EditRows)
       THEN Settle(w, IF rec.submitted
                      THEN Unleased(rec, "delivered", "none") ELSE rec)
       ELSE Settle(w, FailedRow(w, FailureMode(k.row, result, within),
                                FailureError(k.row, result, within)))

(* complete_public_outbox, or fail_outbox as the result is classified.     *)
SettleWith(w, result) ==
  LET k      == worker[w]
      rec    == row[k.row]
      within == WithinNonceWindow(k.first, rec.age)
  IN IF result = "success"
       THEN Settle(w, IF rec.submitted
                      THEN Unleased(rec, "delivered", "none") ELSE rec)
       ELSE Settle(w, FailedRow(w, FailureMode(k.row, result, within),
                                FailureError(k.row, result, within)))

(* handle_receipt: the receipt arrived while the worker waited for it.     *)
HandleReceipt(w) ==
  /\ worker[w].pc = "waiting" /\ worker[w].receipt # "none"
  /\ SettleWith(w, worker[w].receipt)
  /\ UNCHANGED <<ready, stopping, wire, posts, memory, shown>>

(* No receipt in time is an unknown outcome.                               *)
ReceiptTimeout(w) ==
  /\ worker[w].pc = "waiting" /\ worker[w].receipt = "none"
  /\ worker[w].timer = 0 /\ ~stopping
  /\ SettleWith(w, "unknown")
  /\ UNCHANGED <<ready, stopping, wire, posts, memory, shown>>

(* A stop request ends the wait and leaves the row claimed and submitted.  *)
LeaveSubmitted(w) ==
  /\ worker[w].pc = "waiting" /\ worker[w].receipt = "none" /\ stopping
  /\ worker' = [worker EXCEPT ![w] = IdleWorker]
  /\ UNCHANGED <<row, ready, stopping, wire, posts, memory, shown>>

-----------------------------------------------------------------------------
(* The process *)

SetReady ==
  /\ ready' = ~ready
  /\ UNCHANGED <<row, worker, stopping, wire, posts, memory, shown>>

Stop ==
  /\ ~stopping
  /\ stopping' = TRUE
  /\ UNCHANGED <<row, worker, ready, wire, posts, memory, shown>>

(* stop() joins the poller and the workers; the next process starts.       *)
Restart ==
  /\ stopping
  /\ \A w \in Workers : worker[w].pc = "idle"
  /\ stopping' = FALSE
  /\ UNCHANGED <<row, worker, ready, wire, posts, memory, shown>>

(* The process dies: memory is lost, the table and the requests already    *)
(* handed to the network are not.  A reboot also changes the boot id.      *)
Crash(reboot) ==
  /\ worker' = [w \in Workers |-> IdleWorker]
  /\ stopping' = FALSE
  /\ row' = [r \in Rows |->
               IF reboot /\ row[r].first # "never"
                 THEN [row[r] EXCEPT !.first = "earlier boot"] ELSE row[r]]
  /\ UNCHANGED <<ready, wire, posts, memory, shown>>

(* Time.  A worker goes from its checks to its request, and a request      *)
(* reaches its end, within their tick.  The age is kept while an open      *)
(* public row can still read it.                                           *)
Tick ==
  /\ \A q \in wire : q.left > 0
  /\ \A w \in Workers : worker[w].pc # "cleared"
  /\ row' = [r \in Rows |->
               [row[r] EXCEPT
                  !.lease = Earlier(@), !.wait = Earlier(@),
                  !.age = IF r \in PublicRows /\ row[r].first # "never"
                              /\ row[r].state \in Open
                            THEN Lower(@ + 1, NonceWindow + 1) ELSE 0]]
  /\ worker' = [w \in Workers |-> [worker[w] EXCEPT !.timer = Earlier(@)]]
  /\ wire' = {[q EXCEPT !.left = @ - 1] : q \in wire}
  /\ memory' = [r \in PublicRows |-> Earlier(memory[r])]
  /\ UNCHANGED <<ready, stopping, posts, shown>>

-----------------------------------------------------------------------------
(* Discord *)

(* The worker that made the request, if it still waits, gets the receipt;  *)
(* a late receipt finds nobody.                                            *)
Answer(q, result) ==
  /\ wire' = wire \ {q}
  /\ worker' = [w \in Workers |->
                  IF worker[w].pc = "waiting" /\ worker[w].token = q.token
                       /\ worker[w].receipt = "none"
                    THEN [worker[w] EXCEPT !.receipt = result]
                    ELSE worker[w]]

(* The request takes effect.  A nonce that Discord remembers makes no      *)
(* second message.  The answer may be lost or replaced by a gateway error. *)
Land(q, result) ==
  /\ q \in wire
  /\ result \in {"success", "unknown", "transient", "none"}
  /\ Answer(q, result)
  /\ IF q.row \in PublicRows
       THEN /\ posts' = [posts EXCEPT ![q.row] =
                           IF memory[q.row] > 0 THEN @ ELSE @ + 1]
            /\ memory' = [memory EXCEPT ![q.row] =
                            IF @ > 0 THEN @ ELSE ProviderMemory]
            /\ shown' = shown
       ELSE /\ shown' = [shown EXCEPT ![Source[q.row]] = Revision[q.row]]
            /\ UNCHANGED <<posts, memory>>
  /\ UNCHANGED <<row, ready, stopping>>

(* The request has no effect.                                              *)
Lose(q, result) ==
  /\ q \in wire
  /\ result \in {"unknown", "transient", "permanent", "none"}
  /\ Answer(q, result)
  /\ UNCHANGED <<row, ready, stopping, posts, memory, shown>>

-----------------------------------------------------------------------------
Handle(w) ==
  \/ Reject(w) \/ HandlerThrows(w) \/ AbandonClaim(w) \/ GiveBack(w)
  \/ Quarantine(w) \/ EditTargetMissing(w) \/ Clear(w) \/ Submit(w)
  \/ HandleReceipt(w) \/ ReceiptTimeout(w) \/ LeaveSubmitted(w)

Discord ==
  \E q \in wire, result \in Receipts : Land(q, result) \/ Lose(q, result)

Next ==
  \/ \E r \in Rows : Enqueue(r) \/ Cancel(r)
  \/ \E w \in Workers, r \in Rows : Claim(w, r)
  \/ \E w \in Workers : Sweep(w) \/ Handle(w)
  \/ SetReady \/ Stop \/ Restart
  \/ \E reboot \in BOOLEAN : Crash(reboot)
  \/ Tick
  \/ Discord

(* The poller submits work every second and a claim takes the oldest due   *)
(* row, so a row that keeps being due is claimed; threads, requests and    *)
(* clocks make progress.  Crashes, stops and readiness are not fair.       *)
Fairness ==
  /\ \A r \in Rows : SF_vars(\E w \in Workers : Claim(w, r))
  /\ WF_vars(\E w \in Workers : Sweep(w))
  /\ \A w \in Workers : WF_vars(Handle(w))
  /\ WF_vars(Tick) /\ WF_vars(Discord) /\ WF_vars(Restart)

Spec == Init /\ [][Next]_vars /\ Fairness

-----------------------------------------------------------------------------
(* Properties *)

(* The columns have their types and respect the CHECK constraints of the   *)
(* table: a statement that broke one would throw instead of settling.      *)
TypeOK ==
  /\ row \in [Rows -> RowRecord]
  /\ worker \in [Workers -> WorkerRecord]
  /\ ready \in BOOLEAN /\ stopping \in BOOLEAN
  /\ wire \in SUBSET [row: Rows, token: Tokens, left: Nat]
  /\ posts \in [PublicRows -> Nat]
  /\ memory \in [PublicRows -> Nat]
  /\ shown \in [PublicRows -> Nat]
  /\ \A r \in Rows :
       /\ (row[r].state = "claimed") <=> (row[r].token # NoToken)
       /\ row[r].submitted =>
            row[r].state = "claimed" /\ row[r].first # "never"

(* A claim is fenced: two workers never both pass the ownership test of    *)
(* the same row, whatever leases ran out while one of them was stalled.    *)
ExclusiveClaim ==
  \A v, w \in Workers :
    Owns(v) /\ Owns(w) /\ worker[v].row = worker[w].row => v = w

(* The lease taken at submission outlives the request: no second request   *)
(* for a message or its edits is made while one is still under way, even   *)
(* across a stop, a crash or a reboot.                                     *)
OneSubmission ==
  \A p, q \in wire : Card(p.row) = Card(q.row) => p = q

(* Retries, lease takeovers and restarts never make a second message.      *)
AtMostOnePost == \A r \in PublicRows : posts[r] <= 1

(* A row recorded as delivered is visible in Discord.                      *)
DeliveredIsVisible ==
  \A r \in Rows : row[r].state = "delivered" =>
    IF r \in PublicRows THEN posts[r] > 0
    ELSE shown[Source[r]] >= Revision[r]

(* A message is submitted once at a time and posted at most once within    *)
(* the nonce window, and a row that says delivered is visible: a worker's  *)
(* late answer, a lost one, a crash or a retry never makes it two or none. *)
PostedOnce == OneSubmission /\ AtMostOnePost /\ DeliveredIsVisible

(* The outbox keeps the promise stated in Delivery for public messages.    *)
DeliveryStatus(rec) ==
  CASE rec.state = "absent"    -> "new"
    [] rec.state = "delivered" -> "delivered"
    [] rec.state \in Open      -> IF rec.first = "never" THEN "offered"
                                  ELSE "tried"
    [] OTHER                   -> IF rec.first = "never" THEN "unsent"
                                  ELSE "unresolved"

Promise(r) == INSTANCE Delivery WITH
                status  <- DeliveryStatus(row[r]),
                visible <- posts[r] > 0

ImplementsDelivery ==
  /\ \A r \in PublicRows : Promise(r)!Init
  /\ [][\A r \in PublicRows : [Promise(r)!Next]_(Promise(r)!vars)]_vars

(* A card edited by several outbox rows never goes back to an earlier      *)
(* revision.                                                               *)
CardNeverRegresses == [][\A p \in PublicRows : shown'[p] >= shown[p]]_vars

(* Once Discord stays ready and the service is not stopped any more, every *)
(* row is settled, however many crashes there are: each one costs an       *)
(* attempt.                                                                *)
Settles ==
  <>[](ready /\ ~stopping) =>
    \A r \in Rows : row[r].state \in Open ~> row[r].state \in Terminal
=============================================================================
