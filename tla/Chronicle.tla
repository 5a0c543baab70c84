----------------------------- MODULE Chronicle -----------------------------
(* The Living Chronicle (ChronicleService and its repository): proposals    *)
(* from messages, voice and appearances, their drafts, reviewers, sealed    *)
(* notices and announcements, the canon and its retraction; and explicit   *)
(* memories with their volatile drafts and expiry jobs.                    *)
(* An entry is named by its source, of which there is never a second one.  *)
EXTENDS Integers, FiniteSets

CONSTANTS
  Members, Owner,
  Entries,       \* the sources members may propose
  Author,        \* of each source: a member, or NoAuthor for an appearance
  NoAuthor,
  Subjects,      \* of each source, the members it mentions
  Memories,      \* the drafts members may preview, each by its Keeper
  Keeper,
  Lasting,       \* memories that never expire
  Capacity,      \* draft groups the process holds
  PreviewLife,   \* preview_lifetime of controls and drafts
  NoticeLife,    \* notice_lifetime
  StaleAge,      \* stale_approval_age_ms
  MemoryLife,
  MaxAttempts,   \* claims a job may have
  RetryDelay,    \* retry_delay_ms after an attempt that failed
  MaxClock,      \* the clock stops here
  MaxRevision,   \* drafts are edited up to here
  MaxChanges     \* changes of consent, lapsed leases and failed presses

VARIABLES
  clock,
  optIn,         \* members with chronicle_opt_in
  entry,         \* chronicle_entry
  approval,      \* chronicle_approval with its notice and announcement
  token,         \* active interaction tokens
  said,          \* the last public post queued about an entry
  draft,         \* VolatileChronicleActions, by group
  memory,        \* memory rows
  job,           \* memory expiry jobs
  working,       \* claims of expiry jobs that workers hold
  changes        \* changes made so far

vars == <<clock, optIn, entry, approval, token, said, draft, memory, job,
          working, changes>>

Visibilities == {"shared", "participant_only"}
Buttons == {"confirm", "cancel"}
NoMember == "none"

(* Whoever wrote a message or is mentioned by it is a member with a row of *)
(* their own, and so is the owner; lifetimes are durations.                *)
ASSUME ChronicleAssumption ==
  /\ Owner \in Members /\ NoMember \notin Members /\ NoAuthor \notin Members
  /\ Author \in [Entries -> Members \cup {NoAuthor}]
  /\ Subjects \in [Entries -> SUBSET Members]
  /\ {PreviewLife, NoticeLife, StaleAge, MemoryLife, Capacity} \subseteq Nat
  /\ {MaxAttempts, RetryDelay} \subseteq Nat \ {0}

Appearance(e) == Author[e] = NoAuthor
Participants(e) ==
  {entry[e].by} \cup Subjects[e] \cup (IF Appearance(e) THEN {} ELSE {Author[e]})

With(f, k, v) == [x \in DOMAIN f \cup {k} |-> IF x = k THEN v ELSE f[x]]
Nothing == [x \in {} |-> 0]

-----------------------------------------------------------------------------
(* Controls *)

(* An active control of a member: on the entry, or on an approval of it,   *)
(* which is then named by its role.                                        *)
Control(e, act, by, role, rev, life) ==
  [entry |-> e, act |-> act, by |-> by, role |-> role, rev |-> rev,
   expires |-> clock + life]

OnEntry(e)    == {t \in token : t.entry = e /\ t.role = "entry"}
OnApproval(e, role) == {t \in token : t.entry = e /\ t.role = role}

(* load_active_token: the control exists, is the presser's, has not        *)
(* expired, and the entry still has the revision it was made for.          *)
Live(e, act, by, role) ==
  {t \in token : /\ t.entry = e /\ t.act = act /\ t.by = by /\ t.role = role
                 /\ t.expires > clock /\ t.rev = entry[e].rev}

DraftControls(e, u, rev) ==
  {Control(e, act, u, "entry", rev, PreviewLife) : act \in {"edit", "submit", "retract"}}

ReviewControls(e, by, role, rev, life) ==
  {Control(e, act, by, role, rev, life) : act \in {"approve", "decline"}}

(* A request shows nothing any more; one withdrawn asks nothing either.    *)
Quiet(a) == [a EXCEPT
  !.notice = IF @ \in {"pending", "opened"} THEN "cancelled" ELSE @,
  !.card   = IF @ = "pending" THEN "cancelled" ELSE @]
Withdrawn(a) == [Quiet(a) EXCEPT !.state = IF @ = "pending" THEN "cancelled" ELSE @]

(* cancel_approval_artifacts: every control of the entry and its approvals,*)
(* every notice not consumed, every announcement not sent.                 *)
ArtifactsCancelled(e) ==
  /\ token' = {t \in token : t.entry # e}
  /\ approval' = [approval EXCEPT ![e] = [k \in DOMAIN @ |-> Withdrawn(@[k])]]

-----------------------------------------------------------------------------
(* Proposals *)

(* The proposer and the author consent, and for a private entry everyone.  *)
MayPropose(u, e, vis) ==
  /\ u \in optIn
  /\ Appearance(e) \/ Author[e] \in optIn
  /\ vis = "participant_only" => Subjects[e] \subseteq optIn

Propose(u, e, vis) ==
  /\ entry[e].status = "none"
  /\ MayPropose(u, e, vis)
  /\ entry' = [entry EXCEPT ![e] =
       [status |-> "proposed", by |-> u, vis |-> vis, submitted |-> FALSE, rev |-> 1]]
  /\ token' = token \cup DraftControls(e, u, 1)
  /\ UNCHANGED <<clock, optIn, approval, said, draft, memory, job, working, changes>>

(* The proposer of a draft asks again: new controls in place of the old.   *)
Reissue(u, e, vis) ==
  /\ entry[e].status = "proposed" /\ ~entry[e].submitted /\ entry[e].by = u
  /\ MayPropose(u, e, vis)
  /\ token' = (token \ OnEntry(e)) \cup DraftControls(e, u, entry[e].rev)
  /\ UNCHANGED <<clock, optIn, entry, approval, said, draft, memory, job,
                 working, changes>>

Pending(e) == {k \in DOMAIN approval[e] : approval[e][k].state = "pending"}
StaleKeys(e) == {k \in Pending(e) : approval[e][k].at <= clock - StaleAge}

(* Seeded fault: the reviewer's own controls stay.                         *)
OwnerTakesOver_both(u, e) ==
  /\ entry[e].status = "proposed" /\ entry[e].submitted
  /\ entry[e].vis = "shared" /\ entry[e].by # Owner /\ u = Owner
  /\ MayPropose(u, e, "shared")
  /\ \E k \in StaleKeys(e) :
       /\ approval' = [approval EXCEPT ![e] =
            With(With(@, k, [Quiet(@[k]) EXCEPT !.state = "cancelled"]),
                 <<Owner, "owner_stale">>,
                 [state |-> "pending", rev |-> entry[e].rev, at |-> clock,
                  notice |-> "none", card |-> "none"])]
       /\ token' = token \cup
            ReviewControls(e, Owner, "owner_stale", entry[e].rev, PreviewLife)
  /\ UNCHANGED <<clock, optIn, entry, said, draft, memory, job, working, changes>>

(* The owner asks about a shared entry of another member whose reviewer    *)
(* let the request go stale: the owner decides in the reviewer's place.    *)
OwnerTakesOver(u, e) ==
  /\ entry[e].status = "proposed" /\ entry[e].submitted
  /\ entry[e].vis = "shared" /\ entry[e].by # Owner /\ u = Owner
  /\ MayPropose(u, e, "shared")
  /\ \E k \in StaleKeys(e) \cup {x \in Pending(e) : x[2] = "owner_stale"} :
       /\ approval' = [approval EXCEPT ![e] =
            LET kept == IF k[2] = "owner_stale" THEN @
                        ELSE With(@, k, [Quiet(@[k]) EXCEPT !.state = "cancelled"])
            IN With(kept, <<Owner, "owner_stale">>,
                 [state |-> "pending", rev |-> entry[e].rev, at |-> clock,
                  notice |-> "none", card |-> "none"])]
       /\ token' = (token \ OnApproval(e, k[2])) \cup
            ReviewControls(e, Owner, "owner_stale", entry[e].rev, PreviewLife)
  /\ UNCHANGED <<clock, optIn, entry, said, draft, memory, job, working, changes>>

Asked(e, at) ==
  [state |-> "pending", rev |-> entry[e].rev, at |-> at, notice |-> "pending",
   card |-> IF entry[e].vis = "shared" THEN "pending" ELSE "none"]

(* The proposer of a submitted entry asks again: stale requests are put    *)
(* anew, if everyone still consents.                                       *)
RenewRequests(u, e, vis) ==
  /\ entry[e].status = "proposed" /\ entry[e].submitted /\ entry[e].by = u
  /\ ~(entry[e].vis = "shared" /\ u = Owner /\ entry[e].by # Owner)
  /\ MayPropose(u, e, vis)
  /\ StaleKeys(e) # {}
  /\ entry[e].vis = "participant_only" => Participants(e) \subseteq optIn
  /\ \A k \in StaleKeys(e) : k[1] \in optIn
  /\ approval' = [approval EXCEPT ![e] =
       [k \in DOMAIN @ |-> IF k \in StaleKeys(e) THEN Asked(e, clock) ELSE @[k]]]
  /\ token' = {t \in token : ~(t.entry = e /\ <<t.by, t.role>> \in StaleKeys(e))}
       \cup UNION {ReviewControls(e, k[1], k[2], entry[e].rev, NoticeLife) :
                     k \in StaleKeys(e)}
  /\ UNCHANGED <<clock, optIn, entry, said, draft, memory, job, working, changes>>

(* Seeded fault: the other controls keep the revision they were made for.  *)
Edit_unrefreshed(u, e, vis) ==
  /\ entry[e].status = "proposed" /\ ~entry[e].submitted /\ entry[e].by = u
  /\ Live(e, "edit", u, "entry") # {}
  /\ vis = "participant_only" => Participants(e) \subseteq optIn
  /\ entry' = [entry EXCEPT ![e].vis = vis, ![e].rev = @ + 1]
  /\ token' = token \ Live(e, "edit", u, "entry")
  /\ UNCHANGED <<clock, optIn, approval, said, draft, memory, job, working, changes>>

(* The draft is edited; the controls that are left go with the revision.   *)
Edit(u, e, vis) ==
  /\ entry[e].status = "proposed" /\ ~entry[e].submitted /\ entry[e].by = u
  /\ Live(e, "edit", u, "entry") # {}
  /\ vis = "participant_only" => Participants(e) \subseteq optIn
  /\ entry' = [entry EXCEPT ![e].vis = vis, ![e].rev = @ + 1]
  /\ token' = LET used == Live(e, "edit", u, "entry") IN
       {IF t \in OnEntry(e) THEN [t EXCEPT !.rev = entry[e].rev + 1] ELSE t :
          t \in token \ used}
  /\ UNCHANGED <<clock, optIn, approval, said, draft, memory, job, working, changes>>

(* Who must agree: for a shared entry its author, or the owner when the    *)
(* author is the proposer or a machine; for a private one all others.      *)
Reviewers(e) ==
  IF entry[e].vis = "shared"
  THEN LET r == IF Appearance(e) \/ Author[e] = entry[e].by THEN Owner ELSE Author[e]
       IN {<<r, IF r = Owner THEN "owner" ELSE "participant">>}
  ELSE {<<p, "participant">> : p \in Participants(e) \ {entry[e].by}}

(* An owner's own words need another's approval and have none.             *)
Submittable(e) ==
  /\ entry[e].vis = "shared" =>
       LET r == CHOOSE k \in Reviewers(e) : TRUE IN
       /\ r[1] # entry[e].by \/ Appearance(e)
       /\ {entry[e].by, r[1]} \subseteq optIn
       /\ Appearance(e) \/ Author[e] \in optIn
  /\ entry[e].vis = "participant_only" => Participants(e) \subseteq optIn

Submit(u, e) ==
  /\ entry[e].status = "proposed" /\ ~entry[e].submitted /\ entry[e].by = u
  /\ Live(e, "submit", u, "entry") # {}
  /\ Submittable(e)
  /\ LET rev  == entry[e].rev + 1
         mine == [state |-> "approved", rev |-> rev, at |-> clock,
                  notice |-> "none", card |-> "none"]
     IN
     /\ entry' = [entry EXCEPT ![e].submitted = TRUE,
          ![e].status = IF Reviewers(e) = {} THEN "canon" ELSE "proposed",
          ![e].rev = IF Reviewers(e) = {} THEN rev + 1 ELSE rev]
     /\ approval' = [approval EXCEPT ![e] =
          [k \in Reviewers(e) \cup {<<u, "proposer">>} |->
             IF k = <<u, "proposer">> THEN mine
             ELSE [Asked(e, clock) EXCEPT !.rev = rev]]]
     /\ token' = (token \ OnEntry(e)) \cup
          UNION {ReviewControls(e, k[1], k[2], rev, NoticeLife) : k \in Reviewers(e)}
  /\ UNCHANGED <<clock, optIn, said, draft, memory, job, working, changes>>

(* A reviewer opens the sealed notice, which holds the controls.           *)
OpenNotice(e, k) ==
  /\ approval[e][k].notice = "pending"
  /\ approval' = [approval EXCEPT ![e][k].notice = "opened"]
  /\ UNCHANGED <<clock, optIn, entry, token, said, draft, memory, job, working, changes>>

(* The announcement of a notice is sent (the Outbox module has the details)*)
Announce(e, k) ==
  /\ approval[e][k].card = "pending"
  /\ approval' = [approval EXCEPT ![e][k].card = "sent"]
  /\ UNCHANGED <<clock, optIn, entry, token, said, draft, memory, job, working, changes>>

(* Seeded fault: only the presser's consent is asked again.                *)
Consented_presser(u, e) == u \in optIn

(* Everyone whose consent the canon needs gives it at the moment of the    *)
(* approval.                                                               *)
Consented(u, e) ==
  /\ {u, entry[e].by} \subseteq optIn
  /\ Appearance(e) \/ Author[e] \in optIn
  /\ entry[e].vis = "participant_only" => Participants(e) \subseteq optIn

(* A control of a request is pressed: shown by its notice, or to the owner *)
(* who took over.                                                          *)
Pressed(u, e, role, act) ==
  /\ entry[e].status = "proposed"
  /\ <<u, role>> \in Pending(e)
  /\ Live(e, act, u, role) # {}
  /\ approval[e][<<u, role>>].rev = entry[e].rev
  /\ role # "owner_stale" => approval[e][<<u, role>>].notice = "opened"

Settled(a, state) == [a EXCEPT !.state = state,
                               !.notice = IF @ = "opened" THEN "consumed" ELSE @]

(* The last approval makes the entry canon and, if shared, says so.        *)
Approve(u, e, role) ==
  LET k == <<u, role>>
      last == Pending(e) = {k}
  IN
  /\ Pressed(u, e, role, "approve") /\ Consented(u, e)
  /\ token' = token \ (IF last THEN {t \in token : t.entry = e}
                       ELSE {t \in OnApproval(e, role) : t.by = u})
  /\ approval' = [approval EXCEPT ![e] =
       [x \in DOMAIN @ |->
          LET a == IF x = k THEN Settled(@[x], "approved") ELSE @[x]
          IN IF last THEN Quiet(a) ELSE a]]
  /\ entry' = IF last THEN [entry EXCEPT ![e].status = "canon", ![e].rev = @ + 1]
              ELSE entry
  /\ said' = IF last /\ entry[e].vis = "shared" THEN [said EXCEPT ![e] = "canon"]
             ELSE said
  /\ UNCHANGED <<clock, optIn, draft, memory, job, working, changes>>

Gone(e) == [entry EXCEPT ![e].status = "retracted", ![e].rev = @ + 1]

(* Seeded fault: the other requests stay open.                             *)
Decline_alone(u, e, role) ==
  /\ Pressed(u, e, role, "decline")
  /\ entry' = Gone(e)
  /\ token' = token \ {t \in OnApproval(e, role) : t.by = u}
  /\ approval' = [approval EXCEPT ![e][<<u, role>>] = Settled(@, "declined")]
  /\ UNCHANGED <<clock, optIn, said, draft, memory, job, working, changes>>

(* One refusal retracts the entry and withdraws every other request.       *)
Decline(u, e, role) ==
  /\ Pressed(u, e, role, "decline")
  /\ entry' = Gone(e)
  /\ token' = {t \in token : t.entry # e}
  /\ approval' = [approval EXCEPT ![e] =
       [x \in DOMAIN @ |->
          IF x = <<u, role>> THEN Quiet(Settled(@[x], "declined"))
          ELSE Withdrawn(@[x])]]
  /\ UNCHANGED <<clock, optIn, said, draft, memory, job, working, changes>>

(* The proposer takes the draft back by its control.                       *)
RetractDraft(u, e) ==
  /\ entry[e].status = "proposed" /\ entry[e].by = u
  /\ Live(e, "retract", u, "entry") # {}
  /\ entry' = Gone(e)
  /\ token' = token \ OnEntry(e)
  /\ UNCHANGED <<clock, optIn, approval, said, draft, memory, job, working, changes>>

(* Seeded fault: nothing is said of a retraction.                          *)
RetractEntry_silent(u, e) ==
  /\ entry[e].status \in {"proposed", "canon"}
  /\ u \in Participants(e) \/ (entry[e].vis = "shared" /\ u = Owner)
  /\ entry' = Gone(e)
  /\ ArtifactsCancelled(e)
  /\ UNCHANGED <<clock, optIn, said, draft, memory, job, working, changes>>

(* An entry is retracted by anyone in it, a shared one by the owner too.   *)
RetractEntry(u, e) ==
  /\ entry[e].status \in {"proposed", "canon"}
  /\ u \in Participants(e) \/ (entry[e].vis = "shared" /\ u = Owner)
  /\ entry' = Gone(e)
  /\ ArtifactsCancelled(e)
  /\ said' = IF entry[e].status = "canon" /\ entry[e].vis = "shared"
             THEN [said EXCEPT ![e] = "retracted"] ELSE said
  /\ UNCHANGED <<clock, optIn, draft, memory, job, working, changes>>

-----------------------------------------------------------------------------
(* Memories *)

Busy(m)  == \E b \in DOMAIN draft[m].button :
              draft[m].button[b] \in {"in_progress", "applied"}
Kept == {m \in DOMAIN draft : draft[m].expires > clock \/ Busy(m)}
Within(f, keys) == [k \in keys |-> f[k]]

(* A preview offers Confirm and Cancel; it makes room by dropping the      *)
(* oldest group nobody is pressing.                                        *)
Preview(m) ==
  /\ m \notin DOMAIN draft /\ memory[m].status = "none"
  /\ \E gone \in SUBSET {x \in DOMAIN draft : ~Busy(x)} :
       /\ Cardinality(DOMAIN draft \ gone) < Capacity
       /\ Cardinality(DOMAIN draft) < Capacity => gone = {}
       /\ Cardinality(gone) <= 1
       /\ \A x \in gone : \A y \in {z \in DOMAIN draft : ~Busy(z)} :
            draft[x].expires <= draft[y].expires
       /\ draft' = With(Within(draft, DOMAIN draft \ gone), m,
            [expires |-> clock + PreviewLife,
             button |-> [b \in Buttons |-> "active"]])
  /\ UNCHANGED <<clock, optIn, entry, approval, token, said, memory, job, working, changes>>

(* Seeded fault: each button is claimed for itself.                        *)
Claimable_alone(m, b) == draft[m].button[b] = "active"

(* A button is claimed while no button of its group is in progress.        *)
Claimable(m, b) == draft[m].button[b] = "active" /\ ~Busy(m)

Press(m, b) ==
  /\ m \in Kept /\ b \in DOMAIN draft[m].button
  /\ draft[m].expires > clock
  /\ Claimable(m, b)
  /\ draft' = [Within(draft, Kept) EXCEPT ![m].button[b] = "in_progress"]
  /\ UNCHANGED <<clock, optIn, entry, approval, token, said, memory, job, working, changes>>

(* finish: the other buttons of the group go, this one answers repeats.    *)
Finished(m, b) ==
  [draft EXCEPT ![m].button = [x \in {b} |-> "completed"]]

(* confirm_memory: stored once, with a job that is due when it expires.    *)
Confirm(m) ==
  /\ m \in DOMAIN draft /\ "confirm" \in DOMAIN draft[m].button
  /\ draft[m].button["confirm"] = "in_progress"
  /\ draft' = [draft EXCEPT ![m].button["confirm"] = "applied"]
  /\ IF memory[m].status = "none" /\ Keeper[m] \in optIn
     THEN /\ memory' = [memory EXCEPT ![m] =
               [status |-> "confirmed", expires |-> clock + MemoryLife]]
          /\ job' = [job EXCEPT ![m].state = IF m \in Lasting THEN "none" ELSE "pending",
                                ![m].due = clock + MemoryLife]
     ELSE UNCHANGED <<memory, job>>
  /\ UNCHANGED <<clock, optIn, entry, approval, token, said, working, changes>>

(* Then its button is finished; a cancelled draft has nothing to store.    *)
Finish(m, b) ==
  /\ b \in DOMAIN draft[m].button
  /\ draft[m].button[b] = IF b = "confirm" THEN "applied" ELSE "in_progress"
  /\ draft' = Finished(m, b)
  /\ UNCHANGED <<clock, optIn, entry, approval, token, said, memory, job, working, changes>>

(* The repository failed: the button may be pressed again.                 *)
PressFails(m, b) ==
  /\ b \in DOMAIN draft[m].button /\ draft[m].button[b] = "in_progress"
  /\ changes < MaxChanges /\ changes' = changes + 1
  /\ draft' = [draft EXCEPT ![m].button[b] = "active"]
  /\ UNCHANGED <<clock, optIn, entry, approval, token, said, memory, job, working>>

RetractMemory(u, m) ==
  /\ memory[m].status = "confirmed" /\ u \in {Keeper[m], Owner}
  /\ memory' = [memory EXCEPT ![m].status = "retracted"]
  /\ job' = [job EXCEPT ![m].state = IF @ = "pending" THEN "cancelled" ELSE @]
  /\ UNCHANGED <<clock, optIn, entry, approval, token, said, draft, working, changes>>

(* claim_due_job: a worker claims a job that is due, or one whose lease ran *)
(* out; a job that had all its attempts is dead.                           *)
ClaimExpiry(m) ==
  /\ \/ job[m].state = "pending" /\ job[m].due <= clock /\ UNCHANGED changes
     \/ job[m].state = "claimed" /\ changes < MaxChanges /\ changes' = changes + 1
  /\ IF job[m].tried < MaxAttempts
     THEN /\ job' = [job EXCEPT ![m] = [@ EXCEPT !.state = "claimed",
                      !.lease = job[m].lease + 1, !.tried = job[m].tried + 1]]
          /\ working' = working \cup {<<m, job[m].lease + 1>>}
     ELSE job' = [job EXCEPT ![m].state = "dead"] /\ UNCHANGED working
  /\ UNCHANGED <<clock, optIn, entry, approval, token, said, draft, memory>>

(* Seeded fault: whatever fails once is not tried again.                   *)
Failed_once(j) == [j EXCEPT !.state = "dead"]

(* fail_job: the job waits for its next attempt, which is due later, until *)
(* it had all of them.                                                     *)
Failed(j) ==
  IF j.tried < MaxAttempts
  THEN [j EXCEPT !.state = "pending", !.due = clock + RetryDelay]
  ELSE [j EXCEPT !.state = "dead"]

(* A worker is done with its claim, which changes the job only while the   *)
(* claim is current.                                                       *)
Done(m, lease) == <<m, lease>> \in working /\ working' = working \ {<<m, lease>>}
Current(m, lease) == job[m].state = "claimed" /\ job[m].lease = lease

(* expire_memory, under the lease of this worker only.  It refuses a job   *)
(* that is not due when the memory expires, as a job that failed before is *)
(* not; the handler throws then, and the job fails again.                  *)
ExpireMemory(m, lease) ==
  /\ Done(m, lease)
  /\ IF ~Current(m, lease) THEN UNCHANGED <<job, memory>>
     ELSE IF memory[m].status = "confirmed" /\ job[m].due # memory[m].expires
     THEN job' = [job EXCEPT ![m] = Failed(@)] /\ UNCHANGED memory
     ELSE /\ job' = [job EXCEPT ![m].state = "completed"]
          /\ memory' = [memory EXCEPT ![m].status =
               IF @ = "confirmed" THEN "expired" ELSE @]
  /\ UNCHANGED <<clock, optIn, entry, approval, token, said, draft, changes>>

(* The handler throws for any other reason.                                *)
ExpiryFails(m, lease) ==
  /\ Done(m, lease) /\ Current(m, lease)
  /\ job' = [job EXCEPT ![m] = Failed(@)]
  /\ UNCHANGED <<clock, optIn, entry, approval, token, said, draft, memory, changes>>

(* The process stops: the claim is given back and was no attempt.          *)
ExpiryReleased(m, lease) ==
  /\ Done(m, lease) /\ Current(m, lease)
  /\ changes < MaxChanges /\ changes' = changes + 1
  /\ job' = [job EXCEPT ![m].state = "pending", ![m].tried = @ - 1]
  /\ UNCHANGED <<clock, optIn, entry, approval, token, said, draft, memory>>

(* recall: what a member may see.                                          *)
Recalled(u) ==
  IF u \notin optIn THEN {} ELSE
  {e \in Entries : /\ entry[e].status = "canon"
                   /\ entry[e].vis = "shared" \/ u \in Participants(e)}
  \cup {m \in Memories : memory[m].status = "confirmed"
                         /\ (m \in Lasting \/ memory[m].expires > clock)}

-----------------------------------------------------------------------------
SetConsent(u) ==
  /\ changes < MaxChanges /\ changes' = changes + 1
  /\ optIn' = IF u \in optIn THEN optIn \ {u} ELSE optIn \cup {u}
  /\ UNCHANGED <<clock, entry, approval, token, said, draft, memory, job, working>>

(* An expired control is as good as none; drafts are purged.               *)
Tick ==
  /\ clock < MaxClock
  /\ clock' = clock + 1
  /\ token' = {t \in token : t.expires > clock + 1}
  /\ draft' = Within(draft, {m \in DOMAIN draft :
                               draft[m].expires > clock + 1 \/ Busy(m)})
  /\ UNCHANGED <<optIn, entry, approval, said, memory, job, working, changes>>

Init ==
  /\ clock = 0 /\ optIn = Members
  /\ entry = [e \in Entries |-> [status |-> "none", by |-> NoMember,
                                 vis |-> "shared", submitted |-> FALSE, rev |-> 0]]
  /\ approval = [e \in Entries |-> Nothing]
  /\ token = {} /\ said = [e \in Entries |-> "nothing"]
  /\ draft = Nothing
  /\ memory = [m \in Memories |-> [status |-> "none", expires |-> 0]]
  /\ job = [m \in Memories |-> [state |-> "none", due |-> 0, lease |-> 0, tried |-> 0]]
  /\ working = {} /\ changes = 0

EntryStep ==
  \E e \in Entries :
    \/ \E u \in Members :
         \/ \E vis \in Visibilities :
              \/ Propose(u, e, vis) \/ Reissue(u, e, vis) \/ RenewRequests(u, e, vis)
              \/ entry[e].rev < MaxRevision /\ Edit(u, e, vis)
         \/ OwnerTakesOver(u, e)
         \/ Submit(u, e) \/ RetractDraft(u, e) \/ RetractEntry(u, e)
         \/ \E role \in {"participant", "owner", "owner_stale"} :
              Approve(u, e, role) \/ Decline(u, e, role)
    \/ \E k \in DOMAIN approval[e] : OpenNotice(e, k) \/ Announce(e, k)

MemoryStep ==
  \/ \E m \in Memories :
       \/ Preview(m) \/ Confirm(m) \/ ClaimExpiry(m)
       \/ \E u \in Members : RetractMemory(u, m)
       \/ \E lease \in 1..(MaxAttempts + MaxChanges) :
            ExpireMemory(m, lease) \/ ExpiryFails(m, lease) \/ ExpiryReleased(m, lease)
  \/ \E m \in DOMAIN draft : \E b \in Buttons : Press(m, b) \/ PressFails(m, b) \/ Finish(m, b)

Next == EntryStep \/ MemoryStep \/ (\E u \in Members : SetConsent(u)) \/ Tick

Spec == Init /\ [][Next]_vars

-----------------------------------------------------------------------------
(* Properties *)

TypeOK ==
  /\ \A e \in Entries :
       /\ entry[e].status \in {"none", "proposed", "canon", "retracted"}
       /\ entry[e].status = "none" <=> entry[e].by = NoMember
       /\ entry[e].submitted <=> DOMAIN approval[e] # {}
  /\ \A t \in token : t.by \in Members /\ t.rev >= 1
  /\ DOMAIN draft \subseteq Memories /\ Cardinality(DOMAIN draft) <= Capacity

(* What becomes canon was agreed to as it is: by its author, or by the     *)
(* owner for the silent author, and by every participant of a private      *)
(* entry, each at the revision that became canon, while all of them        *)
(* consent; and no member makes their own shared words canon alone.        *)
CanonIsAgreed ==
  [][\A e \in Entries :
       entry'[e].status = "canon" /\ entry[e].status # "canon" =>
         LET agreed == {k \in DOMAIN approval'[e] :
                          /\ approval'[e][k].state = "approved"
                          /\ approval'[e][k].rev = entry'[e].rev - 1}
         IN
         /\ {entry[e].by} \cup (IF Appearance(e) THEN {} ELSE {Author[e]}) \subseteq optIn
         /\ IF entry[e].vis = "shared"
            THEN \E k \in agreed : k[2] # "proposer" /\ k[1] \in {Author[e], Owner}
                   /\ (k[1] # entry[e].by \/ Appearance(e))
            ELSE /\ \A p \in Participants(e) : \E k \in agreed : k[1] = p
                 /\ Participants(e) \subseteq optIn]_vars

(* The controls a member holds are good: each is on a proposed entry at    *)
(* the revision that entry has, and each request has its reviewer's; an    *)
(* entry under review can still be decided, and one that is not leaves no  *)
(* request, notice or announcement behind.                                 *)
ControlsAreCurrent ==
  \A e \in Entries :
    /\ \A t \in token : t.entry = e /\ t.expires > clock =>
         /\ entry[e].status = "proposed" /\ t.rev = entry[e].rev
         /\ t.role = "entry" <=> ~entry[e].submitted
         /\ t.role # "entry" => <<t.by, t.role>> \in Pending(e)
    /\ entry[e].status = "proposed" /\ entry[e].submitted => Pending(e) # {}
    /\ entry[e].status \in {"canon", "retracted"} =>
         \A k \in DOMAIN approval[e] :
           /\ approval[e][k].state # "pending" /\ approval[e][k].card # "pending"
           /\ approval[e][k].notice \notin {"pending", "opened"}

(* The last public word about an entry is true: it is announced as canon   *)
(* exactly while it is shared canon.                                       *)
PublicWordIsTrue ==
  \A e \in Entries :
    said[e] = "canon" <=> entry[e].status = "canon" /\ entry[e].vis = "shared"

(* The public word of the Chronicle is true: cards and controls show the   *)
(* entry as it is, and what was retracted is shown nowhere.                *)
PublicWordHolds == ControlsAreCurrent /\ PublicWordIsTrue

(* A draft is confirmed or cancelled, never both, however often and        *)
(* wherever its buttons are pressed; a memory that will expire has its job *)
(* until it does, or until the job had every attempt it may have, and it   *)
(* never expires early nor by a job that failed.                           *)
MemoriesEnd ==
  /\ \A m \in DOMAIN draft :
       memory[m].status # "none" /\ "cancel" \in DOMAIN draft[m].button =>
         draft[m].button["cancel"] # "completed"
  /\ \A m \in Memories \ Lasting :
       /\ memory[m].status = "confirmed" =>
            \/ job[m].state \in {"pending", "claimed"}
            \/ job[m].state = "dead" /\ job[m].tried >= MaxAttempts
       /\ job[m].state = "completed" => memory[m].status \in {"expired", "retracted"}
       /\ memory[m].status = "expired" =>
            memory[m].expires <= clock /\ job[m].due = memory[m].expires
=============================================================================
