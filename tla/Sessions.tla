------------------------------ MODULE Sessions ------------------------------
(* Chronicle sessions (ChronicleSessionService and its repository): one     *)
(* session at a time, the canon and the transient context it collects, its *)
(* summary generated by a job and reviewed by the owner, and the titles     *)
(* members are given.  Entries come and go while a session lasts and while *)
(* its summary is generated; members withdraw their consent at any time.   *)
EXTENDS Integers, FiniteSets

CONSTANTS
  Members, Owner,
  Entries, Actor,   \* entries members may propose, each with its member
  Lines, By,        \* messages in the channel, each with its author
  Curated,          \* titles the owner may propose
  MaxSessions, MaxContext,
  Retention,        \* session_context_retention_ms
  ReviewLife,       \* review_lifetime of the controls
  MaxAttempts,      \* claims a job may have
  RetryDelay,       \* retry_delay_ms after an attempt that failed
  MaxClock,         \* the clock stops here
  MaxRevision,      \* drafts are edited up to here
  MaxChanges        \* changes of consent, retractions and lapsed leases

VARIABLES
  clock, optIn,
  entry,      \* chronicle_entry, shared ones: proposed, canon or retracted
  session,    \* chronicle_session, in the order they were opened
  linked,     \* chronicle_session_entry
  joined,     \* chronicle_session_participant
  context,    \* chronicle_session_context: when each line was observed
  draft,      \* chronicle_summary_draft
  review,     \* the owner's controls on it and the notice that shows them
  job,        \* the summary job of a session
  purge,      \* its context purge job
  task,       \* what workers hold: claimed jobs and what they read
  grant,      \* chronicle_title_grant
  changes     \* changes made so far

rows == <<entry, session, linked, joined, context, draft, review, job, purge, grant>>
vars == <<clock, optIn, rows, task, changes>>

SessionIds == 1..MaxSessions
Chapter(s) == <<"chapter", s>>
Award(g)   == <<"award", g>>
Names      == SessionIds \cup Curated   \* what a title is named by
NoReview   == [rev |-> 0, until |-> 0, notice |-> "none"]
Nothing    == [x \in {} |-> 0]

With(f, k, v) == [x \in DOMAIN f \cup {k} |-> IF x = k THEN v ELSE f[x]]
Within(f, S)  == [x \in S |-> f[x]]

(* Entries that members propose are no chapters or awards, and titles of    *)
(* the owner's are not those of a session.                                 *)
SessionAssumption ==
  /\ IsFiniteSet(Lines) /\ Owner \in Members
  /\ {MaxSessions, MaxContext, Retention, ReviewLife, MaxRevision} \subseteq Nat
  /\ {MaxAttempts, RetryDelay} \subseteq Nat \ {0}
  /\ Curated \cap SessionIds = {}
  /\ \A e \in Entries : /\ \A s \in SessionIds : e # Chapter(s)
                        /\ \A g \in Names \X Members : e # Award(g)

Active  == {s \in SessionIds : session[s].state \in {"open", "closing"}}
Open    == {s \in SessionIds : session[s].state = "open"}
Canon(s) == {e \in linked[s] : entry[e] = "canon"}

Change == changes < MaxChanges /\ changes' = changes + 1

-----------------------------------------------------------------------------
(* What a session collects *)

(* The triggers: an entry inserted, or made canon, while a session is open  *)
(* is linked to it, and its members take part; so does who acts.           *)
LinkedNow(e) ==
  [s \in SessionIds |-> IF s \in Open THEN linked[s] \cup {e} ELSE linked[s]]

JoinedBy(U) ==
  [s \in SessionIds |-> IF s \in Open THEN joined[s] \cup (U \cap optIn)
                        ELSE joined[s]]
JoinedNow(u) == JoinedBy({u})

EntryProposed(e) ==
  /\ e \notin DOMAIN entry
  /\ entry' = With(entry, e, "proposed")
  /\ linked' = LinkedNow(e) /\ joined' = JoinedNow(Actor[e])
  /\ UNCHANGED <<clock, optIn, session, context, draft, review, job, purge,
                 task, grant, changes>>

EntryCanon(e) ==
  /\ e \in DOMAIN entry /\ entry[e] = "proposed"
  /\ entry' = [entry EXCEPT ![e] = "canon"]
  /\ linked' = LinkedNow(e) /\ joined' = JoinedNow(Actor[e])
  /\ UNCHANGED <<clock, optIn, session, context, draft, review, job, purge,
                 task, grant, changes>>

EntryRetracted(e, u) ==
  /\ Change
  /\ entry[e] # "retracted"
  /\ entry' = [entry EXCEPT ![e] = "retracted"] /\ joined' = JoinedNow(u)
  /\ UNCHANGED <<clock, optIn, session, linked, context, draft, review,
                 job, purge, task, grant>>

SetConsent(u) ==
  /\ Change
  /\ optIn' = IF u \in optIn THEN optIn \ {u} ELSE optIn \cup {u}
  /\ UNCHANGED <<clock, rows, task>>

(* One session at a time, opened by a member who consents.                 *)
Start(u, s) ==
  /\ u \in optIn /\ Active = {}
  /\ session[s].state = "none" /\ \A p \in 1..(s - 1) : session[p].state # "none"
  /\ session' = [session EXCEPT ![s] = [state |-> "open", by |-> u, closing |-> 0]]
  /\ joined' = [joined EXCEPT ![s] = {u}]
  /\ UNCHANGED <<clock, optIn, entry, linked, context, draft, review, job, purge,
                 task, grant, changes>>

(* What is left of the context within its retention.                       *)
Fresh(s) == Within(context[s], {l \in DOMAIN context[s] :
                                  context[s][l] > clock - Retention})

(* Of too many lines the oldest go.                                        *)
Capped(c) ==
  IF Cardinality(DOMAIN c) <= MaxContext THEN {c}
  ELSE {Within(c, DOMAIN c \ {l}) : l \in {x \in DOMAIN c : \A y \in DOMAIN c : c[x] <= c[y]}}

HasPurge(s) == purge[s].state \in {"pending", "claimed"}
Waiting(s, due)  == [purge[s] EXCEPT !.state = "pending", !.due = due]

(* A job of its own after those that ended; lost tells that one was dead.   *)
NewPurge(s, due) ==
  [Waiting(s, due) EXCEPT !.tried = 0, !.lost = @ \/ purge[s].state = "dead"]

(* observe_context: a line of a member who consents, with a purge job for  *)
(* the context of an open session.                                         *)
Observe(l, s) ==
  /\ s \in Open /\ By[l] \in optIn
  /\ IF l \in DOMAIN Fresh(s)
     THEN context' = [context EXCEPT ![s] = Fresh(s)] /\ UNCHANGED <<joined, purge>>
     ELSE /\ \E c \in Capped(With(Fresh(s), l, clock)) :
               context' = [context EXCEPT ![s] = c]
          /\ joined' = [joined EXCEPT ![s] = @ \cup {By[l]}]
          /\ purge' = IF HasPurge(s) THEN purge
                      ELSE [purge EXCEPT ![s] = NewPurge(s, clock + Retention)]
  /\ UNCHANGED <<clock, optIn, entry, session, linked, draft, review, job, task,
                 grant, changes>>

-----------------------------------------------------------------------------
(* Closing and the summary *)

Abandon(s) ==
  /\ session' = [session EXCEPT ![s].state = "abandoned"]
  /\ context' = [context EXCEPT ![s] = Nothing]
  /\ purge' = [purge EXCEPT ![s].state = IF @ = "pending" THEN "cancelled" ELSE @]
  /\ UNCHANGED <<draft, job>>

(* Seeded fault: a purge job that a worker holds is taken for none.        *)
PurgeAfterClose_pending(s) ==
  [purge EXCEPT ![s] = IF @.state = "pending" THEN Waiting(s, clock + Retention)
                       ELSE [@ EXCEPT !.state = "cancelled"]]

(* A pending purge waits for the retention after closing; one that a worker *)
(* holds finds that out itself.                                            *)
PurgeAfterClose(s) ==
  [purge EXCEPT ![s] = IF @.state = "claimed" THEN @
                       ELSE IF @.state = "pending" THEN Waiting(s, clock + Retention)
                       ELSE NewPurge(s, clock + Retention)]

(* By its opener or the owner.  Without canon it is abandoned; otherwise    *)
(* it has a fallback draft and a job for a better one.                     *)
Close(u, s) ==
  /\ s \in Open /\ u \in {session[s].by, Owner}
  /\ IF Canon(s) = {} THEN Abandon(s)
     ELSE /\ session' = [session EXCEPT ![s].state = "closing", ![s].closing = clock]
          /\ context' = [context EXCEPT ![s] = Fresh(s)]
          /\ draft' = [draft EXCEPT ![s] =
               [state |-> "pending", rev |-> 1, source |-> "fallback"]]
          /\ job' = [job EXCEPT ![s].state = "pending"]
          /\ purge' = PurgeAfterClose(s)
  /\ UNCHANGED <<clock, optIn, entry, linked, joined, review, task, grant, changes>>

(* load_summary_context: the canon, the participants and lines of those    *)
(* who consent, as of now.                                                 *)
SummaryContext(s) ==
  [people  |-> joined[s] \cap optIn,
   entries |-> Canon(s),
   lines   |-> {l \in DOMAIN context[s] : By[l] \in optIn}]

Hold(kind, s, lease, read) == [kind |-> kind, s |-> s, lease |-> lease, read |-> read]
Unread == [people |-> {}, entries |-> {}, lines |-> {}]

ClaimSummary(s) ==
  /\ job[s].state = "pending"
  /\ job' = [job EXCEPT ![s].state = "claimed", ![s].lease = @ + 1]
  /\ task' = task \cup {Hold("claimed", s, job[s].lease + 1, Unread)}
  /\ UNCHANGED <<clock, optIn, entry, session, linked, joined, context, draft,
                 review, purge, grant, changes>>

(* The worker, or the fallback of a full queue, reads what there is.       *)
Read(t) ==
  /\ t.kind = "claimed"
  /\ task' = (task \ {t}) \cup {Hold("generating", t.s, t.lease, SummaryContext(t.s))}
  /\ UNCHANGED <<clock, optIn, rows, changes>>

(* enqueue_summary_review: new controls with their sealed notice.          *)
Asked(rev) == [rev |-> rev, until |-> clock + ReviewLife, notice |-> "queued"]

Grant(u) == [state |-> "proposed", featured |-> FALSE, rev |-> 1, who |-> u]

(* validate_summary_candidate: titles for participants, each at most one.  *)
Valid(t, titled) == titled \subseteq t.read.people

(* Seeded fault: what was read is taken for what there is.                 *)
SameContext_assumed(t) == TRUE
SameContext(t) == t.read = SummaryContext(t.s)

(* complete_summary_job, under the lease of this worker: what was read must *)
(* still be so, or the job is released and everything read again.  A valid *)
(* candidate replaces the fallback and may propose titles for those who     *)
(* were read as participants; either way the session is closed and the     *)
(* owner asked.                                                            *)
Complete(t, model, titled) ==
  LET s   == t.s
      rev == IF model THEN draft[s].rev + 1 ELSE draft[s].rev
  IN
  /\ t.kind = "generating" /\ task' = task \ {t}
  /\ Valid(t, titled) /\ (~model => titled = {})
  /\ IF job[s].state # "claimed" \/ job[s].lease # t.lease
     THEN UNCHANGED <<session, draft, review, job, grant>>
     ELSE IF ~SameContext(t)
     THEN /\ job' = [job EXCEPT ![s].state = "pending"]
          /\ UNCHANGED <<session, draft, review, grant>>
     ELSE /\ session' = [session EXCEPT ![s].state = "closed"]
          /\ draft' = [draft EXCEPT ![s].rev = rev,
                                    ![s].source = IF model THEN "model" ELSE @]
          /\ review' = [review EXCEPT ![s] = Asked(rev)]
          /\ job' = [job EXCEPT ![s].state = "completed"]
          /\ grant' = [g \in DOMAIN grant \cup {<<s, u>> : u \in titled} |->
               IF g \in DOMAIN grant THEN grant[g] ELSE Grant(g[2])]
  /\ UNCHANGED <<clock, optIn, entry, linked, joined, context, purge, changes>>

(* A worker stops, or loses its process: another claims the summary job.   *)
LeaseLapses(s) ==
  /\ Change
  /\ job[s].state = "claimed" /\ job' = [job EXCEPT ![s].state = "pending"]
  /\ UNCHANGED <<clock, optIn, entry, session, linked, joined, context, draft,
                 review, purge, task, grant>>

(* claim_due_job: a purge that is due, or one whose lease ran out; one that *)
(* had all its attempts is dead.                                           *)
ClaimPurge(s) ==
  /\ \/ purge[s].state = "pending" /\ purge[s].due <= clock /\ UNCHANGED changes
     \/ purge[s].state = "claimed" /\ Change
  /\ IF purge[s].tried < MaxAttempts
     THEN /\ purge' = [purge EXCEPT ![s] = [@ EXCEPT !.state = "claimed",
                        !.lease = purge[s].lease + 1, !.tried = purge[s].tried + 1]]
          /\ task' = task \cup {Hold("purge", s, purge[s].lease + 1, Unread)}
     ELSE purge' = [purge EXCEPT ![s].state = "dead"] /\ UNCHANGED task
  /\ UNCHANGED <<clock, optIn, entry, session, linked, joined, context, draft,
                 review, job, grant>>

Oldest(c) == CHOOSE at \in {c[l] : l \in DOMAIN c} : \A l \in DOMAIN c : at <= c[l]

Purging(t) == t.kind = "purge" /\ task' = task \ {t}
Current(t) == purge[t.s].state = "claimed" /\ purge[t.s].lease = t.lease

(* purge_context_job: in an open session what is too old goes and the job  *)
(* waits for the next; after closing it waits for the retention, then all  *)
(* of it goes.  A purge that waits was no attempt.                         *)
PurgeContext(t) ==
  LET s     == t.s
      ended == session[s].state \in {"closing", "closed"}
      kept  == IF s \in Open THEN Fresh(s)
               ELSE IF ended /\ clock < session[s].closing + Retention THEN context[s]
               ELSE Nothing
      due   == IF s \in Open THEN Oldest(kept) + Retention
               ELSE session[s].closing + Retention
      again == IF s \in Open THEN DOMAIN kept # {}
               ELSE ended /\ clock < session[s].closing + Retention
  IN
  /\ Purging(t)
  /\ IF Current(t)
     THEN /\ context' = [context EXCEPT ![s] = kept]
          /\ purge' = [purge EXCEPT ![s] =
               IF again THEN [Waiting(s, due) EXCEPT !.tried = @ - 1] ELSE [@ EXCEPT !.state = "completed"]]
     ELSE UNCHANGED <<context, purge>>
  /\ UNCHANGED <<clock, optIn, entry, session, linked, joined, draft, review, job,
                 grant, changes>>

(* fail_job: the handler throws, and the job waits for its next attempt,   *)
(* which is due later, until it had all of them.                           *)
Failed(p) ==
  IF p.tried < MaxAttempts
  THEN [p EXCEPT !.state = "pending", !.due = clock + RetryDelay]
  ELSE [p EXCEPT !.state = "dead"]

PurgeFails(t) ==
  /\ Purging(t) /\ Current(t)
  /\ purge' = [purge EXCEPT ![t.s] = Failed(@)]
  /\ UNCHANGED <<clock, optIn, entry, session, linked, joined, context, draft,
                 review, job, grant, changes>>

(* The process stops: the claim is given back and was no attempt.          *)
PurgeReleased(t) ==
  /\ Change
  /\ Purging(t) /\ Current(t)
  /\ purge' = [purge EXCEPT ![t.s].state = "pending", ![t.s].tried = @ - 1]
  /\ UNCHANGED <<clock, optIn, entry, session, linked, joined, context, draft,
                 review, job, grant>>

-----------------------------------------------------------------------------
(* The owner's review *)

(* The queued notice is made, unless it was cancelled.                     *)
ShowNotice(s) ==
  /\ review[s].notice = "queued"
  /\ review' = [review EXCEPT ![s].notice = "shown"]
  /\ UNCHANGED <<clock, optIn, entry, session, linked, joined, context, draft, job,
                 purge, task, grant, changes>>

(* By command with the revision that was shown, or by a control that lives.*)
Reviewed(s, rev, control) ==
  /\ draft[s].state = "pending" /\ session[s].state = "closed"
  /\ draft[s].rev = rev
  /\ control => review[s].rev = rev /\ review[s].until > clock
                  /\ review[s].notice = "shown"

(* Seeded fault: the controls of the former revision stay.                 *)
EditSummary_kept(s, rev, control) ==
  /\ Reviewed(s, rev, control) /\ rev < MaxRevision
  /\ draft' = [draft EXCEPT ![s].rev = rev + 1, ![s].source = "manual"]
  /\ UNCHANGED <<clock, optIn, entry, session, linked, joined, context, review, job,
                 purge, task, grant, changes>>

EditSummary(s, rev, control) ==
  /\ Reviewed(s, rev, control) /\ rev < MaxRevision
  /\ draft' = [draft EXCEPT ![s].rev = rev + 1, ![s].source = "manual"]
  /\ review' = [review EXCEPT ![s] = Asked(rev + 1)] /\ joined' = JoinedNow(Owner)
  /\ UNCHANGED <<clock, optIn, entry, session, linked, context, job,
                 purge, task, grant, changes>>

(* An approved chapter becomes canon, also of a session that is open by     *)
(* now; a rejected one takes its proposed titles with it.  The context is  *)
(* forgotten at once.                                                      *)
DecideSummary(s, rev, control, approve) ==
  /\ Reviewed(s, rev, control)
  /\ draft' = [draft EXCEPT ![s].state = IF approve THEN "approved" ELSE "rejected",
                            ![s].rev = rev + 1]
  /\ review' = [review EXCEPT ![s] = NoReview]
  /\ context' = [context EXCEPT ![s] = Nothing]
  /\ purge' = [purge EXCEPT ![s].state =
       IF @ \in {"pending", "claimed"} THEN "cancelled" ELSE @]
  /\ IF approve
     THEN /\ entry' = With(entry, Chapter(s), "canon")
          /\ linked' = LinkedNow(Chapter(s)) /\ joined' = JoinedBy({Owner} \cup joined[s])
          /\ UNCHANGED grant
     ELSE /\ grant' = [g \in DOMAIN grant |->
               IF g[1] = s /\ grant[g].state = "proposed"
               THEN [grant[g] EXCEPT !.state = "rejected", !.rev = @ + 1]
               ELSE grant[g]]
          /\ joined' = JoinedNow(Owner)
          /\ UNCHANGED <<entry, linked>>
  /\ UNCHANGED <<clock, optIn, session, job, task, changes>>

-----------------------------------------------------------------------------
(* Titles *)

ProposeTitle(c, u) ==
  /\ u \in optIn /\ \A g \in DOMAIN grant : g[1] # c
  /\ grant' = With(grant, <<c, u>>, Grant(u))
  /\ joined' = JoinedNow(Owner)
  /\ UNCHANGED <<clock, optIn, entry, session, linked, context, draft, review, job,
                 purge, task, changes>>

Awarded(u) == {g \in DOMAIN grant : grant[g].who = u /\ grant[g].state \in {"active", "revoked"}}

Decided(g, state, featured) ==
  [grant[g] EXCEPT !.state = state, !.featured = featured, !.rev = @ + 1]

(* The first title awarded to a member is the featured one.  An award is    *)
(* an entry of the canon.                                                  *)
ApproveTitle(g) ==
  /\ grant[g].state = "proposed" /\ grant[g].who \in optIn
  /\ grant' = [grant EXCEPT ![g] = Decided(g, "active", Awarded(grant[g].who) = {})]
  /\ entry' = With(entry, Award(g), "canon")
  /\ linked' = LinkedNow(Award(g)) /\ joined' = JoinedBy({Owner, grant[g].who})
  /\ UNCHANGED <<clock, optIn, session, context, draft, review, job, purge, task,
                 changes>>

RejectTitle(g) ==
  /\ grant[g].state = "proposed"
  /\ grant' = [grant EXCEPT ![g] = Decided(g, "rejected", FALSE)]
  /\ joined' = JoinedNow(Owner)
  /\ UNCHANGED <<clock, optIn, entry, session, linked, context, draft, review, job,
                 purge, task, changes>>

(* Seeded fault: the title featured so far stays.                          *)
FeatureTitle_also(g) ==
  /\ grant[g].state = "active" /\ grant[g].rev < MaxRevision
  /\ grant' = [grant EXCEPT ![g] = Decided(g, "active", TRUE)]
  /\ joined' = JoinedNow(grant[g].who)
  /\ UNCHANGED <<clock, optIn, entry, session, linked, context, draft, review, job,
                 purge, task, changes>>

(* By its member; the one featured so far steps back.                      *)
FeatureTitle(g) ==
  /\ grant[g].state = "active" /\ grant[g].rev < MaxRevision
  /\ grant' = [h \in DOMAIN grant |->
       IF h = g THEN Decided(g, "active", TRUE)
       ELSE IF grant[h].who = grant[g].who /\ grant[h].featured
       THEN [grant[h] EXCEPT !.featured = FALSE, !.rev = @ + 1]
       ELSE grant[h]]
  /\ joined' = JoinedNow(grant[g].who)
  /\ UNCHANGED <<clock, optIn, entry, session, linked, context, draft, review, job,
                 purge, task, changes>>

RevokeTitle(g, u) ==
  /\ grant[g].state = "active" /\ u \in {grant[g].who, Owner}
  /\ grant' = [grant EXCEPT ![g] = Decided(g, "revoked", FALSE)]
  /\ joined' = JoinedNow(u)
  /\ UNCHANGED <<clock, optIn, entry, session, linked, context, draft, review, job,
                 purge, task, changes>>

Tick ==
  /\ clock < MaxClock /\ clock' = clock + 1
  /\ UNCHANGED <<optIn, rows, task, changes>>

-----------------------------------------------------------------------------
Init ==
  /\ clock = 0 /\ optIn = Members /\ entry = Nothing
  /\ session = [s \in SessionIds |-> [state |-> "none", by |-> Owner, closing |-> 0]]
  /\ linked = [s \in SessionIds |-> {}] /\ joined = [s \in SessionIds |-> {}]
  /\ context = [s \in SessionIds |-> Nothing]
  /\ draft = [s \in SessionIds |-> [state |-> "none", rev |-> 0, source |-> "none"]]
  /\ review = [s \in SessionIds |-> NoReview]
  /\ job = [s \in SessionIds |-> [state |-> "none", lease |-> 0]]
  /\ purge = [s \in SessionIds |->
       [state |-> "none", due |-> 0, lease |-> 0, tried |-> 0, lost |-> FALSE]]
  /\ task = {} /\ grant = Nothing /\ changes = 0

ByCommand(s, rev) ==
  \/ EditSummary(s, rev, FALSE)
  \/ \E approve \in BOOLEAN : DecideSummary(s, rev, FALSE, approve)

ByControl(s, rev) ==
  \/ EditSummary(s, rev, TRUE)
  \/ \E approve \in BOOLEAN : DecideSummary(s, rev, TRUE, approve)

SessionStep ==
  \E s \in SessionIds :
    \/ \E u \in Members : Start(u, s) \/ Close(u, s)
    \/ \E l \in Lines : Observe(l, s)
    \/ ClaimSummary(s) \/ ClaimPurge(s) \/ LeaseLapses(s) \/ ShowNotice(s)
    \/ \E rev \in 1..MaxRevision : ByCommand(s, rev) \/ ByControl(s, rev)

TaskStep ==
  \E t \in task :
    \/ Read(t) \/ PurgeContext(t) \/ PurgeFails(t) \/ PurgeReleased(t)
    \/ \E model \in BOOLEAN, titled \in SUBSET t.read.people : Complete(t, model, titled)

TitleStep ==
  \/ \E c \in Curated, u \in Members : ProposeTitle(c, u)
  \/ \E g \in DOMAIN grant :
       \/ ApproveTitle(g) \/ RejectTitle(g) \/ FeatureTitle(g)
       \/ \E u \in Members : RevokeTitle(g, u)

EntryStep ==
  \/ \E e \in Entries : EntryProposed(e) \/ EntryCanon(e)
  \/ \E e \in DOMAIN entry, u \in Members : EntryRetracted(e, u)

Next ==
  \/ SessionStep \/ TaskStep \/ TitleStep \/ EntryStep
  \/ \E u \in Members : SetConsent(u)
  \/ Tick

Spec == Init /\ [][Next]_vars

-----------------------------------------------------------------------------
(* Properties *)

TypeOK ==
  /\ Cardinality(Active) <= 1
  /\ \A s \in SessionIds : /\ DOMAIN context[s] \subseteq Lines
                           /\ Cardinality(DOMAIN context[s]) <= MaxContext
                           /\ linked[s] \subseteq DOMAIN entry
                           /\ joined[s] \subseteq Members

(* A summary is made of what holds when it is stored: no entry retracted   *)
(* and no member gone while it was generated is in it, and no line that    *)
(* was purged.                                                             *)
SummaryIsCurrent ==
  [][\A s \in SessionIds :
       session[s].state = "closing" /\ session'[s].state = "closed" =>
         \E t \in task : /\ t.s = s /\ t.kind = "generating" /\ t \notin task'
                         /\ t.read.entries = Canon(s)
                         /\ t.read.people \subseteq optIn
                         /\ t.read.lines \subseteq DOMAIN context[s]]_vars

(* A purge that waits is due when the context must go; one that failed, at *)
(* its next attempt; and one made after another had failed for good, when  *)
(* the line it was made for must go.                                       *)
InTime(s) ==
  \/ purge[s].due <= IF s \in Open THEN Oldest(context[s]) + Retention
                     ELSE session[s].closing + Retention
  \/ purge[s].tried > 0 /\ purge[s].due <= clock + RetryDelay
  \/ purge[s].lost /\ s \in Open /\ purge[s].due <= clock + Retention

(* What members said is forgotten in time: whatever happens to its         *)
(* session and whichever worker holds the purge, a context that is left    *)
(* has a purge that is due in time, unless every attempt it may have was   *)
(* made and failed.                                                        *)
ContextIsForgotten ==
  \A s \in SessionIds :
    DOMAIN context[s] # {} =>
      \/ HasPurge(s) /\ (purge[s].state = "pending" => InTime(s))
      \/ purge[s].state = "dead" /\ purge[s].tried >= MaxAttempts

(* A session that closes has its summary job until it is closed; a closed  *)
(* one has its draft before the owner, with controls of the draft's own    *)
(* revision, until it is decided.                                          *)
ReviewIsCurrent ==
  \A s \in SessionIds :
    /\ session[s].state = "closing" => job[s].state \in {"pending", "claimed"}
    /\ review[s].rev # 0 <=> session[s].state = "closed" /\ draft[s].state = "pending"
    /\ review[s].rev \in {0, draft[s].rev}

(* A member features at most one title, and features one he holds; no      *)
(* title of a rejected chapter can still be awarded, and what was awarded  *)
(* is in the canon unless it was retracted there.                          *)
TitlesAreSettled ==
  /\ \A g, h \in DOMAIN grant :
       grant[g].featured /\ grant[h].featured /\ grant[g].who = grant[h].who => g = h
  /\ \A g \in DOMAIN grant :
       /\ grant[g].featured => grant[g].state = "active"
       /\ grant[g].state \in {"active", "revoked"} <=> Award(g) \in DOMAIN entry
       /\ g[1] \in SessionIds /\ grant[g].state = "proposed" =>
            draft[g[1]].state \in {"pending", "approved"}
=============================================================================
