---------------------------- MODULE ChronicleProofs ----------------------------
(* Proofs about Chronicle for any members, entries, memories and lifetimes: *)
(* its public word is true and its controls are current, what becomes canon *)
(* was agreed to, and a memory ends as its buttons and its job say; about   *)
(* Sessions for any members, entries, lines, titles and limits; and about   *)
(* Appearances for any members, events, messages and policy.                *)
EXTENDS Chronicle, FiniteSetTheorems, NaturalsInduction, WellFoundedInduction, TLAPS

CONSTANTS Actor, Lines, By, Curated, MaxSessions, MaxContext, Retention, ReviewLife
VARIABLES time, consents, record, session, linked, joined, context, chapter, review,
          summary, purge, task, grant, moves

CS == INSTANCE Sessions
        WITH clock <- time, optIn <- consents, entry <- record, draft <- chapter,
             job <- summary, changes <- moves

CONSTANTS Events, Subject, MaxMessages, Writer, Mentions, Test, Required, Humans, Window,
          Life, BudgetWindow, BudgetMax, MinGap, AfterPrevious, ThemeCooldown
VARIABLES hour, mode, controls, callbacks, shared, seen, activity, channel, event,
          candidate, decision, post, feedback, held, turns

CA == INSTANCE Appearances
        WITH Author <- Writer, clock <- hour, control <- controls, optIn <- callbacks,
             changes <- turns

-----------------------------------------------------------------------------
(* The rows of entries, requests and controls                              *)

Roles == {"proposer", "participant", "owner", "owner_stale"}
Keys  == Members \X Roles

EntryRows ==
  [status : {"none", "proposed", "canon", "retracted"},
   by : Members \cup {NoMember}, vis : Visibilities, submitted : BOOLEAN, rev : Nat]

Requests ==
  [state : {"pending", "approved", "declined", "cancelled"}, rev : Nat, at : Int,
   notice : {"none", "pending", "opened", "consumed", "cancelled"},
   card : {"none", "pending", "sent", "cancelled"}]

Reviews == UNION {[K -> Requests] : K \in SUBSET Keys}

Controls ==
  [entry : Entries, act : {"edit", "submit", "retract", "approve", "decline"},
   by : Members, role : Roles \cup {"entry"}, rev : Nat \ {0}, expires : Int]

Words == {"nothing", "canon", "retracted"}

-----------------------------------------------------------------------------
(* The invariant of entries                                                *)

Asking(A) == {k \in DOMAIN A : A[k].state = "pending"}

AuthorOf(e)  == IF Appearance(e) THEN {} ELSE {Author[e]}
People(e, E) == {E.by} \cup Subjects[e] \cup AuthorOf(e)

(* What was asked while an entry is under review, and of whom. *)
Agreeing(e, E, A) ==
  /\ \A k \in DOMAIN A : A[k].rev = E.rev
  /\ E.vis = "shared" =>
       \A k \in DOMAIN A : k[2] # "proposer" =>
         k[1] \in {Author[e], Owner} /\ (k[1] # E.by \/ Appearance(e))
  /\ E.vis = "participant_only" =>
       /\ \A k \in DOMAIN A : A[k].state \in {"pending", "approved"}
       /\ <<E.by, "proposer">> \in DOMAIN A /\ A[<<E.by, "proposer">>].state = "approved"
       /\ \A p \in People(e, E) \ {E.by} : <<p, "participant">> \in DOMAIN A

IsQuiet(a) == /\ a.state # "pending" /\ a.card # "pending"
              /\ a.notice \notin {"pending", "opened"}

(* One entry with its requests and the last public word about it. *)
Sound(e, E, A, word) ==
  /\ E.status = "none" <=> E.by = NoMember
  /\ E.status = "none" => ~E.submitted
  /\ E.status # "none" => E.rev >= 1
  /\ E.submitted <=> DOMAIN A # {}
  /\ E.status = "proposed" /\ E.submitted => Asking(A) # {} /\ Agreeing(e, E, A)
  /\ E.status \in {"canon", "retracted"} => \A k \in DOMAIN A : IsQuiet(A[k])
  /\ word = "canon" <=> E.status = "canon" /\ E.vis = "shared"

(* A control of an entry is for its state and for its revision. *)
Fits(t, E, A) ==
  /\ E.status = "proposed" /\ t.rev = E.rev
  /\ t.role = "entry" <=> ~E.submitted
  /\ t.role # "entry" => <<t.by, t.role>> \in Asking(A)

EntriesTyped ==
  /\ clock \in Nat
  /\ entry \in [Entries -> EntryRows]
  /\ approval \in [Entries -> Reviews]
  /\ said \in [Entries -> Words]
  /\ token \subseteq Controls

EInv ==
  /\ EntriesTyped
  /\ \A e \in Entries : Sound(e, entry[e], approval[e], said[e])
  /\ \A t \in token : Fits(t, entry[t.entry], approval[t.entry])

-----------------------------------------------------------------------------
(* Facts about rows                                                        *)

LEMMA ReviewFacts ==
  ASSUME NEW A
  PROVE  A \in Reviews <=> A \in [DOMAIN A -> Requests] /\ DOMAIN A \subseteq Keys
  BY DEF Reviews

LEMMA EntryFields ==
  ASSUME NEW E \in EntryRows
  PROVE  /\ E.status \in {"none", "proposed", "canon", "retracted"}
         /\ E.by \in Members \cup {NoMember} /\ E.vis \in {"shared", "participant_only"}
         /\ E.submitted \in BOOLEAN /\ E.rev \in Nat
  BY DEF EntryRows, Visibilities

LEMMA KeyFacts ==
  ASSUME NEW k \in Keys
  PROVE  k = <<k[1], k[2]>> /\ k[1] \in Members /\ k[2] \in Roles
  BY DEF Keys

LEMMA RequestFields ==
  ASSUME NEW a \in Requests
  PROVE  /\ a.state \in {"pending", "approved", "declined", "cancelled"}
         /\ a.notice \in {"none", "pending", "opened", "consumed", "cancelled"}
         /\ a.card \in {"none", "pending", "sent", "cancelled"}
         /\ a.rev \in Nat
  BY DEF Requests

(* A control has the fields it was made with. *)
LEMMA ControlFields ==
  ASSUME EntriesTyped, NEW e \in Entries,
         NEW act \in {"edit", "submit", "retract", "approve", "decline"},
         NEW by \in Members, NEW role \in Roles \cup {"entry"}, NEW rev \in Nat \ {0},
         NEW life \in Nat
  PROVE  LET t == Control(e, act, by, role, rev, life) IN
         /\ t \in Controls /\ t.entry = e /\ t.by = by /\ t.role = role /\ t.rev = rev
<1>1. clock + life \in Int
  BY DEF EntriesTyped
<1> QED
  BY <1>1 DEF Control, Controls

LEMMA DraftControlFacts ==
  ASSUME EntriesTyped, NEW e \in Entries, NEW u \in Members, NEW rev \in Nat \ {0},
         NEW t \in DraftControls(e, u, rev)
  PROVE  t \in Controls /\ t.entry = e /\ t.role = "entry" /\ t.rev = rev
<1>1. PICK act \in {"edit", "submit", "retract"} : t = Control(e, act, u, "entry", rev, PreviewLife)
  BY DEF DraftControls
<1>2. PreviewLife \in Nat
  BY ChronicleAssumption DEF ChronicleAssumption
<1>3. act \in {"edit", "submit", "retract", "approve", "decline"}
  BY <1>1
<1> QED
  BY <1>1, <1>2, <1>3, ControlFields

LEMMA ReviewControlFacts ==
  ASSUME EntriesTyped, NEW e \in Entries, NEW u \in Members, NEW role \in Roles,
         NEW rev \in Nat \ {0}, NEW life \in Nat,
         NEW t \in ReviewControls(e, u, role, rev, life)
  PROVE  t \in Controls /\ t.entry = e /\ t.by = u /\ t.role = role /\ t.rev = rev
<1>1. PICK act \in {"approve", "decline"} : t = Control(e, act, u, role, rev, life)
  BY DEF ReviewControls
<1>2. act \in {"edit", "submit", "retract", "approve", "decline"} /\ role \in Roles \cup {"entry"}
  BY <1>1
<1> QED
  BY <1>1, <1>2, ControlFields

(* A step on one entry leaves the others and their controls. *)
LEMMA OneEntry ==
  ASSUME EInv, NEW e \in Entries, NEW E \in EntryRows, NEW A \in Reviews,
         NEW word \in Words, Sound(e, E, A, word),
         clock' = clock, entry' = [entry EXCEPT ![e] = E],
         approval' = [approval EXCEPT ![e] = A], said' = [said EXCEPT ![e] = word],
         \A t \in token' : \/ t \in token /\ t.entry # e
                           \/ t \in Controls /\ t.entry = e /\ Fits(t, E, A)
  PROVE  EInv'
<1>1. EntriesTyped /\ EntriesTyped'
  BY DEF EInv, EntriesTyped
<1>2. /\ entry'[e] = E /\ approval'[e] = A /\ said'[e] = word
      /\ \A p \in Entries \ {e} : entry'[p] = entry[p] /\ approval'[p] = approval[p]
                                  /\ said'[p] = said[p]
  BY <1>1 DEF EntriesTyped
<1>3. ASSUME NEW p \in Entries PROVE Sound(p, entry'[p], approval'[p], said'[p])
  BY <1>2 DEF EInv
<1>4. ASSUME NEW t \in token' PROVE Fits(t, entry'[t.entry], approval'[t.entry])
  <2>1. CASE t \in token /\ t.entry # e
    <3>1. t.entry \in Entries
      BY <1>1, <2>1 DEF EntriesTyped, Controls
    <3> QED
      BY <1>2, <2>1, <3>1 DEF EInv
  <2>2. CASE t.entry = e /\ Fits(t, E, A)
    BY <1>2, <2>2
  <2> QED
    BY <2>1, <2>2
<1> QED
  BY <1>1, <1>3, <1>4 DEF EInv, Sound, Fits

(* What the invariant says of one entry. *)
LEMMA OfEntry ==
  ASSUME EInv, NEW e \in Entries
  PROVE  /\ EntriesTyped /\ entry[e] \in EntryRows /\ approval[e] \in Reviews
         /\ said[e] \in Words /\ Sound(e, entry[e], approval[e], said[e])
         /\ \A t \in token : /\ t \in Controls
                             /\ t.entry = e => Fits(t, entry[e], approval[e])
         /\ approval[e] \in [DOMAIN approval[e] -> Requests] /\ DOMAIN approval[e] \subseteq Keys
         /\ approval = [approval EXCEPT ![e] = approval[e]] /\ said = [said EXCEPT ![e] = said[e]]
         /\ entry = [entry EXCEPT ![e] = entry[e]]
  BY ReviewFacts DEF EInv, EntriesTyped

-----------------------------------------------------------------------------
(* Proposals and drafts                                                    *)

LEMMA EmptyReview == Nothing \in Reviews /\ DOMAIN Nothing = {}
<1>1. Nothing \in [{} -> Requests] /\ {} \in SUBSET Keys
  BY DEF Nothing
<1> QED
  BY <1>1 DEF Reviews

LEMMA InitEntries == Init => EInv
<1> SUFFICES ASSUME Init PROVE EInv
  OBVIOUS
<1> DEFINE E == [status |-> "none", by |-> NoMember, vis |-> "shared",
                 submitted |-> FALSE, rev |-> 0]
<1>1. E \in EntryRows
  BY DEF EntryRows, Visibilities
<1>2. /\ E.status = "none" /\ E.by = NoMember /\ E.submitted = FALSE /\ E.rev = 0
  OBVIOUS
<1> HIDE DEF E
<1>3. /\ entry = [e \in Entries |-> E] /\ approval = [e \in Entries |-> Nothing]
      /\ token = {} /\ said = [e \in Entries |-> "nothing"] /\ clock = 0
  BY DEF Init, E
<1>4. EntriesTyped
  BY <1>1, <1>3, EmptyReview DEF EntriesTyped, Words
<1>5. \A e \in Entries : Sound(e, E, Nothing, "nothing")
  BY <1>2, EmptyReview DEF Sound
<1> QED
  BY <1>3, <1>4, <1>5 DEF EInv

LEMMA ProposeKeeps ==
  ASSUME EInv, NEW e \in Entries, NEW u \in Members, NEW vis \in Visibilities,
         Propose(u, e, vis)
  PROVE  EInv'
<1>1. /\ EntriesTyped /\ approval[e] \in Reviews /\ said[e] \in Words
      /\ entry[e] \in EntryRows
      /\ Sound(e, entry[e], approval[e], said[e])
      /\ \A t \in token : t \in Controls /\ (t.entry = e => Fits(t, entry[e], approval[e]))
  BY OfEntry
<1> DEFINE E == [status |-> "proposed", by |-> u, vis |-> vis, submitted |-> FALSE, rev |-> 1]
<1>2. E \in EntryRows
  BY DEF EntryRows
<1>3. E.status = "proposed" /\ E.by = u /\ E.vis = vis /\ E.submitted = FALSE /\ E.rev = 1
  OBVIOUS
<1> HIDE DEF E
<1>4. /\ entry' = [entry EXCEPT ![e] = E] /\ entry[e].status = "none"
      /\ approval' = [approval EXCEPT ![e] = approval[e]]
      /\ said' = [said EXCEPT ![e] = said[e]] /\ clock' = clock
      /\ token' = token \cup DraftControls(e, u, 1)
  BY <1>1 DEF Propose, E, EntriesTyped
<1>5. Sound(e, E, approval[e], said[e])
  BY <1>1, <1>3, <1>4, ChronicleAssumption DEF ChronicleAssumption, Sound
<1>6. ASSUME NEW t \in token'
      PROVE  \/ t \in token /\ t.entry # e
             \/ t \in Controls /\ t.entry = e /\ Fits(t, E, approval[e])
  <2>1. CASE t \in token
    BY <1>1, <1>4, <2>1 DEF Fits
  <2>2. CASE t \in DraftControls(e, u, 1)
    <3>1. t \in Controls /\ t.entry = e /\ t.role = "entry" /\ t.rev = 1
      BY <1>1, <2>2, DraftControlFacts
    <3> QED
      BY <1>3, <3>1 DEF Fits
  <2> QED
    BY <1>4, <2>1, <2>2
<1> QED
  BY <1>1, <1>2, <1>4, <1>5, <1>6, OneEntry

(* A step that changes only the controls of an entry. *)
LEMMA OnlyControls ==
  ASSUME EInv, NEW e \in Entries, UNCHANGED <<clock, entry, approval, said>>,
         \A t \in token' : \/ t \in token
                           \/ t \in Controls /\ t.entry = e /\ Fits(t, entry[e], approval[e])
  PROVE  EInv'
<1>1. /\ EntriesTyped /\ approval[e] \in Reviews /\ said[e] \in Words
      /\ entry[e] \in EntryRows
      /\ Sound(e, entry[e], approval[e], said[e])
      /\ \A t \in token : t \in Controls /\ (t.entry = e => Fits(t, entry[e], approval[e]))
      /\ approval = [approval EXCEPT ![e] = approval[e]] /\ said = [said EXCEPT ![e] = said[e]]
      /\ entry = [entry EXCEPT ![e] = entry[e]]
  BY OfEntry
<1> QED
  BY <1>1, OneEntry

LEMMA ReissueKeeps ==
  ASSUME EInv, NEW e \in Entries, NEW u \in Members, NEW vis \in Visibilities,
         Reissue(u, e, vis)
  PROVE  EInv'
<1>1. /\ EntriesTyped /\ entry[e] \in EntryRows
      /\ Sound(e, entry[e], approval[e], said[e])
  BY OfEntry
<1>2. /\ entry[e].status = "proposed" /\ ~entry[e].submitted
      /\ UNCHANGED <<clock, entry, approval, said>>
      /\ token' = (token \ OnEntry(e)) \cup DraftControls(e, u, entry[e].rev)
  BY DEF Reissue
<1>3. entry[e].rev \in Nat \ {0}
  BY <1>1, <1>2, EntryFields DEF Sound
<1>4. ASSUME NEW t \in token', t \notin token
      PROVE  t \in Controls /\ t.entry = e /\ Fits(t, entry[e], approval[e])
  <2>1. t \in DraftControls(e, u, entry[e].rev)
    BY <1>2, <1>4
  <2>2. t \in Controls /\ t.entry = e /\ t.role = "entry" /\ t.rev = entry[e].rev
    BY <1>1, <1>3, <2>1, DraftControlFacts
  <2> QED
    BY <1>2, <2>2 DEF Fits
<1> QED
  BY <1>2, <1>4, OnlyControls

LEMMA EditKeeps ==
  ASSUME EInv, NEW e \in Entries, NEW u \in Members, NEW vis \in Visibilities,
         Edit(u, e, vis)
  PROVE  EInv'
<1>1. /\ EntriesTyped /\ approval[e] \in Reviews /\ said[e] \in Words
      /\ entry[e] \in EntryRows
      /\ Sound(e, entry[e], approval[e], said[e])
      /\ \A t \in token : t \in Controls /\ (t.entry = e => Fits(t, entry[e], approval[e]))
      /\ approval = [approval EXCEPT ![e] = approval[e]] /\ said = [said EXCEPT ![e] = said[e]]
  BY OfEntry
<1> DEFINE rev == entry[e].rev + 1
           E == [entry[e] EXCEPT !.vis = vis, !.rev = rev]
<1>2. rev \in Nat \ {0}
  BY <1>1, EntryFields
<1> HIDE DEF rev
<1>3. /\ E \in EntryRows /\ E.status = entry[e].status /\ E.by = entry[e].by
      /\ E.vis = vis /\ E.submitted = entry[e].submitted /\ E.rev = rev
  BY <1>1, <1>2 DEF EntryRows
<1> HIDE DEF E
<1>4. entry[e].status = "proposed" /\ ~entry[e].submitted
  BY DEF Edit
<1>5. entry' = [entry EXCEPT ![e] = E]
  BY DEF Edit, E, rev
<1>6. UNCHANGED <<clock, approval, said>>
  BY DEF Edit
<1>7. Sound(e, E, approval[e], said[e])
  BY <1>1, <1>2, <1>3, <1>4 DEF Sound
<1>8. ASSUME NEW t \in token'
      PROVE  \/ t \in token /\ t.entry # e
             \/ t \in Controls /\ t.entry = e /\ Fits(t, E, approval[e])
  <2>1. PICK s \in token : t = IF s \in OnEntry(e) THEN [s EXCEPT !.rev = rev] ELSE s
    BY DEF Edit, rev
  <2>2. s \in Controls /\ (s.entry = e => Fits(s, entry[e], approval[e]))
    BY <1>1
  <2>3. CASE s.entry # e
    BY <2>1, <2>3 DEF OnEntry
  <2>4. CASE s.entry = e
    <3>1. s.role = "entry"
      BY <1>4, <2>2, <2>4 DEF Fits
    <3>2. t = [s EXCEPT !.rev = rev]
      BY <2>1, <2>4, <3>1 DEF OnEntry
    <3>3. t \in Controls /\ t.entry = e /\ t.role = "entry" /\ t.rev = rev
      BY <1>2, <2>2, <2>4, <3>1, <3>2 DEF Controls
    <3> QED
      BY <1>3, <1>4, <3>3 DEF Fits
  <2> QED
    BY <2>3, <2>4
<1> QED
  BY <1>1, <1>3, <1>5, <1>6, <1>7, <1>8, OneEntry

-----------------------------------------------------------------------------
(* Requests                                                                *)

LEMMA WithFacts ==
  ASSUME NEW A \in Reviews, NEW k \in Keys, NEW v \in Requests
  PROVE  /\ With(A, k, v) \in Reviews
         /\ DOMAIN With(A, k, v) = DOMAIN A \cup {k}
         /\ With(A, k, v)[k] = v
         /\ \A j \in DOMAIN A : j # k => With(A, k, v)[j] = A[j]
<1>1. A \in [DOMAIN A -> Requests] /\ DOMAIN A \subseteq Keys
  BY ReviewFacts
<1>2. With(A, k, v) \in [DOMAIN A \cup {k} -> Requests] /\ DOMAIN A \cup {k} \in SUBSET Keys
  BY <1>1 DEF With
<1>3. With(A, k, v) \in Reviews
  BY <1>2 DEF Reviews
<1> QED
  BY <1>2, <1>3 DEF With

LEMMA QuietFacts ==
  ASSUME NEW a \in Requests
  PROVE  /\ Quiet(a) \in Requests
         /\ Quiet(a).state = a.state /\ Quiet(a).rev = a.rev
         /\ Quiet(a).card # "pending" /\ Quiet(a).notice \notin {"pending", "opened"}
<1> DEFINE notice == IF a.notice \in {"pending", "opened"} THEN "cancelled" ELSE a.notice
           card == IF a.card = "pending" THEN "cancelled" ELSE a.card
<1>1. /\ notice \in {"none", "consumed", "cancelled"}
      /\ card \in {"none", "sent", "cancelled"}
  BY RequestFields
<1>2. Quiet(a) = [a EXCEPT !.notice = notice, !.card = card]
  BY DEF Quiet
<1> HIDE DEF notice, card
<1> QED
  BY <1>1, <1>2 DEF Requests

LEMMA WithState ==
  ASSUME NEW a \in Requests, NEW state \in {"pending", "approved", "declined", "cancelled"}
  PROVE  LET b == [a EXCEPT !.state = state] IN
         /\ b \in Requests /\ b.state = state /\ b.rev = a.rev
         /\ b.notice = a.notice /\ b.card = a.card
  BY DEF Requests

LEMMA OwnerTakesOverKeeps ==
  ASSUME EInv, NEW e \in Entries, NEW u \in Members, OwnerTakesOver(u, e)
  PROVE  EInv'
<1> DEFINE A == approval[e]
           E == entry[e]
           mine == <<Owner, "owner_stale">>
           new == [state |-> "pending", rev |-> E.rev, at |-> clock,
                   notice |-> "none", card |-> "none"]
<1>1. /\ EntriesTyped /\ A \in Reviews /\ said[e] \in Words
      /\ E \in EntryRows /\ Sound(e, E, A, said[e])
      /\ \A t \in token : t \in Controls /\ (t.entry = e => Fits(t, E, A))
      /\ said = [said EXCEPT ![e] = said[e]] /\ entry = [entry EXCEPT ![e] = E]
      /\ A \in [DOMAIN A -> Requests] /\ DOMAIN A \subseteq Keys
  BY OfEntry
<1>2. /\ E.status = "proposed" /\ E.submitted /\ E.vis = "shared" /\ E.by # Owner
      /\ UNCHANGED <<clock, entry, said>>
  BY DEF OwnerTakesOver
<1>3. PICK k \in StaleKeys(e) \cup {x \in Pending(e) : x[2] = "owner_stale"} :
        /\ approval' = [approval EXCEPT ![e] =
             LET kept == IF k[2] = "owner_stale" THEN @
                         ELSE With(@, k, [Quiet(@[k]) EXCEPT !.state = "cancelled"])
             IN With(kept, <<Owner, "owner_stale">>,
                  [state |-> "pending", rev |-> entry[e].rev, at |-> clock,
                   notice |-> "none", card |-> "none"])]
        /\ token' = (token \ OnApproval(e, k[2])) \cup
             ReviewControls(e, Owner, "owner_stale", entry[e].rev, PreviewLife)
  BY DEF OwnerTakesOver
<1>4. k \in DOMAIN A /\ k \in Keys /\ A[k] \in Requests
  BY <1>1, <1>3 DEF StaleKeys, Pending
<1> DEFINE over == [Quiet(A[k]) EXCEPT !.state = "cancelled"]
           kept == IF k[2] = "owner_stale" THEN A ELSE With(A, k, over)
           B == With(kept, mine, new)
<1>5. over \in Requests /\ over.rev = A[k].rev
  <2> DEFINE q == Quiet(A[k])
  <2>1. q \in Requests /\ q.rev = A[k].rev
    BY <1>4, QuietFacts
  <2> HIDE DEF q
  <2>2. [q EXCEPT !.state = "cancelled"] \in Requests /\ [q EXCEPT !.state = "cancelled"].rev = q.rev
    BY <2>1, WithState
  <2> QED
    BY <2>1, <2>2 DEF q
<1>6. new \in Requests /\ new.state = "pending" /\ new.rev = E.rev
  BY <1>1, EntryFields DEF Requests, EntriesTyped
<1>7. mine \in Keys /\ mine[1] = Owner /\ mine[2] = "owner_stale"
  BY ChronicleAssumption DEF ChronicleAssumption, Keys, Roles
<1> HIDE DEF over
<1>8. /\ kept \in Reviews /\ DOMAIN kept = DOMAIN A
      /\ \A j \in DOMAIN A : j[2] # k[2] => kept[j] = A[j]
      /\ \A j \in DOMAIN A : kept[j].rev = A[j].rev
  <2>1. CASE k[2] = "owner_stale"
    BY <1>1, <2>1
  <2>2. CASE k[2] # "owner_stale"
    <3> DEFINE C == With(A, k, over)
    <3>0. A \in Reviews /\ k \in Keys /\ over \in Requests
      BY <1>1, <1>4, <1>5
    <3> HIDE DEF A
    <3>1. /\ C \in Reviews /\ DOMAIN C = DOMAIN A \cup {k} /\ C[k] = over
          /\ \A j \in DOMAIN A : j # k => C[j] = A[j]
      BY <3>0, WithFacts
    <3>2. kept = C
      BY <2>2
    <3> HIDE DEF C, kept
    <3> QED
      BY <1>4, <1>5, <3>1, <3>2
  <2> QED
    BY <2>1, <2>2
<1>9. approval' = [approval EXCEPT ![e] = B]
  BY <1>3 DEF over
<1> HIDE DEF kept, new, mine
<1>10. /\ B \in Reviews /\ DOMAIN B = DOMAIN A \cup {mine} /\ B[mine] = new
       /\ \A j \in DOMAIN A : j # mine => B[j] = kept[j]
  BY <1>6, <1>7, <1>8, WithFacts
<1> HIDE DEF B
<1>11. mine \in Asking(B)
  BY <1>6, <1>10 DEF Asking
<1>12. ASSUME NEW j \in Asking(A), j[2] # k[2] PROVE j \in Asking(B)
  BY <1>6, <1>8, <1>10, <1>12 DEF Asking
<1>13. Agreeing(e, E, B)
  <2>1. Agreeing(e, E, A)
    BY <1>1, <1>2 DEF Sound
  <2> QED
    BY <1>2, <1>6, <1>7, <1>8, <1>10, <2>1 DEF Agreeing
<1>14. Sound(e, E, B, said[e])
  BY <1>1, <1>2, <1>10, <1>11, <1>13 DEF Sound
<1>15. ASSUME NEW t \in token'
       PROVE  \/ t \in token /\ t.entry # e
              \/ t \in Controls /\ t.entry = e /\ Fits(t, E, B)
  <2>1. CASE t \in token /\ t.entry = e
    <3>1. t \notin OnApproval(e, k[2]) \/ t \in ReviewControls(e, Owner, "owner_stale", E.rev, PreviewLife)
      BY <1>3
    <3>2. CASE t \notin OnApproval(e, k[2])
      <4>1. t \in Controls /\ Fits(t, E, A) /\ t.role # k[2]
        BY <1>1, <2>1, <3>2 DEF OnApproval
      <4>2. t.role # "entry" => <<t.by, t.role>> \in Asking(A) /\ <<t.by, t.role>>[2] # k[2]
        BY <4>1 DEF Fits
      <4> QED
        BY <1>12, <2>1, <4>1, <4>2 DEF Fits
    <3>3. CASE t \in ReviewControls(e, Owner, "owner_stale", E.rev, PreviewLife)
      <4>1. t \in Controls /\ t.entry = e /\ t.by = Owner /\ t.role = "owner_stale" /\ t.rev = E.rev
        <5>1. PreviewLife \in Nat /\ Owner \in Members /\ "owner_stale" \in Roles
          BY ChronicleAssumption DEF ChronicleAssumption, Roles
        <5>2. E.rev \in Nat \ {0}
          BY <1>1, <1>2, EntryFields DEF Sound
        <5> QED
          BY <1>1, <3>3, <5>1, <5>2, ReviewControlFacts
      <4> QED
        BY <1>2, <1>11, <4>1 DEF Fits, mine
    <3> QED
      BY <3>1, <3>2, <3>3
  <2>2. CASE t \notin token
    <3>1. t \in ReviewControls(e, Owner, "owner_stale", E.rev, PreviewLife)
      BY <1>3, <2>2
    <3>2. t \in Controls /\ t.entry = e /\ t.by = Owner /\ t.role = "owner_stale" /\ t.rev = E.rev
      <4>1. PreviewLife \in Nat /\ Owner \in Members /\ "owner_stale" \in Roles
        BY ChronicleAssumption DEF ChronicleAssumption, Roles
      <4>2. E.rev \in Nat \ {0}
        BY <1>1, <1>2, EntryFields DEF Sound
      <4> QED
        BY <1>1, <3>1, <4>1, <4>2, ReviewControlFacts
    <3> QED
      BY <1>2, <1>11, <3>2 DEF Fits, mine
  <2> QED
    BY <2>1, <2>2
<1>16. /\ clock' = clock /\ entry' = [entry EXCEPT ![e] = E]
       /\ said' = [said EXCEPT ![e] = said[e]]
  BY <1>1, <1>2
<1> HIDE DEF A, E
<1> QED
  BY <1>1, <1>9, <1>10, <1>14, <1>15, <1>16, OneEntry

LEMMA AskedFacts ==
  ASSUME EInv, NEW e \in Entries, entry[e].rev \in Nat
  PROVE  LET a == Asked(e, clock) IN
         a \in Requests /\ a.state = "pending" /\ a.rev = entry[e].rev
<1> DEFINE card == IF entry[e].vis = "shared" THEN "pending" ELSE "none"
<1>1. card \in {"none", "pending"} /\ clock \in Int
  BY DEF EInv, EntriesTyped
<1>2. Asked(e, clock) = [state |-> "pending", rev |-> entry[e].rev, at |-> clock,
                         notice |-> "pending", card |-> card]
  BY DEF Asked
<1> HIDE DEF card
<1> QED
  BY <1>1, <1>2 DEF Requests

(* The controls of a set of requests. *)
LEMMA RequestControls ==
  ASSUME EntriesTyped, NEW e \in Entries, NEW R \in SUBSET Keys, NEW rev \in Nat \ {0},
         NEW t \in UNION {ReviewControls(e, k[1], k[2], rev, NoticeLife) : k \in R}
  PROVE  /\ t \in Controls /\ t.entry = e /\ t.role # "entry" /\ t.rev = rev
         /\ <<t.by, t.role>> \in R
<1>1. PICK k \in R : t \in ReviewControls(e, k[1], k[2], rev, NoticeLife)
  OBVIOUS
<1>2. k = <<k[1], k[2]>> /\ k[1] \in Members /\ k[2] \in Roles /\ NoticeLife \in Nat
  BY KeyFacts, ChronicleAssumption DEF ChronicleAssumption
<1>3. t \in Controls /\ t.entry = e /\ t.by = k[1] /\ t.role = k[2] /\ t.rev = rev
  BY <1>1, <1>2, ReviewControlFacts
<1> QED
  BY <1>2, <1>3 DEF Roles

LEMMA RenewRequestsKeeps ==
  ASSUME EInv, NEW e \in Entries, NEW u \in Members, NEW vis \in Visibilities,
         RenewRequests(u, e, vis)
  PROVE  EInv'
<1> DEFINE A == approval[e]
           E == entry[e]
           S == StaleKeys(e)
           ask == Asked(e, clock)
           B == [k \in DOMAIN A |-> IF k \in S THEN ask ELSE A[k]]
<1>1. /\ EntriesTyped /\ A \in Reviews /\ said[e] \in Words
      /\ E \in EntryRows /\ Sound(e, E, A, said[e])
      /\ \A t \in token : t \in Controls /\ (t.entry = e => Fits(t, E, A))
      /\ said = [said EXCEPT ![e] = said[e]] /\ entry = [entry EXCEPT ![e] = E]
      /\ A \in [DOMAIN A -> Requests] /\ DOMAIN A \subseteq Keys
  BY OfEntry
<1>2. /\ E.status = "proposed" /\ E.submitted
      /\ UNCHANGED <<clock, entry, said>>
      /\ approval' = [approval EXCEPT ![e] = B]
      /\ token' = {t \in token : ~(t.entry = e /\ <<t.by, t.role>> \in S)}
           \cup UNION {ReviewControls(e, k[1], k[2], E.rev, NoticeLife) : k \in S}
  BY DEF RenewRequests
<1>3. S \subseteq Asking(A) /\ S \in SUBSET Keys
  BY <1>1 DEF StaleKeys, Pending, Asking
<1>4. E.rev \in Nat \ {0}
  BY <1>1, <1>2, EntryFields DEF Sound
<1>5. ask \in Requests /\ ask.state = "pending" /\ ask.rev = E.rev
  BY <1>4, AskedFacts
<1> HIDE DEF ask, S
<1>6. B \in Reviews /\ DOMAIN B = DOMAIN A
  <2>1. B \in [DOMAIN A -> Requests] /\ DOMAIN A \in SUBSET Keys
    BY <1>1, <1>5
  <2> QED
    BY <2>1 DEF Reviews
<1>7. \A k \in DOMAIN A : B[k] = A[k] \/ (k \in S /\ B[k] = ask)
  OBVIOUS
<1> HIDE DEF B
<1>8. Asking(B) = Asking(A)
  BY <1>3, <1>5, <1>6, <1>7 DEF Asking
<1>9. Sound(e, E, B, said[e])
  <2>1. Agreeing(e, E, A)
    BY <1>1, <1>2 DEF Sound
  <2>2. Agreeing(e, E, B)
    <3>1. \A k \in DOMAIN A : B[k].rev = E.rev
      BY <1>5, <1>7, <2>1 DEF Agreeing
    <3>2. \A k \in DOMAIN A : A[k].state \in {"pending", "approved"}
                                 => B[k].state \in {"pending", "approved"}
      BY <1>5, <1>7
    <3>3. \A k \in DOMAIN A : A[k].state = "approved" => B[k].state = "approved"
      BY <1>3, <1>7 DEF Asking
    <3> QED
      BY <1>6, <2>1, <3>1, <3>2, <3>3 DEF Agreeing
  <2> QED
    BY <1>1, <1>2, <1>6, <1>8, <2>2 DEF Sound
<1>10. ASSUME NEW t \in token'
       PROVE  \/ t \in token /\ t.entry # e
              \/ t \in Controls /\ t.entry = e /\ Fits(t, E, B)
  <2>1. CASE t \in UNION {ReviewControls(e, k[1], k[2], E.rev, NoticeLife) : k \in S}
    <3> DEFINE rev == E.rev
    <3>0. /\ EntriesTyped /\ S \in SUBSET Keys /\ rev \in Nat \ {0}
          /\ t \in UNION {ReviewControls(e, k[1], k[2], rev, NoticeLife) : k \in S}
      BY <1>1, <1>3, <1>4, <2>1
    <3>a. rev = E.rev
      OBVIOUS
    <3> HIDE DEF rev
    <3>1. /\ t \in Controls /\ t.entry = e /\ t.role # "entry" /\ t.rev = rev
          /\ <<t.by, t.role>> \in S
      BY <3>0, RequestControls
    <3> QED
      BY <1>2, <1>3, <1>8, <3>1, <3>a DEF Fits
  <2>2. CASE t \in token
    BY <1>1, <1>8, <2>2 DEF Fits
  <2> QED
    BY <1>2, <2>1, <2>2
<1>11. /\ clock' = clock /\ entry' = [entry EXCEPT ![e] = E]
       /\ said' = [said EXCEPT ![e] = said[e]]
  BY <1>1, <1>2
<1> HIDE DEF A, E
<1> QED
  BY <1>1, <1>2, <1>6, <1>9, <1>10, <1>11, OneEntry

(* Whom a proposer has to ask. *)
LEMMA ReviewerFacts ==
  ASSUME EInv, NEW e \in Entries, entry[e].status = "proposed"
  PROVE  /\ entry[e].by \in Members
         /\ Participants(e) = People(e, entry[e])
         /\ Reviewers(e) \in SUBSET Keys
         /\ \A k \in Reviewers(e) : k[2] # "proposer"
         /\ entry[e].vis = "shared" =>
              /\ \E k \in Reviewers(e) : Reviewers(e) = {k}
              /\ \A k \in Reviewers(e) : k[1] \in {Author[e], Owner}
         /\ entry[e].vis = "participant_only" =>
              \A p \in Participants(e) \ {entry[e].by} : <<p, "participant">> \in Reviewers(e)
<1>1. entry[e] \in EntryRows /\ Sound(e, entry[e], approval[e], said[e])
  BY OfEntry
<1>2. entry[e].by \in Members
  BY <1>1, EntryFields DEF Sound
<1>3. /\ Author[e] \in Members \cup {NoAuthor} /\ Subjects[e] \subseteq Members /\ Owner \in Members
  BY ChronicleAssumption DEF ChronicleAssumption
<1>4. Participants(e) = People(e, entry[e]) /\ Participants(e) \subseteq Members
  BY <1>2, <1>3 DEF Participants, People, AuthorOf, Appearance
<1>5. CASE entry[e].vis = "shared"
  <2> DEFINE r == IF Appearance(e) \/ Author[e] = entry[e].by THEN Owner ELSE Author[e]
             k == <<r, IF r = Owner THEN "owner" ELSE "participant">>
  <2>1. r \in Members /\ r \in {Author[e], Owner}
    BY <1>3 DEF Appearance
  <2>2. Reviewers(e) = {k}
    BY <1>5 DEF Reviewers
  <2> HIDE DEF r
  <2>3. k \in Keys /\ k[1] = r /\ k[2] \in {"owner", "participant"}
    BY <2>1 DEF Keys, Roles
  <2> QED
    BY <1>2, <1>4, <1>5, <2>1, <2>2, <2>3
<1>6. CASE entry[e].vis # "shared"
  <2>1. Reviewers(e) = {<<p, "participant">> : p \in Participants(e) \ {entry[e].by}}
    BY <1>6 DEF Reviewers
  <2>2. Reviewers(e) \in SUBSET Keys
    BY <1>4, <2>1 DEF Keys, Roles
  <2> QED
    BY <1>2, <1>4, <1>6, <2>1, <2>2
<1> QED
  BY <1>5, <1>6

-----------------------------------------------------------------------------
(* Submission                                                              *)

(* What Submit writes into the entry and its requests. *)
SubmittedRow(e) ==
  LET rev == entry[e].rev + 1 IN
  [entry[e] EXCEPT !.submitted = TRUE,
     !.status = IF Reviewers(e) = {} THEN "canon" ELSE "proposed",
     !.rev = IF Reviewers(e) = {} THEN rev + 1 ELSE rev]

SubmittedReview(u, e) ==
  LET rev == entry[e].rev + 1 IN
  [k \in Reviewers(e) \cup {<<u, "proposer">>} |->
     IF k = <<u, "proposer">>
     THEN [state |-> "approved", rev |-> rev, at |-> clock,
           notice |-> "none", card |-> "none"]
     ELSE [Asked(e, clock) EXCEPT !.rev = rev]]

LEMMA SubmittedFacts ==
  ASSUME EInv, NEW e \in Entries, NEW u \in Members, Submit(u, e)
  PROVE  LET E == entry[e]  F == SubmittedRow(e)  B == SubmittedReview(u, e)
             rev == entry[e].rev + 1
         IN
         /\ rev \in Nat \ {0}
         /\ F \in EntryRows /\ F.by = E.by /\ F.vis = E.vis /\ F.submitted = TRUE
         /\ F.status = (IF Reviewers(e) = {} THEN "canon" ELSE "proposed")
         /\ F.rev = (IF Reviewers(e) = {} THEN rev + 1 ELSE rev)
         /\ B \in Reviews /\ DOMAIN B = Reviewers(e) \cup {<<u, "proposer">>}
         /\ \A k \in DOMAIN B : B[k].rev = rev
         /\ \A k \in Reviewers(e) : B[k].state = "pending"
         /\ B[<<u, "proposer">>].state = "approved" /\ IsQuiet(B[<<u, "proposer">>])
         /\ <<u, "proposer">> \in Keys /\ <<u, "proposer">> \notin Reviewers(e)
         /\ Reviewers(e) \in SUBSET Keys
<1> DEFINE E == entry[e]
           R == Reviewers(e)
           rev == E.rev + 1
           status == IF R = {} THEN "canon" ELSE "proposed"
           last == IF R = {} THEN rev + 1 ELSE rev
           F == SubmittedRow(e)
           B == SubmittedReview(u, e)
           key == <<u, "proposer">>
           mine == [state |-> "approved", rev |-> rev, at |-> clock,
                    notice |-> "none", card |-> "none"]
           ask == [Asked(e, clock) EXCEPT !.rev = rev]
<1>1. E \in EntryRows /\ E.status = "proposed"
  BY OfEntry DEF Submit
<1>2. E.rev \in Nat /\ rev \in Nat \ {0}
  BY <1>1, EntryFields
<1>3. R \in SUBSET Keys /\ \A k \in R : k[2] # "proposer"
  BY <1>1, ReviewerFacts
<1>4. key \in Keys /\ key \notin R
  BY <1>3 DEF Keys, Roles
<1>5. mine \in Requests /\ mine.state = "approved" /\ mine.rev = rev /\ IsQuiet(mine)
  <2>1. clock \in Int
    BY DEF EInv, EntriesTyped
  <2> HIDE DEF rev
  <2> QED
    BY <1>2, <2>1 DEF Requests, IsQuiet
<1>6. ask \in Requests /\ ask.state = "pending" /\ ask.rev = rev
  <2>1. Asked(e, clock) \in Requests /\ Asked(e, clock).state = "pending"
    BY <1>2, AskedFacts
  <2> HIDE DEF rev
  <2> QED
    BY <1>2, <2>1 DEF Requests
<1>7. F = [E EXCEPT !.submitted = TRUE, !.status = status, !.rev = last]
  BY DEF SubmittedRow
<1>8. status \in {"canon", "proposed"} /\ last \in Nat
  BY <1>2
<1>9. B = [k \in R \cup {key} |-> IF k = key THEN mine ELSE ask]
  BY DEF SubmittedReview
<1> HIDE DEF status, last, mine, ask, F, B, key, R, rev
<1>10. /\ F \in EntryRows /\ F.by = E.by /\ F.vis = E.vis /\ F.submitted = TRUE
       /\ F.status = status /\ F.rev = last
  BY <1>1, <1>7, <1>8 DEF EntryRows
<1>11. B \in [R \cup {key} -> Requests] /\ R \cup {key} \in SUBSET Keys
  BY <1>3, <1>4, <1>5, <1>6, <1>9
<1>12. B \in Reviews /\ DOMAIN B = R \cup {key}
  BY <1>11 DEF Reviews
<1>13. B[key] = mine /\ \A k \in R : B[k] = ask
  BY <1>4, <1>9
<1>14. \A k \in DOMAIN B : B[k].rev = rev
  BY <1>5, <1>6, <1>12, <1>13
<1>15. status = (IF R = {} THEN "canon" ELSE "proposed") /\ last = (IF R = {} THEN rev + 1 ELSE rev)
  BY DEF status, last
<1> QED
  BY <1>2, <1>3, <1>4, <1>5, <1>6, <1>10, <1>12, <1>13, <1>14, <1>15 DEF F, B, key, R, rev

LEMMA SubmitKeeps ==
  ASSUME EInv, NEW e \in Entries, NEW u \in Members, Submit(u, e)
  PROVE  EInv'
<1> DEFINE E == entry[e]
           R == Reviewers(e)
           rev == entry[e].rev + 1
           F == SubmittedRow(e)
           B == SubmittedReview(u, e)
           key == <<u, "proposer">>
<1>1. /\ EntriesTyped /\ said[e] \in Words
      /\ E \in EntryRows /\ Sound(e, E, approval[e], said[e])
      /\ \A t \in token : t \in Controls /\ (t.entry = e => Fits(t, E, approval[e]))
      /\ said = [said EXCEPT ![e] = said[e]]
  BY OfEntry
<1>2. /\ rev \in Nat \ {0}
      /\ F \in EntryRows /\ F.by = E.by /\ F.vis = E.vis /\ F.submitted = TRUE
      /\ F.status = (IF R = {} THEN "canon" ELSE "proposed")
      /\ F.rev = (IF R = {} THEN rev + 1 ELSE rev)
      /\ B \in Reviews /\ DOMAIN B = R \cup {key}
      /\ \A k \in DOMAIN B : B[k].rev = rev
      /\ \A k \in R : B[k].state = "pending"
      /\ B[key].state = "approved" /\ IsQuiet(B[key])
      /\ key \in Keys /\ key \notin R /\ R \in SUBSET Keys
  BY SubmittedFacts
<1>3. /\ E.status = "proposed" /\ ~E.submitted /\ E.by = u /\ Submittable(e)
      /\ entry' = [entry EXCEPT ![e] = F] /\ approval' = [approval EXCEPT ![e] = B]
      /\ UNCHANGED <<clock, said>>
  BY DEF Submit, SubmittedRow, SubmittedReview
<1>4. token' = (token \ OnEntry(e)) \cup
          UNION {ReviewControls(e, k[1], k[2], rev, NoticeLife) : k \in R}
  BY DEF Submit
<1>5. /\ E.by \in Members /\ Participants(e) = People(e, E)
      /\ \A k \in R : k[2] # "proposer"
      /\ E.vis = "shared" =>
           /\ \E k \in R : R = {k}
           /\ \A k \in R : k[1] \in {Author[e], Owner}
      /\ E.vis = "participant_only" =>
           \A p \in Participants(e) \ {E.by} : <<p, "participant">> \in R
  BY <1>3, ReviewerFacts
<1>6. E.vis = "shared" => \A k \in R : k[1] # E.by \/ Appearance(e)
  BY <1>3, <1>5 DEF Submittable
<1> HIDE DEF R, rev, F, B
<1>7. ASSUME R # {} PROVE Asking(B) = R /\ Agreeing(e, F, B)
  <2>1. Asking(B) = R
    BY <1>2 DEF Asking
  <2>2. \A k \in DOMAIN B : B[k].rev = F.rev
    BY <1>2, <1>7
  <2>3. F.vis = "shared" =>
          \A k \in DOMAIN B : k[2] # "proposer" =>
            k[1] \in {Author[e], Owner} /\ (k[1] # F.by \/ Appearance(e))
    <3>1. key[2] = "proposer"
      OBVIOUS
    <3> QED
      BY <1>2, <1>5, <1>6, <3>1
  <2>4. \A k \in DOMAIN B : B[k].state \in {"pending", "approved"}
    BY <1>2
  <2>5. <<F.by, "proposer">> = key /\ People(e, F) = People(e, E)
    BY <1>2, <1>3 DEF People
  <2> QED
    BY <1>2, <1>5, <2>1, <2>2, <2>3, <2>4, <2>5 DEF Agreeing
<1>8. Sound(e, F, B, said[e])
  <2>1. F.by # NoMember
    BY <1>2, <1>5, ChronicleAssumption DEF ChronicleAssumption
  <2>2. F.rev >= 1
    BY <1>2
  <2>3. said[e] # "canon"
    BY <1>1, <1>3 DEF Sound
  <2>4. CASE R = {}
    <3>1. F.status = "canon" /\ F.vis # "shared"
      BY <1>2, <1>5, <2>4
    <3> QED
      BY <1>2, <2>1, <2>2, <2>3, <2>4, <3>1 DEF Sound
  <2>5. CASE R # {}
    BY <1>2, <1>7, <2>1, <2>2, <2>3, <2>5 DEF Sound
  <2> QED
    BY <2>4, <2>5
<1>9. ASSUME NEW t \in token'
      PROVE  \/ t \in token /\ t.entry # e
             \/ t \in Controls /\ t.entry = e /\ Fits(t, F, B)
  <2>1. CASE t \in UNION {ReviewControls(e, k[1], k[2], rev, NoticeLife) : k \in R}
    <3>1. /\ t \in Controls /\ t.entry = e /\ t.role # "entry" /\ t.rev = rev
          /\ <<t.by, t.role>> \in R
      BY <1>1, <1>2, <2>1, RequestControls
    <3>2. R # {}
      BY <3>1
    <3> QED
      BY <1>2, <1>7, <3>1, <3>2 DEF Fits
  <2>2. CASE t \in token \ OnEntry(e)
    BY <1>1, <1>3, <2>2 DEF Fits, OnEntry
  <2> QED
    BY <1>4, <2>1, <2>2
<1>10. clock' = clock /\ said' = [said EXCEPT ![e] = said[e]]
  BY <1>1, <1>3
<1> QED
  BY <1>1, <1>2, <1>3, <1>8, <1>9, <1>10, OneEntry

-----------------------------------------------------------------------------
(* Decisions                                                               *)

(* A request is shown or announced: nothing of what it asks changes.       *)
LEMMA SameRequests ==
  ASSUME EInv, NEW e \in Entries, NEW B \in Reviews,
         entry[e].status = "proposed", DOMAIN B = DOMAIN approval[e],
         \A k \in DOMAIN B : /\ B[k].state = approval[e][k].state
                             /\ B[k].rev = approval[e][k].rev,
         approval' = [approval EXCEPT ![e] = B],
         UNCHANGED <<clock, entry, token, said>>
  PROVE  EInv'
<1> DEFINE A == approval[e]
           E == entry[e]
<1>1. /\ EntriesTyped /\ said[e] \in Words /\ E \in EntryRows /\ Sound(e, E, A, said[e])
      /\ \A t \in token : t \in Controls /\ (t.entry = e => Fits(t, E, A))
      /\ said = [said EXCEPT ![e] = said[e]] /\ entry = [entry EXCEPT ![e] = E]
  BY OfEntry
<1>2. E.status = "proposed" /\ Asking(B) = Asking(A)
  BY DEF Asking
<1>3. Agreeing(e, E, A) => Agreeing(e, E, B)
  BY DEF Agreeing
<1>4. Sound(e, E, B, said[e])
  BY <1>1, <1>2, <1>3 DEF Sound
<1>5. \A t \in token' : \/ t \in token /\ t.entry # e
                        \/ t \in Controls /\ t.entry = e /\ Fits(t, E, B)
  BY <1>1, <1>2 DEF Fits
<1>6. /\ clock' = clock /\ entry' = [entry EXCEPT ![e] = E]
      /\ said' = [said EXCEPT ![e] = said[e]]
  BY <1>1
<1> HIDE DEF A, E
<1> QED
  BY <1>1, <1>4, <1>5, <1>6, OneEntry

(* What is not quiet is asked about a proposal. *)
LEMMA NotQuiet ==
  ASSUME EInv, NEW e \in Entries, NEW k \in DOMAIN approval[e], ~IsQuiet(approval[e][k])
  PROVE  entry[e].status = "proposed" /\ entry[e].submitted
<1>1. entry[e] \in EntryRows /\ Sound(e, entry[e], approval[e], said[e])
  BY OfEntry
<1> QED
  BY <1>1, EntryFields DEF Sound

LEMMA OpenNoticeKeeps ==
  ASSUME EInv, NEW e \in Entries, NEW k \in DOMAIN approval[e], OpenNotice(e, k)
  PROVE  EInv'
<1> DEFINE A == approval[e]
           a == [A[k] EXCEPT !.notice = "opened"]
           B == [A EXCEPT ![k] = a]
<1>1. A \in [DOMAIN A -> Requests] /\ DOMAIN A \subseteq Keys
  BY OfEntry
<1>2. a \in Requests /\ a.state = A[k].state /\ a.rev = A[k].rev
  BY <1>1 DEF Requests
<1>3. approval' = [approval EXCEPT ![e] = B]
  BY DEF OpenNotice
<1>4. entry[e].status = "proposed"
  BY NotQuiet DEF OpenNotice, IsQuiet
<1> HIDE DEF a
<1>5. B \in [DOMAIN A -> Requests] /\ B[k] = a /\ \A j \in DOMAIN A : j # k => B[j] = A[j]
  BY <1>1, <1>2
<1>6. B \in Reviews /\ DOMAIN B = DOMAIN A
  BY <1>1, <1>5 DEF Reviews
<1>7. \A j \in DOMAIN B : B[j].state = A[j].state /\ B[j].rev = A[j].rev
  BY <1>2, <1>5, <1>6
<1>8. UNCHANGED <<clock, entry, token, said>>
  BY DEF OpenNotice
<1> HIDE DEF B
<1> QED
  BY <1>3, <1>4, <1>6, <1>7, <1>8, SameRequests

LEMMA AnnounceKeeps ==
  ASSUME EInv, NEW e \in Entries, NEW k \in DOMAIN approval[e], Announce(e, k)
  PROVE  EInv'
<1> DEFINE A == approval[e]
           a == [A[k] EXCEPT !.card = "sent"]
           B == [A EXCEPT ![k] = a]
<1>1. A \in [DOMAIN A -> Requests] /\ DOMAIN A \subseteq Keys
  BY OfEntry
<1>2. a \in Requests /\ a.state = A[k].state /\ a.rev = A[k].rev
  BY <1>1 DEF Requests
<1>3. approval' = [approval EXCEPT ![e] = B]
  BY DEF Announce
<1>4. entry[e].status = "proposed"
  BY NotQuiet DEF Announce, IsQuiet
<1> HIDE DEF a
<1>5. B \in [DOMAIN A -> Requests] /\ B[k] = a /\ \A j \in DOMAIN A : j # k => B[j] = A[j]
  BY <1>1, <1>2
<1>6. B \in Reviews /\ DOMAIN B = DOMAIN A
  BY <1>1, <1>5 DEF Reviews
<1>7. \A j \in DOMAIN B : B[j].state = A[j].state /\ B[j].rev = A[j].rev
  BY <1>2, <1>5, <1>6
<1>8. UNCHANGED <<clock, entry, token, said>>
  BY DEF Announce
<1> HIDE DEF B
<1> QED
  BY <1>3, <1>4, <1>6, <1>7, <1>8, SameRequests

(* An entry is closed: its controls are gone and its requests are quiet.   *)
LEMMA ClosedKeeps ==
  ASSUME EInv, NEW e \in Entries, NEW F \in EntryRows, NEW B \in Reviews,
         NEW word \in Words, entry[e].status # "none",
         F.status \in {"canon", "retracted"}, F.by = entry[e].by,
         F.submitted = entry[e].submitted, F.rev = entry[e].rev + 1,
         DOMAIN B = DOMAIN approval[e], \A k \in DOMAIN B : IsQuiet(B[k]),
         word = "canon" <=> F.status = "canon" /\ F.vis = "shared",
         clock' = clock, entry' = [entry EXCEPT ![e] = F],
         approval' = [approval EXCEPT ![e] = B], said' = [said EXCEPT ![e] = word],
         \A t \in token' : t \in token /\ t.entry # e
  PROVE  EInv'
<1>1. /\ entry[e] \in EntryRows /\ Sound(e, entry[e], approval[e], said[e])
  BY OfEntry
<1>2. entry[e].rev \in Nat /\ F.rev >= 1
  BY <1>1, EntryFields
<1>3. Sound(e, F, B, word)
  BY <1>1, <1>2 DEF Sound
<1> QED
  BY <1>3, OneEntry

(* The row of a retracted entry. *)
LEMMA GoneFacts ==
  ASSUME EInv, NEW e \in Entries
  PROVE  \E F \in EntryRows :
           /\ Gone(e) = [entry EXCEPT ![e] = F]
           /\ F.status = "retracted" /\ F.by = entry[e].by /\ F.vis = entry[e].vis
           /\ F.submitted = entry[e].submitted /\ F.rev = entry[e].rev + 1
<1> DEFINE E == entry[e]
           rev == E.rev + 1
           F == [E EXCEPT !.status = "retracted", !.rev = rev]
<1>1. E \in EntryRows
  BY OfEntry
<1>2. rev \in Nat
  BY <1>1, EntryFields
<1>3. Gone(e) = [entry EXCEPT ![e] = F]
  BY DEF Gone
<1> HIDE DEF rev
<1>4. /\ F \in EntryRows /\ F.status = "retracted" /\ F.by = E.by /\ F.vis = E.vis
      /\ F.submitted = E.submitted /\ F.rev = rev
  BY <1>1, <1>2 DEF EntryRows
<1> QED
  BY <1>3, <1>4 DEF rev

LEMMA RetractDraftKeeps ==
  ASSUME EInv, NEW e \in Entries, NEW u \in Members, RetractDraft(u, e)
  PROVE  EInv'
<1>1. /\ EntriesTyped /\ approval[e] \in Reviews /\ said[e] \in Words
      /\ entry[e] \in EntryRows /\ Sound(e, entry[e], approval[e], said[e])
      /\ \A t \in token : t \in Controls /\ (t.entry = e => Fits(t, entry[e], approval[e]))
      /\ approval = [approval EXCEPT ![e] = approval[e]]
      /\ said = [said EXCEPT ![e] = said[e]]
  BY OfEntry
<1>2. PICK F \in EntryRows :
           /\ Gone(e) = [entry EXCEPT ![e] = F]
           /\ F.status = "retracted" /\ F.by = entry[e].by /\ F.vis = entry[e].vis
           /\ F.submitted = entry[e].submitted /\ F.rev = entry[e].rev + 1
  BY GoneFacts
<1>3. /\ entry[e].status = "proposed" /\ Live(e, "retract", u, "entry") # {}
      /\ entry' = Gone(e) /\ token' = token \ OnEntry(e)
      /\ UNCHANGED <<clock, approval, said>>
  BY DEF RetractDraft
<1>4. ~entry[e].submitted
  BY <1>1, <1>3 DEF Live, Fits
<1>5. \A t \in token' : t \in token /\ t.entry # e
  BY <1>1, <1>3, <1>4 DEF Fits, OnEntry
<1>6. DOMAIN approval[e] = {} /\ said[e] # "canon"
  BY <1>1, <1>3, <1>4 DEF Sound
<1> DEFINE B == approval[e]
           word == said[e]
<1>7. /\ B \in Reviews /\ word \in Words /\ DOMAIN B = DOMAIN approval[e]
      /\ \A k \in DOMAIN B : IsQuiet(B[k])
      /\ word = "canon" <=> F.status = "canon" /\ F.vis = "shared"
      /\ approval' = [approval EXCEPT ![e] = B] /\ said' = [said EXCEPT ![e] = word]
  BY <1>1, <1>2, <1>3, <1>6
<1>8. /\ clock' = clock /\ entry' = [entry EXCEPT ![e] = F]
      /\ entry[e].status # "none" /\ F.status \in {"canon", "retracted"}
  BY <1>2, <1>3
<1> HIDE DEF B, word
<1> QED
  BY <1>2, <1>5, <1>7, <1>8, ClosedKeeps

(* A withdrawn request is quiet and asks nothing. *)
LEMMA WithdrawnFacts ==
  ASSUME NEW a \in Requests
  PROVE  Withdrawn(a) \in Requests /\ IsQuiet(Withdrawn(a))
<1> DEFINE q == Quiet(a)
           state == IF q.state = "pending" THEN "cancelled" ELSE q.state
           b == [q EXCEPT !.state = state]
<1>1. q \in Requests /\ q.card # "pending" /\ q.notice \notin {"pending", "opened"}
  BY QuietFacts
<1>2. Withdrawn(a) = b
  BY DEF Withdrawn
<1> HIDE DEF q
<1>3. state \in {"approved", "declined", "cancelled"}
  BY <1>1, RequestFields
<1> HIDE DEF state
<1>4. b \in Requests /\ b.state = state /\ b.notice = q.notice /\ b.card = q.card
  BY <1>1, <1>3 DEF Requests
<1> HIDE DEF b
<1> QED
  BY <1>1, <1>2, <1>3, <1>4 DEF IsQuiet

LEMMA RetractEntryKeeps ==
  ASSUME EInv, NEW e \in Entries, NEW u \in Members, RetractEntry(u, e)
  PROVE  EInv'
<1> DEFINE A == approval[e]
           B == [k \in DOMAIN A |-> Withdrawn(A[k])]
           word == IF entry[e].status = "canon" /\ entry[e].vis = "shared"
                   THEN "retracted" ELSE said[e]
<1>1. /\ EntriesTyped /\ A \in [DOMAIN A -> Requests] /\ DOMAIN A \subseteq Keys
      /\ said[e] \in Words /\ Sound(e, entry[e], A, said[e])
      /\ said = [said EXCEPT ![e] = said[e]]
  BY OfEntry
<1>2. PICK F \in EntryRows :
           /\ Gone(e) = [entry EXCEPT ![e] = F]
           /\ F.status = "retracted" /\ F.by = entry[e].by /\ F.vis = entry[e].vis
           /\ F.submitted = entry[e].submitted /\ F.rev = entry[e].rev + 1
  BY GoneFacts
<1>4. entry' = Gone(e) /\ entry[e].status \in {"proposed", "canon"} /\ clock' = clock
  BY DEF RetractEntry
<1>5. approval' = [approval EXCEPT ![e] = B] /\ token' = {t \in token : t.entry # e}
  BY DEF RetractEntry, ArtifactsCancelled
<1>6. said' = [said EXCEPT ![e] = word]
  <2>1. CASE entry[e].status = "canon" /\ entry[e].vis = "shared"
    BY <2>1 DEF RetractEntry
  <2>2. CASE ~(entry[e].status = "canon" /\ entry[e].vis = "shared")
    BY <1>1, <2>2 DEF RetractEntry
  <2> QED
    BY <2>1, <2>2
<1>7. word \in Words /\ word # "canon"
  BY <1>1 DEF Sound, Words
<1> HIDE DEF word
<1>8. B \in [DOMAIN A -> Requests] /\ \A k \in DOMAIN A : IsQuiet(B[k])
  BY <1>1, WithdrawnFacts
<1>9. B \in Reviews /\ DOMAIN B = DOMAIN A
  BY <1>1, <1>8 DEF Reviews
<1>10. \A k \in DOMAIN B : IsQuiet(B[k])
  BY <1>8, <1>9
<1>11. /\ entry' = [entry EXCEPT ![e] = F] /\ entry[e].status # "none"
       /\ F.status \in {"canon", "retracted"}
       /\ word = "canon" <=> F.status = "canon" /\ F.vis = "shared"
       /\ \A t \in token' : t \in token /\ t.entry # e
  BY <1>2, <1>4, <1>5, <1>7
<1> HIDE DEF B
<1> QED
  BY <1>2, <1>4, <1>5, <1>6, <1>7, <1>9, <1>10, <1>11, ClosedKeeps

LEMMA SettledFacts ==
  ASSUME NEW a \in Requests, NEW state \in {"approved", "declined"}
  PROVE  LET b == Settled(a, state) IN
         b \in Requests /\ b.state = state /\ b.rev = a.rev
<1> DEFINE notice == IF a.notice = "opened" THEN "consumed" ELSE a.notice
<1>1. notice \in {"none", "pending", "consumed", "cancelled"}
  BY RequestFields
<1>2. Settled(a, state) = [a EXCEPT !.state = state, !.notice = notice]
  BY DEF Settled
<1> HIDE DEF notice
<1> QED
  BY <1>1, <1>2 DEF Requests

LEMMA DeclineKeeps ==
  ASSUME EInv, NEW e \in Entries, NEW u \in Members, NEW role \in Roles,
         Decline(u, e, role)
  PROVE  EInv'
<1> DEFINE A == approval[e]
           key == <<u, role>>
           B == [k \in DOMAIN A |-> IF k = key THEN Quiet(Settled(A[k], "declined"))
                                               ELSE Withdrawn(A[k])]
<1>1. /\ EntriesTyped /\ A \in [DOMAIN A -> Requests] /\ DOMAIN A \subseteq Keys
      /\ said[e] \in Words /\ Sound(e, entry[e], A, said[e])
      /\ said = [said EXCEPT ![e] = said[e]]
  BY OfEntry
<1>2. PICK F \in EntryRows :
           /\ Gone(e) = [entry EXCEPT ![e] = F]
           /\ F.status = "retracted" /\ F.by = entry[e].by /\ F.vis = entry[e].vis
           /\ F.submitted = entry[e].submitted /\ F.rev = entry[e].rev + 1
  BY GoneFacts
<1>3. /\ entry' = Gone(e) /\ entry[e].status = "proposed"
      /\ token' = {t \in token : t.entry # e} /\ approval' = [approval EXCEPT ![e] = B]
      /\ UNCHANGED <<clock, said>>
  BY DEF Decline, Pressed
<1>4. ASSUME NEW a \in Requests
      PROVE  LET q == Quiet(Settled(a, "declined")) IN q \in Requests /\ IsQuiet(q)
  <2> DEFINE b == Settled(a, "declined")
  <2>1. b \in Requests /\ b.state = "declined"
    BY SettledFacts
  <2> HIDE DEF b
  <2>2. Quiet(b) \in Requests /\ IsQuiet(Quiet(b))
    BY <2>1, QuietFacts DEF IsQuiet
  <2> QED
    BY <2>2 DEF b
<1>5. B \in [DOMAIN A -> Requests] /\ \A k \in DOMAIN A : IsQuiet(B[k])
  BY <1>1, <1>4, WithdrawnFacts
<1>6. B \in Reviews /\ DOMAIN B = DOMAIN A
  BY <1>1, <1>5 DEF Reviews
<1>7. \A k \in DOMAIN B : IsQuiet(B[k])
  BY <1>5, <1>6
<1> DEFINE word == said[e]
<1>8. /\ word \in Words /\ said' = [said EXCEPT ![e] = word]
      /\ word = "canon" <=> F.status = "canon" /\ F.vis = "shared"
  BY <1>1, <1>2, <1>3 DEF Sound
<1>9. /\ entry' = [entry EXCEPT ![e] = F] /\ entry[e].status # "none"
      /\ F.status \in {"canon", "retracted"} /\ clock' = clock
      /\ approval' = [approval EXCEPT ![e] = B]
      /\ \A t \in token' : t \in token /\ t.entry # e
  BY <1>2, <1>3
<1> HIDE DEF B, word
<1> QED
  BY <1>2, <1>6, <1>7, <1>8, <1>9, ClosedKeeps

(* What an approval writes into the requests of an entry that then has the *)
(* status.                                                                 *)
Answered(A, key, status) ==
  [x \in DOMAIN A |-> LET a == IF x = key THEN Settled(A[x], "approved") ELSE A[x]
                      IN IF status = "canon" THEN Quiet(a) ELSE a]

LEMMA AnsweredFacts ==
  ASSUME NEW A \in Reviews, NEW key, NEW status
  PROVE  LET B == Answered(A, key, status) IN
         /\ B \in Reviews /\ DOMAIN B = DOMAIN A
         /\ \A k \in DOMAIN A :
              /\ B[k].state = IF k = key THEN "approved" ELSE A[k].state
              /\ B[k].rev = A[k].rev
              /\ status = "canon" => B[k].card # "pending" /\ B[k].notice \notin {"pending", "opened"}
<1> DEFINE a(k) == IF k = key THEN Settled(A[k], "approved") ELSE A[k]
           B == [k \in DOMAIN A |-> IF status = "canon" THEN Quiet(a(k)) ELSE a(k)]
<1>1. A \in [DOMAIN A -> Requests] /\ DOMAIN A \subseteq Keys
  BY ReviewFacts
<1>2. B = Answered(A, key, status)
  BY DEF Answered
<1>3. ASSUME NEW k \in DOMAIN A
      PROVE  /\ a(k) \in Requests /\ a(k).rev = A[k].rev
             /\ a(k).state = IF k = key THEN "approved" ELSE A[k].state
  BY <1>1, SettledFacts
<1> HIDE DEF a
<1>4. ASSUME NEW k \in DOMAIN A
      PROVE  /\ B[k] \in Requests /\ B[k].rev = a(k).rev /\ B[k].state = a(k).state
             /\ status = "canon" => B[k].card # "pending" /\ B[k].notice \notin {"pending", "opened"}
  BY <1>3, QuietFacts
<1>5. B \in [DOMAIN A -> Requests]
  BY <1>4
<1>6. B \in Reviews /\ DOMAIN B = DOMAIN A
  BY <1>1, <1>5 DEF Reviews
<1> HIDE DEF B
<1> QED
  BY <1>2, <1>3, <1>4, <1>6

(* The approval that is not the last: the others are still asked.          *)
LEMMA ApproveKeeps ==
  ASSUME EInv, NEW e \in Entries, NEW u \in Members, NEW role \in Roles,
         Approve(u, e, role)
  PROVE  EInv'
<1> DEFINE A == approval[e]
           E == entry[e]
           key == <<u, role>>
<1>1. /\ EntriesTyped /\ A \in Reviews /\ A \in [DOMAIN A -> Requests]
      /\ said[e] \in Words /\ E \in EntryRows /\ Sound(e, E, A, said[e])
      /\ \A t \in token : t \in Controls /\ (t.entry = e => Fits(t, E, A))
      /\ said = [said EXCEPT ![e] = said[e]] /\ entry = [entry EXCEPT ![e] = E]
  BY OfEntry
<1>2. E.status = "proposed" /\ key \in Asking(A) /\ Pending(e) = Asking(A)
  BY DEF Approve, Pressed, Pending, Asking
<1>3. E.submitted /\ key \in DOMAIN A
  BY <1>1, <1>2 DEF Sound, Asking
<1>4. CASE Pending(e) = {key}
  <2> DEFINE F == [E EXCEPT !.status = "canon", !.rev = E.rev + 1]
             B == Answered(A, key, "canon")
             word == IF E.vis = "shared" THEN "canon" ELSE said[e]
  <2>1. /\ B \in Reviews /\ DOMAIN B = DOMAIN A
        /\ \A k \in DOMAIN A :
             /\ B[k].state = IF k = key THEN "approved" ELSE A[k].state
             /\ B[k].card # "pending" /\ B[k].notice \notin {"pending", "opened"}
    BY <1>1, AnsweredFacts
  <2>2. \A k \in DOMAIN B : IsQuiet(B[k])
    BY <1>2, <1>4, <2>1 DEF IsQuiet, Asking
  <2>3. /\ clock' = clock /\ entry' = [entry EXCEPT ![e] = F]
        /\ token' = token \ {t \in token : t.entry = e}
        /\ approval' = [approval EXCEPT ![e] = B]
    BY <1>4 DEF Approve, Answered
  <2>4. said' = [said EXCEPT ![e] = word]
    <3>1. CASE E.vis = "shared"
      BY <1>4, <3>1 DEF Approve
    <3>2. CASE E.vis # "shared"
      BY <1>1, <1>4, <3>2 DEF Approve
    <3> QED
      BY <3>1, <3>2
  <2>5. /\ F \in EntryRows /\ F.status = "canon" /\ F.by = E.by /\ F.vis = E.vis
        /\ F.submitted = E.submitted /\ F.rev = E.rev + 1
    <3> DEFINE rev == E.rev + 1
    <3>1. rev \in Nat
      BY <1>1, EntryFields
    <3>2. F = [E EXCEPT !.status = "canon", !.rev = rev]
      OBVIOUS
    <3> HIDE DEF rev, F
    <3>3. /\ F \in EntryRows /\ F.status = "canon" /\ F.by = E.by /\ F.vis = E.vis
          /\ F.submitted = E.submitted /\ F.rev = rev
      BY <1>1, <3>1, <3>2 DEF EntryRows
    <3> QED
      BY <3>3 DEF rev
  <2>6. word \in Words /\ (word = "canon" <=> F.status = "canon" /\ F.vis = "shared")
    <3>1. said[e] # "canon"
      BY <1>1, <1>2 DEF Sound
    <3> HIDE DEF F
    <3> QED
      BY <1>1, <2>5, <3>1 DEF Words
  <2>7. \A t \in token' : t \in token /\ t.entry # e
    BY <2>3
  <2> HIDE DEF F, B, word
  <2> QED
    BY <1>2, <2>1, <2>2, <2>3, <2>4, <2>5, <2>6, <2>7, ClosedKeeps
<1>5. CASE Pending(e) # {key}
  <2> DEFINE B == Answered(A, key, "proposed")
  <2>1. /\ B \in Reviews /\ DOMAIN B = DOMAIN A
        /\ \A k \in DOMAIN A :
             /\ B[k].state = IF k = key THEN "approved" ELSE A[k].state
             /\ B[k].rev = A[k].rev
    BY <1>1, AnsweredFacts
  <2>2. /\ UNCHANGED <<clock, entry, said>>
        /\ token' = token \ {t \in OnApproval(e, role) : t.by = u}
        /\ approval' = [approval EXCEPT ![e] = B]
    BY <1>5 DEF Approve, Answered
  <2> HIDE DEF B
  <2>3. Asking(B) = Asking(A) \ {key}
    BY <2>1 DEF Asking
  <2>4. Asking(B) # {}
    BY <1>2, <1>5, <2>3
  <2>5. Agreeing(e, E, B)
    <3>1. Agreeing(e, E, A)
      BY <1>1, <1>2, <1>3 DEF Sound
    <3> QED
      BY <2>1, <3>1 DEF Agreeing
  <2>6. Sound(e, E, B, said[e])
    BY <1>1, <1>2, <1>3, <2>1, <2>4, <2>5 DEF Sound
  <2>7. ASSUME NEW t \in token'
        PROVE  \/ t \in token /\ t.entry # e
               \/ t \in Controls /\ t.entry = e /\ Fits(t, E, B)
    <3>1. t \in token /\ t \in Controls
      BY <1>1, <2>2
    <3>2. CASE t.entry = e
      <4>1. Fits(t, E, A) /\ ~(t.role = role /\ t.by = u)
        BY <1>1, <2>2, <3>1, <3>2 DEF OnApproval
      <4>2. t.role # "entry" /\ <<t.by, t.role>> \in Asking(A) /\ <<t.by, t.role>> # key
        BY <1>3, <4>1 DEF Fits
      <4> QED
        BY <2>3, <3>1, <3>2, <4>1, <4>2 DEF Fits
    <3> QED
      BY <3>1, <3>2
  <2>8. /\ clock' = clock /\ entry' = [entry EXCEPT ![e] = E]
        /\ said' = [said EXCEPT ![e] = said[e]]
    BY <1>1, <2>2
  <2> HIDE DEF A, E
  <2> QED
    BY <1>1, <2>1, <2>2, <2>6, <2>7, <2>8, OneEntry
<1> QED
  BY <1>4, <1>5

-----------------------------------------------------------------------------
(* The public word                                                         *)

(* The other steps leave the entries; controls may lapse. *)
LEMMA Elsewhere ==
  ASSUME EInv, UNCHANGED <<entry, approval, said>>, token' \subseteq token, clock' \in Nat
  PROVE  EInv'
<1>1. EntriesTyped'
  BY DEF EInv, EntriesTyped
<1>2. \A e \in Entries : Sound(e, entry'[e], approval'[e], said'[e])
  BY DEF EInv
<1>3. \A t \in token' : Fits(t, entry'[t.entry], approval'[t.entry])
  BY DEF EInv
<1> QED
  BY <1>1, <1>2, <1>3 DEF EInv, Sound, Fits

LEMMA EntryStepKeeps == EInv /\ EntryStep => EInv'
<1> SUFFICES ASSUME EInv, EntryStep PROVE EInv'
  OBVIOUS
<1>1. PICK e \in Entries :
        \/ \E u \in Members :
             \/ \E vis \in Visibilities :
                  \/ Propose(u, e, vis) \/ Reissue(u, e, vis) \/ RenewRequests(u, e, vis)
                  \/ Edit(u, e, vis)
             \/ OwnerTakesOver(u, e)
             \/ Submit(u, e) \/ RetractDraft(u, e) \/ RetractEntry(u, e)
             \/ \E role \in {"participant", "owner", "owner_stale"} :
                  Approve(u, e, role) \/ Decline(u, e, role)
        \/ \E k \in DOMAIN approval[e] : OpenNotice(e, k) \/ Announce(e, k)
  BY DEF EntryStep
<1>2. CASE \E k \in DOMAIN approval[e] : OpenNotice(e, k) \/ Announce(e, k)
  BY <1>2, OpenNoticeKeeps, AnnounceKeeps
<1>3. ASSUME NEW u \in Members, NEW vis \in Visibilities,
             Propose(u, e, vis) \/ Reissue(u, e, vis) \/ RenewRequests(u, e, vis)
               \/ Edit(u, e, vis)
      PROVE  EInv'
  BY <1>3, ProposeKeeps, ReissueKeeps, RenewRequestsKeeps, EditKeeps
<1>4. ASSUME NEW u \in Members,
             OwnerTakesOver(u, e) \/ Submit(u, e) \/ RetractDraft(u, e) \/ RetractEntry(u, e)
      PROVE  EInv'
  BY <1>4, OwnerTakesOverKeeps, SubmitKeeps, RetractDraftKeeps, RetractEntryKeeps
<1>5. ASSUME NEW u \in Members, NEW role \in {"participant", "owner", "owner_stale"},
             Approve(u, e, role) \/ Decline(u, e, role)
      PROVE  EInv'
  <2>1. role \in Roles
    BY DEF Roles
  <2> QED
    BY <1>5, <2>1, ApproveKeeps, DeclineKeeps
<1> QED
  BY <1>1, <1>2, <1>3, <1>4, <1>5

(* The steps of memories leave the entries alone. *)
LEMMA MemoriesApart ==
  ASSUME MemoryStep
  PROVE  UNCHANGED <<clock, entry, approval, token, said>>
<1> DEFINE Same == UNCHANGED <<clock, entry, approval, token, said>>
<1>1. \A m : Preview(m) \/ Confirm(m) \/ ClaimExpiry(m) => Same
  BY DEF Preview, Confirm, ClaimExpiry
<1>2. \A m, u : RetractMemory(u, m) => Same
  BY DEF RetractMemory
<1>3. \A m, l : ExpireMemory(m, l) \/ ExpiryFails(m, l) \/ ExpiryReleased(m, l) => Same
  BY DEF ExpireMemory, ExpiryFails, ExpiryReleased
<1>4. \A m, b : Press(m, b) \/ PressFails(m, b) \/ Finish(m, b) => Same
  BY DEF Press, PressFails, Finish
<1> HIDE DEF Same
<1>5. Same
  BY <1>1, <1>2, <1>3, <1>4 DEF MemoryStep
<1> QED
  BY <1>5 DEF Same

LEMMA EntriesKept == EInv /\ [Next]_vars => EInv'
<1> SUFFICES ASSUME EInv, [Next]_vars PROVE EInv'
  OBVIOUS
<1>1. clock \in Nat
  BY DEF EInv, EntriesTyped
<1>2. CASE EntryStep
  BY <1>2, EntryStepKeeps
<1>3. CASE MemoryStep
  <2>1. UNCHANGED <<clock, entry, approval, token, said>>
    BY <1>3, MemoriesApart
  <2> QED
    BY <1>1, <2>1, Elsewhere
<1>4. CASE \E u \in Members : SetConsent(u)
  BY <1>1, <1>4, Elsewhere DEF SetConsent
<1>5. CASE Tick
  <2>1. clock' \in Nat /\ token' \subseteq token
    BY <1>1, <1>5 DEF Tick
  <2> QED
    BY <1>5, <2>1, Elsewhere DEF Tick
<1>6. CASE UNCHANGED vars
  BY <1>1, <1>6, Elsewhere DEF vars
<1> QED
  BY <1>2, <1>3, <1>4, <1>5, <1>6 DEF Next

LEMMA PublicWordOfEntries == EInv => PublicWordHolds
<1> SUFFICES ASSUME EInv PROVE PublicWordHolds
  OBVIOUS
<1>1. ASSUME NEW e \in Entries
      PROVE  /\ Pending(e) = Asking(approval[e])
             /\ Sound(e, entry[e], approval[e], said[e])
             /\ \A t \in token : t.entry = e => Fits(t, entry[e], approval[e])
  BY DEF EInv, Pending, Asking
<1>2. ControlsAreCurrent
  BY <1>1 DEF ControlsAreCurrent, Sound, Fits, IsQuiet
<1>3. PublicWordIsTrue
  BY <1>1 DEF PublicWordIsTrue, Sound
<1> QED
  BY <1>2, <1>3 DEF PublicWordHolds

(* However proposals, edits, submissions, renewals, takeovers, decisions,  *)
(* retractions, changes of consent and time follow one another: a control  *)
(* a member can press is for the entry's state and revision, an entry      *)
(* under review can be decided, a closed one leaves no request behind, and *)
(* the last public word about an entry is true.                            *)
THEOREM PublicWordIsKept == Spec => []PublicWordHolds
<1>1. Init => EInv
  BY InitEntries
<1>2. EInv /\ [Next]_vars => EInv'
  BY EntriesKept
<1>3. EInv => PublicWordHolds
  BY PublicWordOfEntries
<1> QED
  BY <1>1, <1>2, <1>3, PTL DEF Spec

-----------------------------------------------------------------------------
(* Agreement                                                               *)

Agreed(B, rev) == {k \in DOMAIN B : B[k].state = "approved" /\ B[k].rev = rev}

(* A step on one entry leaves the row of every other. *)
LEMMA OtherRows ==
  ASSUME EInv, NEW p \in Entries, NEW F, entry' = [entry EXCEPT ![p] = F]
  PROVE  entry'[p] = F /\ \A e \in Entries \ {p} : entry'[e] = entry[e]
  BY DEF EInv, EntriesTyped

(* Of the steps of an entry, only its submission and its last approval     *)
(* make it canon.                                                          *)
LEMMA StatusMoves ==
  ASSUME EInv, NEW p \in Entries, NEW e \in Entries, NEW u \in Members,
         NEW vis \in Visibilities, NEW role \in Roles,
         \/ Propose(u, p, vis) \/ Reissue(u, p, vis) \/ RenewRequests(u, p, vis)
         \/ Edit(u, p, vis) \/ OwnerTakesOver(u, p) \/ RetractDraft(u, p)
         \/ RetractEntry(u, p) \/ Decline(u, p, role)
         \/ e # p /\ (Submit(u, p) \/ Approve(u, p, role))
         \/ Approve(u, p, role) /\ Pending(p) # {<<u, role>>},
         entry'[e].status = "canon"
  PROVE  entry[e].status = "canon"
<1>1. entry[p] \in EntryRows
  BY OfEntry
<1>2. CASE UNCHANGED entry
  BY <1>2
<1>3. ASSUME NEW F, entry' = [entry EXCEPT ![p] = F],
             e # p \/ F.status # "canon" \/ F.status = entry[p].status
      PROVE  entry[e].status = "canon"
  BY <1>3, OtherRows
<1>4. CASE Propose(u, p, vis)
  <2> DEFINE F == [status |-> "proposed", by |-> u, vis |-> vis, submitted |-> FALSE, rev |-> 1]
  <2>1. entry' = [entry EXCEPT ![p] = F] /\ F.status = "proposed"
    BY <1>4 DEF Propose
  <2> QED
    BY <1>3, <2>1
<1>5. CASE Reissue(u, p, vis) \/ RenewRequests(u, p, vis) \/ OwnerTakesOver(u, p)
  BY <1>2, <1>5 DEF Reissue, RenewRequests, OwnerTakesOver
<1>6. CASE Edit(u, p, vis)
  <2> DEFINE F == [entry[p] EXCEPT !.vis = vis, !.rev = entry[p].rev + 1]
  <2>1. entry' = [entry EXCEPT ![p] = F]
    BY <1>6 DEF Edit
  <2>2. F.status = entry[p].status
    BY <1>1 DEF EntryRows
  <2> QED
    BY <1>3, <2>1, <2>2
<1>7. CASE RetractDraft(u, p) \/ RetractEntry(u, p) \/ Decline(u, p, role)
  <2>1. entry' = Gone(p)
    BY <1>7 DEF RetractDraft, RetractEntry, Decline
  <2>2. PICK F \in EntryRows : Gone(p) = [entry EXCEPT ![p] = F] /\ F.status = "retracted"
    BY GoneFacts
  <2> QED
    BY <1>3, <2>1, <2>2
<1>8. CASE e # p /\ Submit(u, p)
  <2>1. entry' = [entry EXCEPT ![p] = SubmittedRow(p)]
    BY <1>8 DEF Submit, SubmittedRow
  <2> QED
    BY <1>3, <1>8, <2>1
<1>9. CASE e # p /\ Approve(u, p, role)
  <2>1. CASE Pending(p) = {<<u, role>>}
    <3>1. entry' = [entry EXCEPT ![p] = [entry[p] EXCEPT !.status = "canon", !.rev = entry[p].rev + 1]]
      BY <1>9, <2>1 DEF Approve
    <3> QED
      BY <1>3, <1>9, <3>1
  <2>2. CASE Pending(p) # {<<u, role>>}
    BY <1>2, <1>9, <2>2 DEF Approve
  <2> QED
    BY <2>1, <2>2
<1>10. CASE Approve(u, p, role) /\ Pending(p) # {<<u, role>>}
  BY <1>2, <1>10 DEF Approve
<1> QED
  BY <1>4, <1>5, <1>6, <1>7, <1>8, <1>9, <1>10

(* What the canon needs of an entry and of the answers it has. *)
AgreedTo(e) ==
  LET agreed == Agreed(approval'[e], entry'[e].rev - 1) IN
  /\ {entry[e].by} \cup (IF Appearance(e) THEN {} ELSE {Author[e]}) \subseteq optIn
  /\ IF entry[e].vis = "shared"
     THEN \E k \in agreed : k[2] # "proposer" /\ k[1] \in {Author[e], Owner}
            /\ (k[1] # entry[e].by \/ Appearance(e))
     ELSE /\ \A p \in Participants(e) : \E k \in agreed : k[1] = p
          /\ Participants(e) \subseteq optIn

LEMMA SubmitAgrees ==
  ASSUME EInv, NEW e \in Entries, NEW u \in Members, Submit(u, e),
         entry'[e].status = "canon"
  PROVE  AgreedTo(e)
<1> DEFINE E == entry[e]
           R == Reviewers(e)
           rev == entry[e].rev + 1
           F == SubmittedRow(e)
           B == SubmittedReview(u, e)
           key == <<u, "proposer">>
<1>1. /\ rev \in Nat \ {0}
      /\ F.status = (IF R = {} THEN "canon" ELSE "proposed")
      /\ F.rev = (IF R = {} THEN rev + 1 ELSE rev)
      /\ DOMAIN B = R \cup {key}
      /\ \A k \in DOMAIN B : B[k].rev = rev
      /\ B[key].state = "approved"
  BY SubmittedFacts
<1>2. /\ E.status = "proposed" /\ E.by = u /\ Submittable(e)
      /\ entry' = [entry EXCEPT ![e] = F] /\ approval' = [approval EXCEPT ![e] = B]
  BY DEF Submit, SubmittedRow, SubmittedReview
<1>3. entry'[e] = F /\ approval'[e] = B
  BY <1>2 DEF EInv, EntriesTyped
<1>4. /\ E.vis = "shared" => \E k \in R : R = {k}
      /\ E.vis = "participant_only" =>
           \A p \in Participants(e) \ {E.by} : <<p, "participant">> \in R
  BY <1>2, ReviewerFacts
<1> HIDE DEF R, rev, F, B
<1>5. R = {} /\ F.rev - 1 = rev
  BY <1>1, <1>3
<1>6. E.vis = "participant_only"
  <2>1. E \in EntryRows
    BY OfEntry
  <2>2. E.vis \in {"shared", "participant_only"}
    BY <2>1, EntryFields
  <2> QED
    BY <1>4, <1>5, <2>2
<1>7. Participants(e) \subseteq {u} /\ Participants(e) \subseteq optIn
  BY <1>2, <1>4, <1>5, <1>6 DEF Submittable
<1>8. {E.by} \cup (IF Appearance(e) THEN {} ELSE {Author[e]}) \subseteq Participants(e)
  BY DEF Participants
<1>9. key \in Agreed(approval'[e], entry'[e].rev - 1) /\ key[1] = u
  BY <1>1, <1>3, <1>5 DEF Agreed
<1> QED
  BY <1>6, <1>7, <1>8, <1>9 DEF AgreedTo

LEMMA ApprovalAgrees ==
  ASSUME EInv, NEW e \in Entries, NEW u \in Members,
         NEW role \in {"participant", "owner", "owner_stale"},
         Approve(u, e, role), Pending(e) = {<<u, role>>}
  PROVE  AgreedTo(e)
<1> DEFINE A == approval[e]
           E == entry[e]
           key == <<u, role>>
           rev == E.rev + 1
           F == [E EXCEPT !.status = "canon", !.rev = rev]
           B == Answered(A, key, "canon")
<1>1. A \in Reviews /\ E \in EntryRows /\ Sound(e, E, A, said[e])
  BY OfEntry
<1>2. E.status = "proposed" /\ Asking(A) = {key} /\ key \in DOMAIN A /\ Consented(u, e)
  BY DEF Approve, Pressed, Pending, Asking
<1>3. Agreeing(e, E, A)
  BY <1>1, <1>2 DEF Sound
<1>4. E.rev \in Nat /\ E.vis \in {"shared", "participant_only"}
  BY <1>1, EntryFields
<1>5. /\ DOMAIN B = DOMAIN A
      /\ \A k \in DOMAIN A :
           /\ B[k].state = IF k = key THEN "approved" ELSE A[k].state
           /\ B[k].rev = A[k].rev
  BY <1>1, AnsweredFacts
<1>6. entry' = [entry EXCEPT ![e] = F] /\ approval' = [approval EXCEPT ![e] = B]
  BY DEF Approve, Answered
<1>7. entry'[e] = F /\ approval'[e] = B
  BY <1>6 DEF EInv, EntriesTyped
<1>8. F.rev - 1 = E.rev
  BY <1>1, <1>4 DEF EntryRows
<1> HIDE DEF F, B
<1>9. \A k \in DOMAIN A : B[k].state = "approved" => k \in Agreed(approval'[e], entry'[e].rev - 1)
  BY <1>3, <1>5, <1>7, <1>8 DEF Agreed, Agreeing
<1>10. key \in Agreed(approval'[e], entry'[e].rev - 1)
  BY <1>2, <1>5, <1>9
<1>11. {E.by} \cup (IF Appearance(e) THEN {} ELSE {Author[e]}) \subseteq optIn
  BY <1>2 DEF Consented
<1>12. CASE E.vis = "shared"
  <2>1. key[2] # "proposer" /\ key[1] \in {Author[e], Owner} /\ (key[1] # E.by \/ Appearance(e))
    BY <1>2, <1>3, <1>12 DEF Agreeing
  <2> QED
    BY <1>10, <1>11, <1>12, <2>1 DEF AgreedTo
<1>13. CASE E.vis = "participant_only"
  <2>1. Participants(e) \subseteq optIn
    BY <1>2, <1>13 DEF Consented
  <2>2. ASSUME NEW p \in Participants(e)
        PROVE  \E k \in Agreed(approval'[e], entry'[e].rev - 1) : k[1] = p
    <3>1. CASE p = E.by
      <4>1. <<p, "proposer">> \in DOMAIN A /\ A[<<p, "proposer">>].state = "approved"
        BY <1>3, <1>13, <3>1 DEF Agreeing
      <4>2. B[<<p, "proposer">>].state = "approved"
        BY <1>5, <4>1
      <4> QED
        BY <1>9, <4>1, <4>2
    <3>2. CASE p # E.by
      <4> DEFINE k == <<p, "participant">>
      <4>1. k \in DOMAIN A /\ A[k].state \in {"pending", "approved"}
        BY <1>3, <1>13, <3>2 DEF Agreeing, People, AuthorOf, Participants
      <4>2. A[k].state = "pending" => k = key
        BY <1>2, <4>1 DEF Asking
      <4>3. B[k].state = "approved"
        BY <1>5, <4>1, <4>2
      <4> QED
        BY <1>9, <4>1, <4>3
    <3> QED
      BY <3>1, <3>2
  <2> QED
    BY <1>11, <1>13, <2>1, <2>2 DEF AgreedTo
<1> QED
  BY <1>4, <1>12, <1>13

LEMMA CanonStep ==
  ASSUME EInv, [Next]_vars, NEW e \in Entries,
         entry'[e].status = "canon", entry[e].status # "canon"
  PROVE  AgreedTo(e)
<1>1. CASE EntryStep
  <2>1. PICK p \in Entries :
          \/ \E u \in Members :
               \/ \E vis \in Visibilities :
                    \/ Propose(u, p, vis) \/ Reissue(u, p, vis) \/ RenewRequests(u, p, vis)
                    \/ Edit(u, p, vis)
               \/ OwnerTakesOver(u, p)
               \/ Submit(u, p) \/ RetractDraft(u, p) \/ RetractEntry(u, p)
               \/ \E role \in {"participant", "owner", "owner_stale"} :
                    Approve(u, p, role) \/ Decline(u, p, role)
          \/ \E k \in DOMAIN approval[p] : OpenNotice(p, k) \/ Announce(p, k)
    BY <1>1 DEF EntryStep
  <2>2. "participant" \in Roles /\ "shared" \in Visibilities
    BY DEF Roles, Visibilities
  <2>3. CASE \E k \in DOMAIN approval[p] : OpenNotice(p, k) \/ Announce(p, k)
    BY <2>3 DEF OpenNotice, Announce
  <2>4. ASSUME NEW u \in Members, NEW vis \in Visibilities,
               Propose(u, p, vis) \/ Reissue(u, p, vis) \/ RenewRequests(u, p, vis)
                 \/ Edit(u, p, vis)
        PROVE  FALSE
    BY <2>2, <2>4, StatusMoves
  <2>5. ASSUME NEW u \in Members,
               OwnerTakesOver(u, p) \/ RetractDraft(u, p) \/ RetractEntry(u, p)
        PROVE  FALSE
    BY <2>2, <2>5, StatusMoves
  <2>6. ASSUME NEW u \in Members, Submit(u, p) PROVE AgreedTo(e)
    <3>1. e = p
      BY <2>2, <2>6, StatusMoves
    <3> QED
      BY <2>6, <3>1, SubmitAgrees
  <2>7. ASSUME NEW u \in Members, NEW role \in {"participant", "owner", "owner_stale"},
               Approve(u, p, role) \/ Decline(u, p, role)
        PROVE  AgreedTo(e)
    <3>1. role \in Roles
      BY DEF Roles
    <3>2. Approve(u, p, role) /\ e = p /\ Pending(p) = {<<u, role>>}
      BY <2>2, <2>7, <3>1, StatusMoves
    <3> QED
      BY <3>2, ApprovalAgrees
  <2> QED
    BY <2>1, <2>3, <2>4, <2>5, <2>6, <2>7
<1>2. CASE ~EntryStep
  <2>1. UNCHANGED entry
    BY <1>2, MemoriesApart DEF Next, vars, SetConsent, Tick
  <2> QED
    BY <2>1
<1> QED
  BY <1>1, <1>2

(* Whatever the order of proposals, edits, requests, takeovers and answers,*)
(* an entry becomes canon only as everyone it needs agreed to it, each at  *)
(* the revision that became canon, while all of them consent; and no       *)
(* member's own shared words by their own word alone.                      *)
THEOREM CanonNeedsAgreement == Spec => CanonIsAgreed
<1> DEFINE Step == \A e \in Entries :
             entry'[e].status = "canon" /\ entry[e].status # "canon" => AgreedTo(e)
<1>1. Init => EInv
  BY InitEntries
<1>2. EInv /\ [Next]_vars => EInv'
  BY EntriesKept
<1>3. EInv /\ [Next]_vars => Step
  BY CanonStep
<1>4. Step => [\A e \in Entries :
       entry'[e].status = "canon" /\ entry[e].status # "canon" =>
         LET agreed == {k \in DOMAIN approval'[e] :
                          /\ approval'[e][k].state = "approved"
                          /\ approval'[e][k].rev = entry'[e].rev - 1}
         IN
         /\ {entry[e].by} \cup (IF Appearance(e) THEN {} ELSE {Author[e]}) \subseteq optIn
         /\ IF entry[e].vis = "shared"
            THEN \E k \in agreed : k[2] # "proposer" /\ k[1] \in {Author[e], Owner}
                   /\ (k[1] # entry[e].by \/ Appearance(e))
            ELSE /\ \A p \in Participants(e) : \E k \in agreed : k[1] = p
                 /\ Participants(e) \subseteq optIn]_vars
  BY DEF AgreedTo, Agreed
<1> HIDE DEF Step
<1> QED
  BY <1>1, <1>2, <1>3, <1>4, PTL DEF Spec, CanonIsAgreed

-----------------------------------------------------------------------------
(* Memories                                                                *)

States == {"active", "in_progress", "applied", "completed"}
Groups == UNION {[S -> States] : S \in SUBSET Buttons}
Drafts == [expires : Int, button : Groups]

MemoryRows == [status : {"none", "confirmed", "retracted", "expired"}, expires : Int]
Jobs == [state : {"none", "pending", "claimed", "completed", "cancelled", "dead"},
         due : Int, lease : Int, tried : Int]

(* The buttons of a draft whose memory has the status: one of them is      *)
(* being answered, and whoever finishes is left alone.                     *)
Group(b, status) ==
  /\ DOMAIN b \in {Buttons, {"confirm"}, {"cancel"}}
  /\ DOMAIN b = Buttons =>
       /\ b["confirm"] # "completed" /\ b["cancel"] # "completed"
       /\ ~(b["confirm"] \in {"in_progress", "applied"}
            /\ b["cancel"] \in {"in_progress", "applied"})
  /\ status # "none" =>
       "confirm" \in DOMAIN b /\ b["confirm"] \in {"applied", "completed"}

(* The row of a memory and that of its expiry job. *)
Expiry(m, M, J) ==
  /\ M.status = "none" => J.state = "none"
  /\ m \notin Lasting =>
       /\ M.status = "confirmed" =>
            \/ J.state \in {"pending", "claimed"}
            \/ J.state = "dead" /\ J.tried >= MaxAttempts
       /\ J.state = "completed" => M.status \in {"expired", "retracted"}
       /\ M.status = "expired" => J.state = "completed" /\ J.due = M.expires

MemoriesTyped ==
  /\ memory \in [Memories -> MemoryRows] /\ job \in [Memories -> Jobs]
  /\ DOMAIN draft \subseteq Memories /\ draft \in [DOMAIN draft -> Drafts]
  /\ IsFiniteSet(DOMAIN draft) /\ Cardinality(DOMAIN draft) <= Capacity

MInv ==
  /\ MemoriesTyped
  /\ \A m \in Memories : Expiry(m, memory[m], job[m])
  /\ \A m \in DOMAIN draft : Group(draft[m].button, memory[m].status)

LEMMA GroupFacts ==
  ASSUME NEW b
  PROVE  b \in Groups <=> b \in [DOMAIN b -> States] /\ DOMAIN b \subseteq Buttons
  BY DEF Groups

LEMMA InitMemories == Init => MInv
<1> SUFFICES ASSUME Init PROVE MInv
  OBVIOUS
<1>1. /\ memory \in [Memories -> MemoryRows] /\ job \in [Memories -> Jobs]
      /\ \A m \in Memories : memory[m].status = "none" /\ job[m].state = "none"
  BY DEF Init, MemoryRows, Jobs
<1>2. draft \in [DOMAIN draft -> Drafts] /\ DOMAIN draft = {}
  BY DEF Init, Nothing
<1>3. IsFiniteSet(DOMAIN draft) /\ Cardinality(DOMAIN draft) = 0 /\ Capacity \in Nat
  BY <1>2, FS_EmptySet, ChronicleAssumption DEF ChronicleAssumption
<1>4. MemoriesTyped
  <2>1. 0 <= Capacity
    BY <1>3
  <2> QED
    BY <1>1, <1>2, <1>3, <2>1 DEF MemoriesTyped
<1> QED
  BY <1>1, <1>2, <1>4 DEF MInv, Expiry

(* Drafts are dropped, and the buttons of one of them change. *)
LEMMA DraftStep ==
  ASSUME MInv, NEW m \in DOMAIN draft, NEW b \in Groups, Group(b, memory[m].status),
         NEW D \in SUBSET (DOMAIN draft), m \in D, NEW row \in Drafts, row.button = b,
         draft' = [x \in D |-> IF x = m THEN row ELSE draft[x]],
         UNCHANGED <<memory, job>>
  PROVE  MInv'
<1>1. DOMAIN draft' = D /\ draft'[m] = row /\ \A x \in D \ {m} : draft'[x] = draft[x]
  OBVIOUS
<1>2. draft' \in [D -> Drafts]
  BY <1>1 DEF MInv, MemoriesTyped
<1>3. IsFiniteSet(D) /\ Cardinality(D) <= Capacity
  <2>1. /\ IsFiniteSet(DOMAIN draft) /\ Cardinality(DOMAIN draft) <= Capacity
        /\ Capacity \in Nat
    BY ChronicleAssumption DEF ChronicleAssumption, MInv, MemoriesTyped
  <2>2. /\ IsFiniteSet(D) /\ Cardinality(D) <= Cardinality(DOMAIN draft)
        /\ Cardinality(D) \in Nat /\ Cardinality(DOMAIN draft) \in Nat
    BY <2>1, FS_Subset, FS_CardinalityType
  <2> QED
    BY <2>1, <2>2
<1>4. MemoriesTyped'
  BY <1>1, <1>2, <1>3 DEF MInv, MemoriesTyped
<1>5. \A x \in DOMAIN draft' : Group(draft'[x].button, memory'[x].status)
  BY <1>1 DEF MInv
<1> QED
  BY <1>4, <1>5 DEF MInv

(* Buttons change in place. *)
LEMMA ButtonStep ==
  ASSUME MInv, NEW m \in DOMAIN draft, NEW b \in Groups, Group(b, memory[m].status),
         NEW D \in SUBSET (DOMAIN draft), m \in D,
         draft' = [x \in D |-> IF x = m THEN [draft[m] EXCEPT !.button = b] ELSE draft[x]],
         UNCHANGED <<memory, job>>
  PROVE  MInv'
<1> DEFINE row == [draft[m] EXCEPT !.button = b]
<1>1. draft[m] \in Drafts
  BY DEF MInv, MemoriesTyped
<1>2. row \in Drafts /\ row.button = b
  BY <1>1 DEF Drafts
<1>3. draft' = [x \in D |-> IF x = m THEN row ELSE draft[x]]
  OBVIOUS
<1> HIDE DEF row
<1> QED
  BY <1>2, <1>3, DraftStep

(* One button of a group takes a state. *)
LEMMA SetButton ==
  ASSUME NEW b \in Groups, NEW k \in DOMAIN b, NEW state \in States
  PROVE  LET c == [b EXCEPT ![k] = state] IN
         /\ c \in Groups /\ DOMAIN c = DOMAIN b /\ c[k] = state
         /\ \A j \in DOMAIN b : j # k => c[j] = b[j]
<1> DEFINE c == [b EXCEPT ![k] = state]
<1>1. b \in [DOMAIN b -> States] /\ DOMAIN b \subseteq Buttons
  BY GroupFacts
<1>2. c \in [DOMAIN b -> States]
  BY <1>1
<1>3. DOMAIN c = DOMAIN b
  BY <1>2
<1>4. c \in Groups
  BY <1>1, <1>2, <1>3 DEF Groups
<1> QED
  BY <1>1, <1>3, <1>4

LEMMA PressKeeps ==
  ASSUME MInv, NEW m \in DOMAIN draft, NEW k \in Buttons, Press(m, k)
  PROVE  MInv'
<1> DEFINE b == draft[m].button
           c == [b EXCEPT ![k] = "in_progress"]
<1>1. draft[m] \in Drafts /\ Group(b, memory[m].status)
  BY DEF MInv, MemoriesTyped
<1>2. b \in Groups /\ k \in DOMAIN b /\ m \in Kept /\ Kept \in SUBSET (DOMAIN draft)
  BY <1>1 DEF Drafts, Press, Kept
<1>3. /\ draft' = [x \in Kept |-> IF x = m THEN [draft[m] EXCEPT !.button = c] ELSE draft[x]]
      /\ UNCHANGED <<memory, job>>
  BY <1>2 DEF Press, Within
<1>4. b[k] = "active" /\ \A j \in DOMAIN b : b[j] \notin {"in_progress", "applied"}
  BY DEF Press, Claimable, Busy
<1> HIDE DEF b
<1>5. /\ c \in Groups /\ DOMAIN c = DOMAIN b /\ c[k] = "in_progress"
      /\ \A j \in DOMAIN b : j # k => c[j] = b[j]
  BY <1>2, SetButton DEF States
<1>6. Group(c, memory[m].status)
  <2> HIDE DEF c
  <2> QED
    BY <1>1, <1>4, <1>5 DEF Group, Buttons
<1> HIDE DEF c
<1> QED
  BY <1>2, <1>3, <1>5, <1>6, ButtonStep

LEMMA PressFailsKeeps ==
  ASSUME MInv, NEW m \in DOMAIN draft, NEW k \in Buttons, PressFails(m, k)
  PROVE  MInv'
<1> DEFINE b == draft[m].button
           c == [b EXCEPT ![k] = "active"]
           D == DOMAIN draft
<1>1. draft[m] \in Drafts /\ Group(b, memory[m].status) /\ draft \in [D -> Drafts]
  BY DEF MInv, MemoriesTyped
<1>2. b \in Groups /\ k \in DOMAIN b /\ b[k] = "in_progress"
  BY <1>1 DEF Drafts, PressFails
<1>3. /\ draft' = [x \in D |-> IF x = m THEN [draft[m] EXCEPT !.button = c] ELSE draft[x]]
      /\ UNCHANGED <<memory, job>>
  BY <1>1 DEF PressFails
<1> HIDE DEF b
<1>5. /\ c \in Groups /\ DOMAIN c = DOMAIN b /\ c[k] = "active"
      /\ \A j \in DOMAIN b : j # k => c[j] = b[j]
  BY <1>2, SetButton DEF States
<1>6. Group(c, memory[m].status)
  <2> HIDE DEF c
  <2> QED
    BY <1>1, <1>2, <1>5 DEF Group, Buttons
<1>7. D \in SUBSET (DOMAIN draft) /\ m \in D
  OBVIOUS
<1> HIDE DEF c, D
<1> QED
  BY <1>3, <1>5, <1>6, <1>7, ButtonStep

LEMMA FinishKeeps ==
  ASSUME MInv, NEW m \in DOMAIN draft, NEW k \in Buttons, Finish(m, k)
  PROVE  MInv'
<1> DEFINE b == draft[m].button
           c == [x \in {k} |-> "completed"]
           D == DOMAIN draft
<1>1. draft[m] \in Drafts /\ Group(b, memory[m].status) /\ draft \in [D -> Drafts]
  BY DEF MInv, MemoriesTyped
<1>2. /\ b \in Groups /\ k \in DOMAIN b
      /\ b[k] = IF k = "confirm" THEN "applied" ELSE "in_progress"
  BY <1>1 DEF Drafts, Finish
<1>3. /\ draft' = [x \in D |-> IF x = m THEN [draft[m] EXCEPT !.button = c] ELSE draft[x]]
      /\ UNCHANGED <<memory, job>>
  BY <1>1 DEF Finish, Finished
<1> HIDE DEF b
<1>5. c \in Groups /\ DOMAIN c = {k} /\ c[k] = "completed"
  <2>1. c \in [{k} -> States] /\ {k} \in SUBSET Buttons
    BY DEF States
  <2> QED
    BY <2>1 DEF Groups
<1>6. Group(c, memory[m].status)
  <2> HIDE DEF c
  <2>1. Buttons # {k}
    BY DEF Buttons
  <2>2. k = "confirm" \/ k = "cancel"
    BY DEF Buttons
  <2>3. CASE k = "confirm"
    BY <1>5, <2>1, <2>3 DEF Group
  <2>4. CASE k = "cancel"
    <3>1. b["cancel"] = "in_progress"
      BY <1>2, <2>4
    <3>2. memory[m].status = "none"
      BY <1>1, <1>2, <2>4, <3>1 DEF Group, Buttons
    <3> QED
      BY <1>5, <2>1, <2>4, <3>2 DEF Group
  <2> QED
    BY <2>2, <2>3, <2>4
<1>7. D \in SUBSET (DOMAIN draft) /\ m \in D
  OBVIOUS
<1> HIDE DEF c, D
<1> QED
  BY <1>3, <1>5, <1>6, <1>7, ButtonStep

LEMMA ConfirmKeeps ==
  ASSUME MInv, clock \in Nat, NEW m \in Memories, Confirm(m)
  PROVE  MInv'
<1> DEFINE b == draft[m].button
           c == [b EXCEPT !["confirm"] = "applied"]
           row == [draft[m] EXCEPT !.button = c]
           D == DOMAIN draft
<1>0. m \in D
  BY DEF Confirm
<1>1. draft[m] \in Drafts /\ Group(b, memory[m].status) /\ draft \in [D -> Drafts]
  BY <1>0 DEF MInv, MemoriesTyped
<1>2. b \in Groups /\ "confirm" \in DOMAIN b /\ b["confirm"] = "in_progress"
  BY <1>1 DEF Drafts, Confirm
<1>3. draft' = [draft EXCEPT ![m] = row]
  BY DEF Confirm
<1>4. memory[m].status = "none" /\ job[m].state = "none"
  BY <1>1, <1>2 DEF Group, MInv, Expiry
<1>5. /\ c \in Groups /\ DOMAIN c = DOMAIN b /\ c["confirm"] = "applied"
      /\ \A j \in DOMAIN b : j # "confirm" => c[j] = b[j]
  <2> HIDE DEF b
  <2> QED
    BY <1>2, SetButton DEF States
<1>6. \A status : Group(c, status)
  <2> HIDE DEF c, b
  <2> QED
    BY <1>1, <1>2, <1>5 DEF Group, Buttons
<1>7. row \in Drafts /\ row.button = c
  <2> HIDE DEF c
  <2> QED
    BY <1>1, <1>5 DEF Drafts
<1> HIDE DEF c, b, row
<1>8. /\ draft' \in [D -> Drafts] /\ DOMAIN draft' = D
      /\ draft'[m] = row /\ \A x \in D \ {m} : draft'[x] = draft[x]
  BY <1>0, <1>1, <1>3, <1>7
<1>9. /\ memory' \in [Memories -> MemoryRows] /\ job' \in [Memories -> Jobs]
      /\ Expiry(m, memory'[m], job'[m])
      /\ \A x \in Memories \ {m} : memory'[x] = memory[x] /\ job'[x] = job[x]
  <2>1. memory \in [Memories -> MemoryRows] /\ job \in [Memories -> Jobs]
    BY DEF MInv, MemoriesTyped
  <2>2. CASE Keeper[m] \in optIn
    <3> DEFINE new == [status |-> "confirmed", expires |-> clock + MemoryLife]
               state == IF m \in Lasting THEN "none" ELSE "pending"
               j == [job[m] EXCEPT !.state = state, !.due = clock + MemoryLife]
    <3>1. memory' = [memory EXCEPT ![m] = new] /\ job' = [job EXCEPT ![m] = j]
      BY <1>4, <2>2 DEF Confirm
    <3>0. clock + MemoryLife \in Int
      BY ChronicleAssumption DEF ChronicleAssumption
    <3>2. new.status = "confirmed" /\ new \in MemoryRows
      BY <3>0 DEF MemoryRows
    <3>3. state \in {"none", "pending"} /\ (m \notin Lasting => state = "pending")
      OBVIOUS
    <3> HIDE DEF new, state
    <3>4. j \in Jobs /\ j.state = state
      BY <2>1, <3>0, <3>3 DEF Jobs
    <3> HIDE DEF j
    <3>5. Expiry(m, new, j)
      BY <3>2, <3>3, <3>4 DEF Expiry
    <3> QED
      BY <2>1, <3>1, <3>2, <3>4, <3>5
  <2>3. CASE Keeper[m] \notin optIn
    BY <2>1, <2>3 DEF Confirm, MInv
  <2> QED
    BY <2>2, <2>3
<1>10. MemoriesTyped'
  BY <1>8, <1>9 DEF MInv, MemoriesTyped
<1>11. \A x \in Memories : Expiry(x, memory'[x], job'[x])
  BY <1>9 DEF MInv
<1>12. \A x \in DOMAIN draft' : Group(draft'[x].button, memory'[x].status)
  <2>1. \A x \in D \ {m} : x \in Memories
    BY DEF MInv, MemoriesTyped
  <2> QED
    BY <1>6, <1>7, <1>8, <1>9, <2>1 DEF MInv
<1> QED
  BY <1>10, <1>11, <1>12 DEF MInv

(* The rows of one memory and of its job change; it was kept before. *)
LEMMA RowStep ==
  ASSUME MInv, NEW m \in Memories, NEW M \in MemoryRows, NEW J \in Jobs,
         memory[m].status # "none", M.status # "none", Expiry(m, M, J),
         memory' = [memory EXCEPT ![m] = M], job' = [job EXCEPT ![m] = J],
         UNCHANGED draft
  PROVE  MInv'
<1>1. memory \in [Memories -> MemoryRows] /\ job \in [Memories -> Jobs]
  BY DEF MInv, MemoriesTyped
<1>2. /\ memory' \in [Memories -> MemoryRows] /\ job' \in [Memories -> Jobs]
      /\ memory'[m] = M /\ job'[m] = J
      /\ \A x \in Memories \ {m} : memory'[x] = memory[x] /\ job'[x] = job[x]
  BY <1>1
<1>3. MemoriesTyped'
  BY <1>2 DEF MInv, MemoriesTyped
<1>4. \A x \in Memories : Expiry(x, memory'[x], job'[x])
  BY <1>2 DEF MInv
<1>5. ASSUME NEW x \in DOMAIN draft PROVE Group(draft[x].button, memory'[x].status)
  <2>1. x \in Memories /\ Group(draft[x].button, memory[x].status)
    BY DEF MInv, MemoriesTyped
  <2>2. memory'[x].status = "none" => memory[x].status = "none"
    BY <1>2, <2>1
  <2>3. memory'[x].status # "none" => memory[x].status # "none"
    BY <1>2, <2>1
  <2> QED
    BY <2>1, <2>2, <2>3 DEF Group
<1> QED
  BY <1>3, <1>4, <1>5 DEF MInv

LEMMA RowFacts ==
  ASSUME MInv, NEW m \in Memories
  PROVE  /\ memory[m] \in MemoryRows /\ job[m] \in Jobs
         /\ memory[m].status \in {"none", "confirmed", "retracted", "expired"}
         /\ Expiry(m, memory[m], job[m])
         /\ memory = [memory EXCEPT ![m] = memory[m]] /\ job = [job EXCEPT ![m] = job[m]]
  BY DEF MInv, MemoriesTyped, MemoryRows

LEMMA RetractMemoryKeeps ==
  ASSUME MInv, NEW m \in Memories, NEW u \in Members, RetractMemory(u, m)
  PROVE  MInv'
<1> DEFINE state == IF job[m].state = "pending" THEN "cancelled" ELSE job[m].state
           M == [memory[m] EXCEPT !.status = "retracted"]
           J == [job[m] EXCEPT !.state = state]
<1>1. memory[m] \in MemoryRows /\ job[m] \in Jobs
  BY RowFacts
<1>2. /\ memory[m].status = "confirmed"
      /\ memory' = [memory EXCEPT ![m] = M] /\ job' = [job EXCEPT ![m] = J]
      /\ UNCHANGED draft
  BY DEF RetractMemory
<1>3. state \in {"none", "claimed", "completed", "cancelled", "dead"}
  BY <1>1 DEF Jobs
<1> HIDE DEF state
<1>4. M \in MemoryRows /\ M.status = "retracted" /\ J \in Jobs /\ J.state = state
  BY <1>1, <1>3 DEF MemoryRows, Jobs
<1> HIDE DEF M, J
<1>5. Expiry(m, M, J)
  BY <1>3, <1>4 DEF Expiry
<1> QED
  BY <1>2, <1>4, <1>5, RowStep

LEMMA ClaimExpiryKeeps ==
  ASSUME MInv, NEW m \in Memories, ClaimExpiry(m)
  PROVE  MInv'
<1> DEFINE M == memory[m]
           lease == job[m].lease + 1
           tried == job[m].tried + 1
           C == [job[m] EXCEPT !.state = "claimed", !.lease = lease, !.tried = tried]
           D == [job[m] EXCEPT !.state = "dead"]
<1>1. /\ M \in MemoryRows /\ job[m] \in Jobs /\ Expiry(m, M, job[m])
      /\ memory = [memory EXCEPT ![m] = M]
  BY RowFacts
<1>2. lease \in Int /\ tried \in Int
  BY <1>1 DEF Jobs
<1>3. /\ job[m].state \in {"pending", "claimed"} /\ memory' = [memory EXCEPT ![m] = M]
      /\ UNCHANGED draft
      /\ \/ job' = [job EXCEPT ![m] = C]
         \/ job' = [job EXCEPT ![m] = D] /\ ~(job[m].tried < MaxAttempts)
  BY <1>1 DEF ClaimExpiry
<1>4. M.status # "none" /\ (m \notin Lasting => M.status # "expired")
  BY <1>1, <1>3 DEF Expiry
<1> HIDE DEF lease, tried
<1>5. /\ C \in Jobs /\ C.state = "claimed"
      /\ D \in Jobs /\ D.state = "dead" /\ D.tried = job[m].tried /\ D.tried \in Int
  BY <1>1, <1>2 DEF Jobs
<1> HIDE DEF C, D
<1>6. MaxAttempts \in Nat
  BY ChronicleAssumption DEF ChronicleAssumption
<1>7. CASE job' = [job EXCEPT ![m] = C]
  <2>1. Expiry(m, M, C)
    BY <1>4, <1>5 DEF Expiry
  <2> QED
    BY <1>1, <1>3, <1>4, <1>5, <1>7, <2>1, RowStep
<1>8. CASE job' = [job EXCEPT ![m] = D] /\ ~(job[m].tried < MaxAttempts)
  <2>1. D.tried >= MaxAttempts
    BY <1>5, <1>6, <1>8
  <2>2. Expiry(m, M, D)
    BY <1>4, <1>5, <2>1 DEF Expiry
  <2> QED
    BY <1>1, <1>3, <1>4, <1>5, <1>8, <2>2, RowStep
<1> QED
  BY <1>3, <1>7, <1>8

(* A job that failed waits again, or is dead for want of attempts. *)
LEMMA FailedIs ==
  ASSUME clock \in Nat, NEW j \in Jobs
  PROVE  /\ Failed(j) \in Jobs
         /\ \/ Failed(j).state = "pending"
            \/ Failed(j).state = "dead" /\ Failed(j).tried >= MaxAttempts
<1>1. /\ MaxAttempts \in Nat /\ clock + RetryDelay \in Int /\ j.tried \in Int
  BY ChronicleAssumption DEF ChronicleAssumption, Jobs
<1>2. CASE j.tried < MaxAttempts
  BY <1>1, <1>2 DEF Failed, Jobs
<1>3. CASE ~(j.tried < MaxAttempts)
  BY <1>1, <1>3 DEF Failed, Jobs
<1> QED
  BY <1>2, <1>3

(* The job of a memory that has not expired waits again or is dead. *)
LEMMA FailedStep ==
  ASSUME MInv, clock \in Nat, NEW m \in Memories, job[m].state = "claimed",
         job' = [job EXCEPT ![m] = Failed(@)], UNCHANGED <<draft, memory>>
  PROVE  MInv'
<1> DEFINE M == memory[m]
           J == Failed(job[m])
<1>1. /\ M \in MemoryRows /\ job[m] \in Jobs /\ Expiry(m, M, job[m])
      /\ memory = [memory EXCEPT ![m] = M]
  BY RowFacts
<1>2. J \in Jobs /\ (J.state = "pending" \/ (J.state = "dead" /\ J.tried >= MaxAttempts))
  BY <1>1, FailedIs
<1>3. M.status # "none" /\ (m \notin Lasting => M.status # "expired")
  BY <1>1 DEF Expiry
<1>4. memory' = [memory EXCEPT ![m] = M] /\ job' = [job EXCEPT ![m] = J]
  BY <1>1
<1> HIDE DEF J, M
<1>5. Expiry(m, M, J)
  BY <1>2, <1>3 DEF Expiry
<1> QED
  BY <1>1, <1>2, <1>3, <1>4, <1>5, RowStep DEF M

LEMMA ExpiryReleasedKeeps ==
  ASSUME MInv, NEW m \in Memories, NEW lease, ExpiryReleased(m, lease)
  PROVE  MInv'
<1> DEFINE M == memory[m]
           tried == job[m].tried - 1
           J == [job[m] EXCEPT !.state = "pending", !.tried = tried]
<1>1. /\ M \in MemoryRows /\ job[m] \in Jobs /\ Expiry(m, M, job[m])
      /\ memory = [memory EXCEPT ![m] = M]
  BY RowFacts
<1>2. tried \in Int
  BY <1>1 DEF Jobs
<1>3. /\ job[m].state = "claimed" /\ memory' = [memory EXCEPT ![m] = M]
      /\ job' = [job EXCEPT ![m] = J] /\ UNCHANGED draft
  BY <1>1 DEF ExpiryReleased, Current
<1>4. M.status # "none" /\ (m \notin Lasting => M.status # "expired")
  BY <1>1, <1>3 DEF Expiry
<1> HIDE DEF tried
<1>5. J \in Jobs /\ J.state = "pending"
  BY <1>1, <1>2 DEF Jobs
<1> HIDE DEF J
<1>6. Expiry(m, M, J)
  BY <1>4, <1>5 DEF Expiry
<1> QED
  BY <1>1, <1>3, <1>4, <1>5, <1>6, RowStep

LEMMA ExpireMemoryKeeps ==
  ASSUME MInv, clock \in Nat, NEW m \in Memories, NEW lease,
         ExpireMemory(m, lease) \/ ExpiryFails(m, lease)
  PROVE  MInv'
<1>1. /\ memory[m] \in MemoryRows /\ job[m] \in Jobs
      /\ memory[m].status \in {"none", "confirmed", "retracted", "expired"}
      /\ Expiry(m, memory[m], job[m])
  BY RowFacts
<1> DEFINE refused == memory[m].status = "confirmed" /\ job[m].due # memory[m].expires
<1>2. CASE ExpireMemory(m, lease) /\ Current(m, lease) /\ ~refused
  <2> DEFINE status == IF memory[m].status = "confirmed" THEN "expired" ELSE memory[m].status
             M == [memory[m] EXCEPT !.status = status]
             J == [job[m] EXCEPT !.state = "completed"]
  <2>1. /\ memory' = [memory EXCEPT ![m] = M] /\ job' = [job EXCEPT ![m] = J]
        /\ UNCHANGED draft
    BY <1>2 DEF ExpireMemory
  <2>3. memory[m].status # "none"
    BY <1>1, <1>2 DEF Expiry, Current
  <2>4. status \in {"expired", "retracted"} \/ m \in Lasting
    BY <1>1, <2>3
  <2>5. status = "expired" /\ m \notin Lasting => job[m].due = memory[m].expires
    BY <1>1, <1>2 DEF Expiry, Current
  <2>6. status \in {"confirmed", "retracted", "expired"}
    BY <1>1, <2>3
  <2> HIDE DEF status
  <2>7. /\ M \in MemoryRows /\ M.status = status /\ M.expires = memory[m].expires
        /\ J \in Jobs /\ J.state = "completed" /\ J.due = job[m].due
    BY <1>1, <2>6 DEF MemoryRows, Jobs
  <2> HIDE DEF M, J
  <2>8. Expiry(m, M, J) /\ M.status # "none"
    BY <2>4, <2>5, <2>6, <2>7 DEF Expiry
  <2> QED
    BY <2>1, <2>3, <2>7, <2>8, RowStep
<1>3. CASE ExpireMemory(m, lease) /\ Current(m, lease) /\ refused
  BY <1>3, FailedStep DEF ExpireMemory, Current
<1>4. CASE ExpireMemory(m, lease) /\ ~Current(m, lease)
  BY <1>4 DEF ExpireMemory, MInv, MemoriesTyped
<1>5. CASE ExpiryFails(m, lease)
  BY <1>5, FailedStep DEF ExpiryFails, Current
<1> QED
  BY <1>2, <1>3, <1>4, <1>5

LEMMA DropStep ==
  ASSUME MInv, NEW D \in SUBSET (DOMAIN draft), draft' = [x \in D |-> draft[x]],
         UNCHANGED <<memory, job>>
  PROVE  MInv'
<1>1. /\ DOMAIN draft' = D /\ \A x \in D : draft'[x] = draft[x]
  OBVIOUS
<1>2. draft' \in [D -> Drafts]
  BY <1>1 DEF MInv, MemoriesTyped
<1>3. IsFiniteSet(D) /\ Cardinality(D) <= Capacity
  <2>1. /\ IsFiniteSet(DOMAIN draft) /\ Cardinality(DOMAIN draft) <= Capacity
        /\ Capacity \in Nat
    BY ChronicleAssumption DEF ChronicleAssumption, MInv, MemoriesTyped
  <2>2. /\ IsFiniteSet(D) /\ Cardinality(D) <= Cardinality(DOMAIN draft)
        /\ Cardinality(D) \in Nat /\ Cardinality(DOMAIN draft) \in Nat
    BY <2>1, FS_Subset, FS_CardinalityType
  <2> QED
    BY <2>1, <2>2
<1>4. MemoriesTyped'
  BY <1>1, <1>2, <1>3 DEF MInv, MemoriesTyped
<1>5. \A x \in DOMAIN draft' : Group(draft'[x].button, memory'[x].status)
  BY <1>1 DEF MInv
<1> QED
  BY <1>4, <1>5 DEF MInv

LEMMA PreviewKeeps ==
  ASSUME MInv, clock \in Nat, NEW m \in Memories, Preview(m)
  PROVE  MInv'
<1> DEFINE b == [k \in Buttons |-> "active"]
           row == [expires |-> clock + PreviewLife, button |-> b]
           D == DOMAIN draft
<1>1. PICK gone \in SUBSET {x \in D : ~Busy(x)} :
        /\ Cardinality(D \ gone) < Capacity
        /\ draft' = With(Within(draft, D \ gone), m, row)
  BY DEF Preview
<1>2. m \notin D /\ memory[m].status = "none" /\ UNCHANGED <<memory, job>>
  BY DEF Preview
<1>3. b \in Groups /\ \A status : status = "none" => Group(b, status)
  <2>1. b \in [Buttons -> States]
    BY DEF States
  <2>2. b \in Groups
    BY <2>1 DEF Groups
  <2> QED
    BY <2>2 DEF Group, Buttons
<1>4. row \in Drafts /\ row.button = b
  <2>1. clock + PreviewLife \in Int
    BY ChronicleAssumption DEF ChronicleAssumption
  <2> HIDE DEF b
  <2> QED
    BY <1>3, <2>1 DEF Drafts
<1> HIDE DEF b, row
<1> DEFINE R == D \ gone
<1>5. /\ DOMAIN draft' = R \cup {m} /\ draft'[m] = row /\ \A x \in R : draft'[x] = draft[x]
      /\ draft' = [x \in R \cup {m} |-> draft'[x]]
  BY <1>1, <1>2 DEF With, Within
<1>6. IsFiniteSet(R \cup {m}) /\ Cardinality(R \cup {m}) <= Capacity
  <2>1. IsFiniteSet(D) /\ Capacity \in Nat
    BY ChronicleAssumption DEF ChronicleAssumption, MInv, MemoriesTyped
  <2>2. IsFiniteSet(R) /\ m \notin R
    BY <1>2, <2>1, FS_Subset
  <2>3. Cardinality(R) \in Nat /\ Cardinality(R) < Capacity
    BY <1>1, <2>2, FS_CardinalityType
  <2> HIDE DEF R
  <2>4. IsFiniteSet(R \cup {m}) /\ Cardinality(R \cup {m}) = Cardinality(R) + 1
    BY <2>2, FS_AddElement
  <2> QED
    BY <2>1, <2>3, <2>4
<1>7. \A x \in R : x \in Memories /\ draft[x] \in Drafts
                   /\ Group(draft[x].button, memory[x].status)
  BY DEF MInv, MemoriesTyped
<1> HIDE DEF R
<1>8. draft' \in [R \cup {m} -> Drafts]
  BY <1>4, <1>5, <1>7
<1>9. MemoriesTyped'
  BY <1>2, <1>5, <1>6, <1>7, <1>8 DEF MInv, MemoriesTyped
<1>10. \A x \in DOMAIN draft' : Group(draft'[x].button, memory'[x].status)
  BY <1>2, <1>3, <1>4, <1>5, <1>7
<1> QED
  BY <1>2, <1>9, <1>10 DEF MInv

LEMMA MemoriesKept == clock \in Nat /\ MInv /\ [Next]_vars => MInv'
<1> SUFFICES ASSUME clock \in Nat, MInv, [Next]_vars PROVE MInv'
  OBVIOUS
<1>2. ASSUME UNCHANGED <<draft, memory, job>> PROVE MInv'
  BY <1>2 DEF MInv, MemoriesTyped
<1>3. CASE EntryStep
  <2> DEFINE Same == UNCHANGED <<draft, memory, job>>
  <2>1. \A e, u, vis : Propose(u, e, vis) \/ Reissue(u, e, vis) => Same
    BY DEF Propose, Reissue
  <2>2. \A e, u, vis : RenewRequests(u, e, vis) \/ Edit(u, e, vis) => Same
    BY DEF RenewRequests, Edit
  <2>3. \A e, u : OwnerTakesOver(u, e) \/ Submit(u, e) => Same
    <3>1. \A e, u : OwnerTakesOver(u, e) => Same
      BY DEF OwnerTakesOver
    <3>2. \A e, u : Submit(u, e) => Same
      BY Zenon DEF Submit
    <3> QED
      BY <3>1, <3>2
  <2>4. \A e, u : RetractDraft(u, e) \/ RetractEntry(u, e) => Same
    BY DEF RetractDraft, RetractEntry
  <2>5. \A e, u, role : Approve(u, e, role) \/ Decline(u, e, role) => Same
    BY DEF Approve, Decline
  <2>6. \A e, k : OpenNotice(e, k) \/ Announce(e, k) => Same
    BY DEF OpenNotice, Announce
  <2> HIDE DEF Same
  <2>7. Same
    BY <1>3, <2>1, <2>2, <2>3, <2>4, <2>5, <2>6 DEF EntryStep
  <2> QED
    BY <1>2, <2>7 DEF Same
<1>4. CASE MemoryStep
  <2>1. ASSUME NEW m \in Memories, Preview(m) \/ Confirm(m) \/ ClaimExpiry(m)
        PROVE  MInv'
    BY <2>1, PreviewKeeps, ConfirmKeeps, ClaimExpiryKeeps
  <2>2. ASSUME NEW m \in Memories, NEW u \in Members, RetractMemory(u, m) PROVE MInv'
    BY <2>2, RetractMemoryKeeps
  <2>3. ASSUME NEW m \in Memories, NEW lease,
               ExpireMemory(m, lease) \/ ExpiryFails(m, lease) \/ ExpiryReleased(m, lease)
        PROVE  MInv'
    BY <2>3, ExpireMemoryKeeps, ExpiryReleasedKeeps
  <2>4. ASSUME NEW m \in DOMAIN draft, NEW k \in Buttons,
               Press(m, k) \/ PressFails(m, k) \/ Finish(m, k)
        PROVE  MInv'
    BY <2>4, PressKeeps, PressFailsKeeps, FinishKeeps
  <2>5. CASE \E m \in Memories :
               \/ Preview(m) \/ Confirm(m) \/ ClaimExpiry(m)
               \/ \E u \in Members : RetractMemory(u, m)
               \/ \E lease :
                        ExpireMemory(m, lease) \/ ExpiryFails(m, lease) \/ ExpiryReleased(m, lease)
    BY <2>1, <2>2, <2>3, <2>5
  <2>6. CASE \E m \in DOMAIN draft : \E k \in Buttons :
               Press(m, k) \/ PressFails(m, k) \/ Finish(m, k)
    BY <2>4, <2>6
  <2> QED
    BY <1>4, <2>5, <2>6 DEF MemoryStep
<1>5. CASE \E u \in Members : SetConsent(u)
  BY <1>2, <1>5 DEF SetConsent
<1>6. CASE Tick
  <2> DEFINE D == {m \in DOMAIN draft : draft[m].expires > clock + 1 \/ Busy(m)}
  <2>1. D \in SUBSET (DOMAIN draft) /\ draft' = [x \in D |-> draft[x]]
    BY <1>6 DEF Tick, Within
  <2>2. UNCHANGED <<memory, job>>
    BY <1>6 DEF Tick
  <2> HIDE DEF D
  <2> QED
    BY <2>1, <2>2, DropStep
<1>7. CASE UNCHANGED vars
  BY <1>2, <1>7 DEF vars
<1> QED
  BY <1>3, <1>4, <1>5, <1>6, <1>7 DEF Next

(* A job is only claimed, and a memory only expires, once the job is due. *)
DueFirst(m) == job[m].state = "claimed" \/ (m \notin Lasting /\ memory[m].status = "expired")
                 => job[m].due <= clock
DInv == \A m \in Memories : DueFirst(m)

LEMMA ClockSteps ==
  ASSUME clock \in Nat, [Next]_vars
  PROVE  /\ clock' \in Nat /\ clock' >= clock
         /\ \/ UNCHANGED <<memory, job>>
            \/ \E m \in Memories :
                 /\ clock' = clock
                 /\ \/ Confirm(m) \/ ClaimExpiry(m)
                    \/ \E u \in Members : RetractMemory(u, m)
                    \/ \E lease :
                             ExpireMemory(m, lease) \/ ExpiryFails(m, lease) \/ ExpiryReleased(m, lease)
<1> DEFINE Same == UNCHANGED <<clock, memory, job>>
<1>1. CASE EntryStep
  <2>1. \A e, u, vis : Propose(u, e, vis) \/ Reissue(u, e, vis) => Same
    BY DEF Propose, Reissue
  <2>2. \A e, u, vis : RenewRequests(u, e, vis) \/ Edit(u, e, vis) => Same
    BY DEF RenewRequests, Edit
  <2>3. \A e, u : OwnerTakesOver(u, e) \/ Submit(u, e) => Same
    <3>1. \A e, u : OwnerTakesOver(u, e) => Same
      BY DEF OwnerTakesOver
    <3>2. \A e, u : Submit(u, e) => Same
      BY Zenon DEF Submit
    <3> QED
      BY <3>1, <3>2
  <2>4. \A e, u : RetractDraft(u, e) \/ RetractEntry(u, e) => Same
    BY DEF RetractDraft, RetractEntry
  <2>5. \A e, u, role : Approve(u, e, role) \/ Decline(u, e, role) => Same
    BY DEF Approve, Decline
  <2>6. \A e, k : OpenNotice(e, k) \/ Announce(e, k) => Same
    BY DEF OpenNotice, Announce
  <2> HIDE DEF Same
  <2>7. Same
    BY <1>1, <2>1, <2>2, <2>3, <2>4, <2>5, <2>6 DEF EntryStep
  <2> QED
    BY <2>7 DEF Same
<1>2. CASE MemoryStep
  <2>1. \A m, b : Press(m, b) \/ PressFails(m, b) \/ Finish(m, b) => Same
    BY DEF Press, PressFails, Finish
  <2>2. \A m : Preview(m) => Same
    BY DEF Preview
  <2>3. \A m : Confirm(m) \/ ClaimExpiry(m) => clock' = clock
    BY DEF Confirm, ClaimExpiry
  <2>4. \A m, u, lease :
          RetractMemory(u, m) \/ ExpireMemory(m, lease) \/ ExpiryFails(m, lease)
            \/ ExpiryReleased(m, lease) => clock' = clock
    BY DEF RetractMemory, ExpireMemory, ExpiryFails, ExpiryReleased
  <2>5. CASE \E m \in DOMAIN draft : \E b \in Buttons :
               Press(m, b) \/ PressFails(m, b) \/ Finish(m, b)
    BY <2>1, <2>5
  <2>6. CASE \E m \in Memories :
               \/ Preview(m) \/ Confirm(m) \/ ClaimExpiry(m)
               \/ \E u \in Members : RetractMemory(u, m)
               \/ \E lease :
                        ExpireMemory(m, lease) \/ ExpiryFails(m, lease) \/ ExpiryReleased(m, lease)
    <3>1. PICK m \in Memories :
               \/ Preview(m) \/ Confirm(m) \/ ClaimExpiry(m)
               \/ \E u \in Members : RetractMemory(u, m)
               \/ \E lease :
                        ExpireMemory(m, lease) \/ ExpiryFails(m, lease) \/ ExpiryReleased(m, lease)
      BY <2>6
    <3>2. CASE Preview(m)
      BY <2>2, <3>2
    <3>3. CASE ~Preview(m)
      <4>1. clock' = clock
        BY <2>3, <2>4, <3>1, <3>3
      <4> QED
        BY <3>1, <3>3, <4>1
    <3> QED
      BY <3>2, <3>3
  <2> QED
    BY <1>2, <2>5, <2>6 DEF MemoryStep
<1>3. CASE \E u \in Members : SetConsent(u)
  BY <1>3 DEF SetConsent
<1>4. CASE Tick
  BY <1>4 DEF Tick
<1>5. CASE UNCHANGED vars
  BY <1>5 DEF vars
<1> QED
  BY <1>1, <1>2, <1>3, <1>4, <1>5 DEF Next

LEMMA DueKept == clock \in Nat /\ MInv /\ DInv /\ [Next]_vars => DInv'
<1> SUFFICES ASSUME clock \in Nat, MInv, DInv, [Next]_vars PROVE DInv'
  OBVIOUS
<1>0. /\ clock' \in Nat /\ clock' >= clock
      /\ \A m \in Memories : job[m] \in Jobs /\ job[m].due \in Int /\ memory[m] \in MemoryRows
  BY ClockSteps DEF MInv, MemoriesTyped, Jobs
<1>1. CASE UNCHANGED <<memory, job>>
  BY <1>0, <1>1 DEF DInv, DueFirst
<1>2. ASSUME NEW m \in Memories, clock' = clock,
             \/ Confirm(m) \/ ClaimExpiry(m)
             \/ \E u \in Members : RetractMemory(u, m)
             \/ \E lease :
                      ExpireMemory(m, lease) \/ ExpiryFails(m, lease) \/ ExpiryReleased(m, lease)
      PROVE  DInv'
  <2>1. /\ memory \in [Memories -> MemoryRows] /\ job \in [Memories -> Jobs]
        /\ job[m] \in Jobs /\ memory[m] \in MemoryRows /\ DueFirst(m)
        /\ Expiry(m, memory[m], job[m])
    BY DEF MInv, MemoriesTyped, DInv
  <2>2. \A x \in Memories \ {m} : job'[x] = job[x] /\ memory'[x] = memory[x]
    BY <1>2, <2>1 DEF Confirm, ClaimExpiry, RetractMemory, ExpireMemory, ExpiryFails,
                      ExpiryReleased
  <2>3. ASSUME Confirm(m) PROVE DueFirst(m)'
    <3>1. CASE UNCHANGED <<memory, job>>
      BY <1>2, <2>1, <3>1 DEF DueFirst
    <3>2. CASE Keeper[m] \in optIn /\ memory[m].status = "none"
      <4>1. memory' = [memory EXCEPT ![m] =
              [status |-> "confirmed", expires |-> clock + MemoryLife]]
        BY <2>3, <3>2 DEF Confirm
      <4>2. job'[m].state \in {"none", "pending"}
        BY <2>1, <2>3, <3>2 DEF Confirm, Jobs
      <4> QED
        BY <2>1, <4>1, <4>2 DEF DueFirst
    <3> QED
      BY <2>3, <3>1, <3>2 DEF Confirm
  <2>4. ASSUME ClaimExpiry(m) PROVE DueFirst(m)'
    <3>1. job[m].due <= clock /\ UNCHANGED memory
      BY <2>1, <2>4 DEF DueFirst, ClaimExpiry
    <3>2. job'[m].due = job[m].due
      <4> DEFINE lease == job[m].lease + 1
                 tried == job[m].tried + 1
      <4>1. \/ job' = [job EXCEPT ![m] = [@ EXCEPT !.state = "claimed", !.lease = lease,
                                                  !.tried = tried]]
            \/ job' = [job EXCEPT ![m].state = "dead"]
        BY <2>4 DEF ClaimExpiry
      <4> HIDE DEF lease, tried
      <4>2. job[m] = [state |-> job[m].state, due |-> job[m].due, lease |-> job[m].lease,
                      tried |-> job[m].tried]
        BY <2>1 DEF Jobs
      <4> QED
        BY <2>1, <4>1, <4>2
    <3> QED
      BY <1>2, <3>1, <3>2 DEF DueFirst
  <2>5. ASSUME NEW u \in Members, RetractMemory(u, m) PROVE DueFirst(m)'
    <3>1. job'[m].due = job[m].due /\ memory'[m].status = "retracted"
          /\ (job'[m].state = "claimed" => job[m].state = "claimed")
      BY <2>1, <2>5 DEF RetractMemory, Jobs, MemoryRows
    <3> QED
      BY <1>2, <2>1, <3>1 DEF DueFirst
  <2>6. ASSUME NEW j \in Jobs, j.state # "claimed", job[m].state = "claimed",
               job'[m] = j, memory'[m] = memory[m]
        PROVE  DueFirst(m)'
    BY <2>1, <2>6 DEF DueFirst, Expiry
  <2>7. ASSUME job[m].state = "claimed", job' = [job EXCEPT ![m] = Failed(@)],
               UNCHANGED memory
        PROVE  DueFirst(m)'
    <3>1. /\ Failed(job[m]) \in Jobs /\ Failed(job[m]).state # "claimed"
          /\ job'[m] = Failed(job[m])
      BY <2>1, <2>7, FailedIs
    <3> QED
      BY <2>6, <2>7, <3>1
  <2>8. ASSUME NEW lease, ExpiryReleased(m, lease) PROVE DueFirst(m)'
    <3>1. job[m].state = "claimed" /\ UNCHANGED memory
      BY <2>8 DEF ExpiryReleased, Current
    <3>2. /\ job'[m] = [job[m] EXCEPT !.state = "pending", !.tried = job[m].tried - 1]
          /\ job[m].tried - 1 \in Int
      BY <2>1, <2>8 DEF ExpiryReleased, Jobs
    <3>3. job'[m] \in Jobs /\ job'[m].state = "pending"
      BY <2>1, <3>2 DEF Jobs
    <3> QED
      BY <2>6, <3>1, <3>3
  <2>9. ASSUME NEW lease, ExpiryFails(m, lease) PROVE DueFirst(m)'
    BY <2>7, <2>9 DEF ExpiryFails, Current
  <2>10. ASSUME NEW lease, ExpireMemory(m, lease) PROVE DueFirst(m)'
    <3>1. CASE UNCHANGED <<job, memory>>
      BY <1>2, <2>1, <3>1 DEF DueFirst
    <3>2. CASE /\ Current(m, lease) /\ job' = [job EXCEPT ![m].state = "completed"]
               /\ memory' = [memory EXCEPT ![m].status = IF @ = "confirmed" THEN "expired" ELSE @]
      <4>1. job'[m].state = "completed" /\ job'[m].due = job[m].due /\ job[m].due <= clock
        BY <2>1, <3>2 DEF DueFirst, Current, Jobs
      <4> QED
        BY <1>2, <4>1 DEF DueFirst
    <3>3. CASE /\ Current(m, lease) /\ job' = [job EXCEPT ![m] = Failed(@)] /\ UNCHANGED memory
      BY <2>7, <3>3 DEF Current
    <3> QED
      BY <2>10, <3>1, <3>2, <3>3 DEF ExpireMemory
  <2>11. DueFirst(m)'
    BY <1>2, <2>3, <2>4, <2>5, <2>8, <2>9, <2>10
  <2> QED
    BY <1>0, <1>2, <2>2, <2>11 DEF DInv, DueFirst
<1> QED
  BY <1>1, <1>2, ClockSteps

LEMMA MemoriesEndThen == MInv /\ DInv => MemoriesEnd
<1> SUFFICES ASSUME MInv, DInv PROVE MemoriesEnd
  OBVIOUS
<1>1. ASSUME NEW m \in DOMAIN draft, memory[m].status # "none",
             "cancel" \in DOMAIN draft[m].button
      PROVE  draft[m].button["cancel"] # "completed"
  <2>1. Group(draft[m].button, memory[m].status)
    BY DEF MInv
  <2> QED
    BY <1>1, <2>1 DEF Group, Buttons
<1>2. ASSUME NEW m \in Memories \ Lasting
      PROVE  /\ memory[m].status = "confirmed" =>
                  \/ job[m].state \in {"pending", "claimed"}
                  \/ job[m].state = "dead" /\ job[m].tried >= MaxAttempts
             /\ job[m].state = "completed" => memory[m].status \in {"expired", "retracted"}
             /\ memory[m].status = "expired" =>
                  memory[m].expires <= clock /\ job[m].due = memory[m].expires
  <2>1. Expiry(m, memory[m], job[m]) /\ DueFirst(m)
    BY DEF MInv, DInv
  <2> QED
    BY <2>1 DEF Expiry, DueFirst
<1> QED
  BY <1>1, <1>2 DEF MemoriesEnd

LEMMA TypesThen == EInv /\ MInv => TypeOK
<1> SUFFICES ASSUME EInv, MInv PROVE TypeOK
  OBVIOUS
<1>1. ASSUME NEW e \in Entries
      PROVE  /\ entry[e].status \in {"none", "proposed", "canon", "retracted"}
             /\ entry[e].status = "none" <=> entry[e].by = NoMember
             /\ entry[e].submitted <=> DOMAIN approval[e] # {}
  <2>1. entry[e] \in EntryRows /\ Sound(e, entry[e], approval[e], said[e])
    BY OfEntry
  <2> QED
    BY <2>1, EntryFields DEF Sound
<1>2. ASSUME NEW t \in token PROVE t.by \in Members /\ t.rev >= 1
  <2>1. t \in Controls
    BY DEF EInv, EntriesTyped
  <2>2. t.by \in Members /\ t.rev \in Nat \ {0}
    BY <2>1 DEF Controls
  <2> QED
    BY <2>2
<1>3. DOMAIN draft \subseteq Memories /\ Cardinality(DOMAIN draft) <= Capacity
  BY DEF MInv, MemoriesTyped
<1> QED
  BY <1>1, <1>2, <1>3 DEF TypeOK

(* However the buttons of a draft are pressed, fail and are finished, and  *)
(* whatever retractions, claims, lapsed leases, failed attempts and        *)
(* releases of its job do: a memory is never both stored and cancelled;    *)
(* one that ends keeps its job until it has ended or the job had every     *)
(* attempt it may have; and it expires neither early nor by a job that     *)
(* failed. Rows and controls keep their types, and the process never holds *)
(* more drafts than it has room for.                                       *)
THEOREM MemoriesEndOnce == Spec => [](MemoriesEnd /\ TypeOK)
<1>1. Init => EInv /\ MInv /\ DInv
  <2>1. Init => DInv
    BY DEF Init, DInv, DueFirst
  <2> QED
    BY <2>1, InitEntries, InitMemories
<1>2. EInv /\ MInv /\ DInv /\ [Next]_vars => EInv' /\ MInv' /\ DInv'
  <2>1. EInv => clock \in Nat
    BY DEF EInv, EntriesTyped
  <2> QED
    BY <2>1, EntriesKept, MemoriesKept, DueKept
<1>3. EInv /\ MInv /\ DInv => MemoriesEnd /\ TypeOK
  BY MemoriesEndThen, TypesThen
<1> QED
  BY <1>1, <1>2, <1>3, PTL DEF Spec

-----------------------------------------------------------------------------
(* Sessions: what the rows of a session say of each other                  *)

SessionRow == [state : {"none", "open", "closing", "closed", "abandoned"},
               by : Members, closing : Nat]
DraftRow   == [state : {"none", "pending", "approved", "rejected"}, rev : Nat,
               source : {"none", "fallback", "model", "manual"}]
ReviewRow  == [rev : Nat, until : Int, notice : {"none", "queued", "shown"}]
JobRow     == [state : {"none", "pending", "claimed", "completed"}, lease : Nat]
PurgeRow   == [state : {"none", "pending", "claimed", "cancelled", "completed", "dead"},
               due : Int, lease : Nat, tried : Nat, lost : BOOLEAN]
GrantRow   == [state : {"proposed", "active", "rejected", "revoked"},
               featured : BOOLEAN, rev : Nat, who : Members]

SessionRows ==
  /\ time \in Nat /\ consents \subseteq Members
  /\ session \in [CS!SessionIds -> SessionRow] /\ chapter \in [CS!SessionIds -> DraftRow]
  /\ review \in [CS!SessionIds -> ReviewRow] /\ summary \in [CS!SessionIds -> JobRow]
  /\ purge \in [CS!SessionIds -> PurgeRow]
  /\ linked \in [CS!SessionIds -> SUBSET DOMAIN record]
  /\ joined \in [CS!SessionIds -> SUBSET Members]
  /\ \A t \in task : t.s \in CS!SessionIds /\ t.read.people \subseteq Members

(* A session has its draft, its job and its review as far as it has come.  *)
Stages ==
  \A s \in CS!SessionIds :
    /\ session[s].state \in {"none", "open", "abandoned"} =>
         chapter[s].state = "none" /\ review[s].rev = 0 /\ summary[s].state = "none"
    /\ session[s].state = "closing" =>
         /\ chapter[s].state = "pending" /\ chapter[s].rev >= 1 /\ review[s].rev = 0
         /\ summary[s].state \in {"pending", "claimed"}
    /\ session[s].state = "closed" =>
         /\ chapter[s].state # "none" /\ chapter[s].rev >= 1 /\ summary[s].state = "completed"
         /\ review[s].rev = IF chapter[s].state = "pending" THEN chapter[s].rev ELSE 0

OneSession == \A r, s \in CS!Active : r = s

(* What a title may be, and what there is of entries beside the members'.  *)
Grants == CS!Names \X Members
GrantsTyped ==
  /\ DOMAIN grant \subseteq Grants
  /\ \A g \in DOMAIN grant : grant[g] \in GrantRow
  /\ \A e \in DOMAIN record : \/ e \in Entries
                              \/ \E s \in CS!SessionIds : e = CS!Chapter(s)
                              \/ \E g \in DOMAIN grant : e = CS!Award(g)

(* A purge after a failed attempt, due at its next one.                    *)
Late(s) ==
  /\ purge[s].due <= time + RetryDelay
  /\ purge[s].tried >= IF purge[s].state = "claimed" THEN 2 ELSE 1

(* What is left of a context has a purge in time, or one that used up its  *)
(* attempts.                                                               *)
PurgedAt(s) ==
  /\ DOMAIN context[s] \subseteq Lines /\ Cardinality(DOMAIN context[s]) <= MaxContext
  /\ \A l \in DOMAIN context[s] : context[s][l] \in Nat /\ context[s][l] <= time
  /\ session[s].state \in {"none", "abandoned"} => DOMAIN context[s] = {}
  /\ session[s].state = "none" => ~CS!HasPurge(s)
  /\ purge[s].state = "claimed" => purge[s].tried >= 1
  /\ DOMAIN context[s] # {} =>
       CS!HasPurge(s) \/ (purge[s].state = "dead" /\ purge[s].tried >= MaxAttempts)
  /\ session[s].state = "open" /\ CS!HasPurge(s) /\ ~Late(s) =>
       /\ purge[s].due <= time + Retention
       /\ purge[s].lost \/ \A l \in DOMAIN context[s] : purge[s].due <= context[s][l] + Retention
  /\ session[s].state \in {"closing", "closed"} /\ CS!HasPurge(s) /\ ~Late(s) =>
       purge[s].due <= session[s].closing + Retention
Purged ==
  /\ context \in [CS!SessionIds -> UNION {[Part -> Nat] : Part \in SUBSET Lines}]
  /\ \A s \in CS!SessionIds : PurgedAt(s)

SInv == SessionRows /\ Stages /\ OneSession /\ GrantsTyped /\ CS!TitlesAreSettled /\ Purged

LEMMA SameSets ==
  ASSUME NEW T
  PROVE  (CS!IsFiniteSet(T) <=> IsFiniteSet(T)) /\ CS!Cardinality(T) = Cardinality(T)
<1>1. CS!IsFiniteSet(T) <=> IsFiniteSet(T)
  BY DEF CS!IsFiniteSet, IsFiniteSet
<1>2. CS!Cardinality(T) = Cardinality(T)
  BY DEF CS!Cardinality, Cardinality
<1> QED
  BY <1>1, <1>2

LEMMA WithIs ==
  ASSUME NEW f, NEW k, NEW v
  PROVE  /\ DOMAIN CS!With(f, k, v) = DOMAIN f \cup {k}
         /\ CS!With(f, k, v)[k] = v
         /\ \A x \in DOMAIN f \ {k} : CS!With(f, k, v)[x] = f[x]
BY DEF CS!With

-----------------------------------------------------------------------------
(* Steps that leave the stage of every session alone                       *)

Staged == <<session, chapter, review, summary>>

LEMMA StageFrames ==
  ASSUME CS!Next
  PROVE  \/ UNCHANGED Staged
         \/ \E s \in CS!SessionIds :
              \/ \E u \in Members : CS!Start(u, s) \/ CS!Close(u, s)
              \/ CS!ClaimSummary(s) \/ CS!LeaseLapses(s) \/ CS!ShowNotice(s)
              \/ \E rev \in 1..MaxRevision, control \in BOOLEAN :
                   \/ CS!EditSummary(s, rev, control)
                   \/ \E approve \in BOOLEAN : CS!DecideSummary(s, rev, control, approve)
         \/ \E t \in task, model \in BOOLEAN :
              \E titled \in SUBSET t.read.people : CS!Complete(t, model, titled)
<1>1. CASE CS!EntryStep
  BY <1>1 DEF CS!EntryStep, CS!EntryProposed, CS!EntryCanon, CS!EntryRetracted, Staged
<1>2. CASE CS!TitleStep
  BY <1>2 DEF CS!TitleStep, CS!ProposeTitle, CS!ApproveTitle, CS!RejectTitle,
              CS!FeatureTitle, CS!RevokeTitle, Staged
<1>3. CASE CS!TaskStep
  <2>1. PICK t \in task : \/ CS!Read(t) \/ CS!PurgeContext(t)
                          \/ CS!PurgeFails(t) \/ CS!PurgeReleased(t)
                          \/ \E model \in BOOLEAN, titled \in SUBSET t.read.people :
                               CS!Complete(t, model, titled)
    BY <1>3 DEF CS!TaskStep
  <2>2. CASE CS!Read(t) \/ CS!PurgeContext(t) \/ CS!PurgeFails(t) \/ CS!PurgeReleased(t)
    BY <2>2 DEF CS!Read, CS!PurgeContext, CS!PurgeFails, CS!PurgeReleased, CS!rows, Staged
  <2> QED
    BY <2>1, <2>2
<1>4. CASE CS!SessionStep
  <2>1. PICK s \in CS!SessionIds :
          \/ \E u \in Members : CS!Start(u, s) \/ CS!Close(u, s)
          \/ \E l \in Lines : CS!Observe(l, s)
          \/ CS!ClaimSummary(s) \/ CS!ClaimPurge(s) \/ CS!LeaseLapses(s) \/ CS!ShowNotice(s)
          \/ \E rev \in 1..MaxRevision : CS!ByCommand(s, rev) \/ CS!ByControl(s, rev)
    BY <1>4 DEF CS!SessionStep
  <2>2. CASE (\E l \in Lines : CS!Observe(l, s)) \/ CS!ClaimPurge(s)
    BY <2>2 DEF CS!Observe, CS!ClaimPurge, Staged
  <2>3. ASSUME NEW rev \in 1..MaxRevision, CS!ByCommand(s, rev) \/ CS!ByControl(s, rev)
        PROVE  \E control \in BOOLEAN :
                   \/ CS!EditSummary(s, rev, control)
                   \/ \E approve \in BOOLEAN : CS!DecideSummary(s, rev, control, approve)
    BY <2>3 DEF CS!ByCommand, CS!ByControl
  <2> QED
    BY <2>1, <2>2, <2>3
<1>5. CASE CS!Tick \/ \E u \in Members : CS!SetConsent(u)
  BY <1>5 DEF CS!Tick, CS!SetConsent, CS!rows, Staged
<1> QED
  BY <1>1, <1>2, <1>3, <1>4, <1>5 DEF CS!Next

-----------------------------------------------------------------------------
(* Types                                                                   *)

LEMMA Numbers ==
  ASSUME CS!SessionAssumption, SessionRows
  PROVE  /\ MaxAttempts \in Nat \ {0} /\ RetryDelay \in Nat \ {0}
         /\ Retention \in Nat /\ ReviewLife \in Nat /\ MaxRevision \in Nat /\ MaxContext \in Nat
         /\ time \in Nat /\ \A s \in CS!SessionIds : session[s].closing \in Nat
BY DEF CS!SessionAssumption, SessionRows, SessionRow

LEMMA NewPurges ==
  ASSUME SessionRows, NEW s \in CS!SessionIds, NEW due \in Int
  PROVE  /\ CS!NewPurge(s, due) \in PurgeRow
         /\ CS!NewPurge(s, due).state = "pending" /\ CS!NewPurge(s, due).due = due
         /\ purge[s].state = "dead" => CS!NewPurge(s, due).lost
         /\ CS!Waiting(s, due) \in PurgeRow
         /\ CS!Waiting(s, due).state = "pending" /\ CS!Waiting(s, due).due = due
         /\ CS!Waiting(s, due).tried = purge[s].tried
BY DEF SessionRows, PurgeRow, CS!NewPurge, CS!Waiting

(* What a worker that holds the purge leaves of it.                        *)
LEMMA HeldPurges ==
  ASSUME CS!SessionAssumption, SessionRows, Purged, NEW s \in CS!SessionIds,
         purge[s].state = "claimed"
  PROVE  /\ purge[s].tried - 1 \in Nat
         /\ \A due \in Int : [CS!Waiting(s, due) EXCEPT !.tried = @ - 1] \in PurgeRow
         /\ [purge[s] EXCEPT !.state = "pending", !.tried = @ - 1] \in PurgeRow
         /\ [purge[s] EXCEPT !.state = "completed"] \in PurgeRow
         /\ CS!Failed(purge[s]) \in PurgeRow
<1>1. purge[s] \in PurgeRow /\ purge[s].tried \in Nat /\ time + RetryDelay \in Int
  BY Numbers DEF SessionRows, PurgeRow
<1>2. purge[s].tried >= 1
  BY DEF Purged, PurgedAt
<1>3. purge[s].tried - 1 \in Nat
  BY <1>1, <1>2
<1>5. ASSUME NEW due \in Int
      PROVE  [CS!Waiting(s, due) EXCEPT !.tried = @ - 1] \in PurgeRow
  <2>1. CS!Waiting(s, due) \in PurgeRow /\ CS!Waiting(s, due).tried = purge[s].tried
    BY NewPurges
  <2> QED
    BY <1>3, <2>1 DEF PurgeRow
<1>6. [purge[s] EXCEPT !.state = "pending", !.tried = @ - 1] \in PurgeRow
  BY <1>1, <1>3 DEF PurgeRow
<1>7. CS!Failed(purge[s]) \in PurgeRow /\ [purge[s] EXCEPT !.state = "completed"] \in PurgeRow
  BY <1>1 DEF PurgeRow, CS!Failed
<1> QED
  BY <1>3, <1>5, <1>6, <1>7

LEMMA Joiners ==
  ASSUME SessionRows, NEW U
  PROVE  CS!JoinedBy(U) \in [CS!SessionIds -> SUBSET Members]
BY DEF SessionRows, CS!JoinedBy

LEMMA Links ==
  ASSUME SessionRows, NEW e, NEW D, DOMAIN record \subseteq D, e \in D
  PROVE  CS!LinkedNow(e) \in [CS!SessionIds -> SUBSET D]
BY DEF SessionRows, CS!LinkedNow

LEMMA OldestIs ==
  ASSUME NEW c, DOMAIN c # {}, \A l \in DOMAIN c : c[l] \in Nat
  PROVE  /\ CS!Oldest(c) \in Nat /\ \E l \in DOMAIN c : CS!Oldest(c) = c[l]
         /\ \A l \in DOMAIN c : CS!Oldest(c) <= c[l]
<1> DEFINE Times == {c[l] : l \in DOMAIN c}
           Lt == OpToRel(<, Nat)
<1>1. IsWellFoundedOn(Lt, Nat)
  BY NatLessThanWellFounded
<1> HIDE DEF Lt
<1>2. Times \in SUBSET Nat /\ Times # {}
  OBVIOUS
<1> HIDE DEF Times
<1>3. PICK n \in Times : \A k \in Times : ~(<<k, n>> \in Lt)
  BY <1>1, <1>2, WFMin
<1>4. \A k \in Times : ~(k < n)
  BY <1>2, <1>3 DEF OpToRel, Lt
<1>5. n \in Times /\ \A l \in DOMAIN c : n <= c[l]
  BY <1>2, <1>4 DEF Times
<1>6. \E at \in {c[l] : l \in DOMAIN c} : \A l \in DOMAIN c : at <= c[l]
  BY <1>5 DEF Times
<1>7. CS!Oldest(c) \in {c[l] : l \in DOMAIN c} /\ \A l \in DOMAIN c : CS!Oldest(c) <= c[l]
  BY <1>6 DEF CS!Oldest
<1> QED
  BY <1>7

(* A step on the rows of one session leaves rows of these types.           *)
LEMMA RowsKept ==
  ASSUME CS!SessionAssumption, SessionRows, Purged, [CS!Next]_(CS!vars)
  PROVE  SessionRows'
<1>1. CASE UNCHANGED CS!vars
  BY <1>1 DEF SessionRows, CS!vars, CS!rows
<1>2. CASE CS!EntryStep
  <2>1. ASSUME NEW e \in Entries, CS!EntryProposed(e)
        PROVE  SessionRows'
    <3>1. DOMAIN record' = DOMAIN record \cup {e}
      BY <2>1, WithIs DEF CS!EntryProposed
    <3>2. /\ linked' \in [CS!SessionIds -> SUBSET DOMAIN record']
          /\ joined' \in [CS!SessionIds -> SUBSET Members]
      BY <2>1, <3>1, Links, Joiners DEF CS!EntryProposed, CS!JoinedNow
    <3> QED
      BY <2>1, <3>2 DEF SessionRows, CS!EntryProposed
  <2>2. ASSUME NEW e \in Entries, CS!EntryCanon(e)
        PROVE  SessionRows'
    <3>1. DOMAIN record' = DOMAIN record
      BY <2>2 DEF CS!EntryCanon
    <3>2. /\ linked' \in [CS!SessionIds -> SUBSET DOMAIN record']
          /\ joined' \in [CS!SessionIds -> SUBSET Members]
      BY <2>2, <3>1, Links, Joiners DEF CS!EntryCanon, CS!JoinedNow
    <3> QED
      BY <2>2, <3>2 DEF SessionRows, CS!EntryCanon
  <2>3. ASSUME NEW e \in DOMAIN record, NEW u \in Members, CS!EntryRetracted(e, u)
        PROVE  SessionRows'
    <3>1. DOMAIN record' = DOMAIN record
      BY <2>3 DEF CS!EntryRetracted
    <3>2. joined' \in [CS!SessionIds -> SUBSET Members]
      BY <2>3, Joiners DEF CS!EntryRetracted, CS!JoinedNow
    <3> QED
      BY <2>3, <3>1, <3>2 DEF SessionRows, CS!EntryRetracted
  <2> QED
    BY <1>2, <2>1, <2>2, <2>3 DEF CS!EntryStep
<1>3. CASE CS!TitleStep
  <2>1. ASSUME NEW g \in DOMAIN grant, CS!ApproveTitle(g)
        PROVE  SessionRows'
    <3>1. DOMAIN record' = DOMAIN record \cup {CS!Award(g)}
      BY <2>1, WithIs DEF CS!ApproveTitle
    <3>2. /\ linked' \in [CS!SessionIds -> SUBSET DOMAIN record']
          /\ joined' \in [CS!SessionIds -> SUBSET Members]
      BY <2>1, <3>1, Links, Joiners DEF CS!ApproveTitle
    <3> QED
      BY <2>1, <3>2 DEF SessionRows, CS!ApproveTitle
  <2>2. ASSUME UNCHANGED <<time, consents, record, session, linked, chapter, review,
                           summary, purge, task>>,
               NEW u, joined' = CS!JoinedNow(u)
        PROVE  SessionRows'
    <3>1. joined' \in [CS!SessionIds -> SUBSET Members]
      BY <2>2, Joiners DEF CS!JoinedNow
    <3> QED
      BY <2>2, <3>1 DEF SessionRows
  <2>3. ASSUME NEW c \in Curated, NEW u \in Members, CS!ProposeTitle(c, u)
        PROVE  SessionRows'
    BY <2>2, <2>3 DEF CS!ProposeTitle
  <2>4. ASSUME NEW g \in DOMAIN grant,
               CS!RejectTitle(g) \/ CS!FeatureTitle(g) \/ \E u \in Members : CS!RevokeTitle(g, u)
        PROVE  SessionRows'
    BY <2>2, <2>4 DEF CS!RejectTitle, CS!FeatureTitle, CS!RevokeTitle
  <2> QED
    BY <1>3, <2>1, <2>3, <2>4 DEF CS!TitleStep
<1>4. ASSUME NEW t \in task, CS!Read(t)
      PROVE  SessionRows'
  BY <1>4 DEF SessionRows, CS!Read, CS!rows, CS!Hold, CS!SummaryContext
<1>5. ASSUME NEW t \in task, CS!PurgeContext(t)
      PROVE  SessionRows'
  <2> DEFINE s     == t.s
             ended == session[s].state \in {"closing", "closed"}
             kept  == IF s \in CS!Open THEN CS!Fresh(s)
                      ELSE IF ended /\ time < session[s].closing + Retention THEN context[s]
                      ELSE CS!Nothing
             due   == IF s \in CS!Open THEN CS!Oldest(kept) + Retention
                      ELSE session[s].closing + Retention
             again == IF s \in CS!Open THEN DOMAIN kept # {}
                      ELSE ended /\ time < session[s].closing + Retention
  <2>1. s \in CS!SessionIds
    BY DEF SessionRows
  <2>2. ASSUME again
        PROVE  due \in Int
    <3>1. CASE s \in CS!Open
      <4>1. DOMAIN CS!Fresh(s) # {} /\ \A l \in DOMAIN CS!Fresh(s) : CS!Fresh(s)[l] \in Nat
        BY <2>1, <2>2, <3>1 DEF Purged, PurgedAt, CS!Fresh, CS!Within
      <4>2. CS!Oldest(CS!Fresh(s)) \in Nat
        BY <4>1, OldestIs
      <4> QED
        BY <3>1, <4>2 DEF CS!SessionAssumption
    <3>2. CASE s \notin CS!Open
      BY <2>1, <3>2 DEF SessionRows, SessionRow, CS!SessionAssumption
    <3> QED
      BY <3>1, <3>2
  <2>3. \/ /\ purge' = [purge EXCEPT ![s] =
                IF again THEN [CS!Waiting(s, due) EXCEPT !.tried = @ - 1]
                ELSE [@ EXCEPT !.state = "completed"]]
           /\ purge[s].state = "claimed"
        \/ purge' = purge
    BY <1>5 DEF CS!PurgeContext, CS!Current
  <2> HIDE DEF again, due, s
  <2>4. ASSUME purge[s].state = "claimed"
        PROVE  /\ again => [CS!Waiting(s, due) EXCEPT !.tried = @ - 1] \in PurgeRow
               /\ [purge[s] EXCEPT !.state = "completed"] \in PurgeRow
    BY <2>1, <2>2, <2>4, HeldPurges
  <2>5. purge' \in [CS!SessionIds -> PurgeRow]
    BY <2>1, <2>3, <2>4 DEF SessionRows
  <2> QED
    BY <1>5, <2>5 DEF SessionRows, CS!PurgeContext, CS!Purging
<1>20. ASSUME NEW t \in task, CS!PurgeFails(t) \/ CS!PurgeReleased(t)
       PROVE  SessionRows'
  <2>1. t.s \in CS!SessionIds /\ purge[t.s].state = "claimed"
    BY <1>20 DEF SessionRows, CS!PurgeFails, CS!PurgeReleased, CS!Current
  <2>2. \/ purge' = [purge EXCEPT ![t.s] = CS!Failed(purge[t.s])]
        \/ purge' = [purge EXCEPT ![t.s] = [purge[t.s] EXCEPT !.state = "pending", !.tried = @ - 1]]
    BY <1>20, <2>1 DEF CS!PurgeFails, CS!PurgeReleased, SessionRows
  <2>3. purge' \in [CS!SessionIds -> PurgeRow]
    BY <2>1, <2>2, HeldPurges DEF SessionRows
  <2>4. CASE CS!PurgeFails(t)
    BY <2>3, <2>4 DEF SessionRows, CS!PurgeFails, CS!Purging
  <2>5. CASE CS!PurgeReleased(t)
    BY <2>3, <2>5 DEF SessionRows, CS!PurgeReleased, CS!Purging
  <2> QED
    BY <1>20, <2>4, <2>5
<1>6. ASSUME NEW t \in task, NEW model \in BOOLEAN, NEW titled \in SUBSET t.read.people,
             CS!Complete(t, model, titled)
      PROVE  SessionRows'
  <2>1. t.s \in CS!SessionIds
    BY DEF SessionRows
  <2> DEFINE rev == IF model THEN chapter[t.s].rev + 1 ELSE chapter[t.s].rev
  <2>2. rev \in Nat
    BY <2>1 DEF SessionRows, DraftRow
  <2>3. CASE /\ UNCHANGED <<session, chapter, review>>
             /\ \/ UNCHANGED summary \/ summary' = [summary EXCEPT ![t.s].state = "pending"]
    <3>1. [summary[t.s] EXCEPT !.state = "pending"] \in JobRow
      BY <2>1 DEF SessionRows, JobRow
    <3>2. summary' \in [CS!SessionIds -> JobRow]
      BY <2>1, <2>3, <3>1 DEF SessionRows
    <3> QED
      BY <1>6, <2>3, <3>2 DEF SessionRows, CS!Complete
  <2>4. CASE /\ session' = [session EXCEPT ![t.s].state = "closed"]
             /\ chapter' = [chapter EXCEPT ![t.s].rev = rev,
                                           ![t.s].source = IF model THEN "model" ELSE @]
             /\ review' = [review EXCEPT ![t.s] = CS!Asked(rev)]
             /\ summary' = [summary EXCEPT ![t.s].state = "completed"]
    <3> HIDE DEF rev
    <3> DEFINE d == [chapter[t.s] EXCEPT !.rev = rev,
                                         !.source = IF model THEN "model" ELSE @]
    <3>1. /\ [session[t.s] EXCEPT !.state = "closed"] \in SessionRow
          /\ [summary[t.s] EXCEPT !.state = "completed"] \in JobRow
      <4>1. session[t.s] \in SessionRow /\ summary[t.s] \in JobRow
        BY <2>1 DEF SessionRows
      <4>2. [session[t.s] EXCEPT !.state = "closed"] \in SessionRow
        BY <4>1 DEF SessionRow
      <4>3. [summary[t.s] EXCEPT !.state = "completed"] \in JobRow
        BY <4>1 DEF JobRow
      <4> QED
        BY <4>2, <4>3
    <3>2. d \in DraftRow
      <4>1. chapter[t.s] \in DraftRow
        BY <2>1 DEF SessionRows
      <4> QED
        BY <2>2, <4>1 DEF DraftRow
    <3>3. CS!Asked(rev) \in ReviewRow
      BY <2>2, Numbers DEF ReviewRow, CS!Asked
    <3>4. /\ session' = [session EXCEPT ![t.s] = [session[t.s] EXCEPT !.state = "closed"]]
          /\ summary' = [summary EXCEPT ![t.s] = [summary[t.s] EXCEPT !.state = "completed"]]
          /\ chapter' = [chapter EXCEPT ![t.s] = d]
      BY <2>1, <2>4 DEF SessionRows
    <3> HIDE DEF d
    <3>5. /\ session' \in [CS!SessionIds -> SessionRow] /\ summary' \in [CS!SessionIds -> JobRow]
          /\ chapter' \in [CS!SessionIds -> DraftRow]
      BY <2>1, <3>1, <3>2, <3>4 DEF SessionRows
    <3>6. review' \in [CS!SessionIds -> ReviewRow]
      BY <2>1, <2>4, <3>3 DEF SessionRows
    <3> QED
      BY <1>6, <3>5, <3>6 DEF SessionRows, CS!Complete
  <2> QED
    BY <1>6, <2>3, <2>4 DEF CS!Complete
<1>7. ASSUME NEW s \in CS!SessionIds, NEW u \in Members, CS!Start(u, s)
      PROVE  SessionRows'
  BY <1>7 DEF SessionRows, SessionRow, CS!Start
<1>8. ASSUME NEW s \in CS!SessionIds, NEW u \in Members, CS!Close(u, s)
      PROVE  SessionRows'
  <2>1. CASE CS!Canon(s) = {}
    <3>1. [session[s] EXCEPT !.state = "abandoned"] \in SessionRow
      BY DEF SessionRows, SessionRow
    <3>2. [purge[s] EXCEPT !.state = IF @ = "pending" THEN "cancelled" ELSE @] \in PurgeRow
      BY DEF SessionRows, PurgeRow
    <3>3. /\ session' = [session EXCEPT ![s] = [session[s] EXCEPT !.state = "abandoned"]]
          /\ purge' = [purge EXCEPT ![s] =
                         [purge[s] EXCEPT !.state = IF @ = "pending" THEN "cancelled" ELSE @]]
      BY <1>8, <2>1 DEF CS!Close, CS!Abandon
    <3> QED
      BY <1>8, <2>1, <3>1, <3>2, <3>3 DEF SessionRows, CS!Close, CS!Abandon
  <2>2. CASE CS!Canon(s) # {}
    <3>1. /\ [session[s] EXCEPT !.state = "closing", !.closing = time] \in SessionRow
          /\ [state |-> "pending", rev |-> 1, source |-> "fallback"] \in DraftRow
          /\ [summary[s] EXCEPT !.state = "pending"] \in JobRow
      <4>1. [session[s] EXCEPT !.state = "closing", !.closing = time] \in SessionRow
        BY DEF SessionRows, SessionRow
      <4>2. [state |-> "pending", rev |-> 1, source |-> "fallback"] \in DraftRow
        BY DEF DraftRow
      <4>3. [summary[s] EXCEPT !.state = "pending"] \in JobRow
        BY DEF SessionRows, JobRow
      <4> QED
        BY <4>1, <4>2, <4>3
    <3>2. /\ session' = [session EXCEPT ![s] =
                            [session[s] EXCEPT !.state = "closing", !.closing = time]]
          /\ chapter' = [chapter EXCEPT ![s] =
                            [state |-> "pending", rev |-> 1, source |-> "fallback"]]
          /\ summary' = [summary EXCEPT ![s] = [summary[s] EXCEPT !.state = "pending"]]
      BY <1>8, <2>2 DEF CS!Close, SessionRows
    <3>3. purge' \in [CS!SessionIds -> PurgeRow]
      <4>1. /\ CS!NewPurge(s, time + Retention) \in PurgeRow
            /\ CS!Waiting(s, time + Retention) \in PurgeRow
        BY NewPurges, Numbers
      <4> QED
        BY <1>8, <2>2, <4>1 DEF SessionRows, CS!Close, CS!PurgeAfterClose
    <3> QED
      BY <1>8, <2>2, <3>1, <3>2, <3>3 DEF SessionRows, CS!Close
  <2> QED
    BY <2>1, <2>2
<1>9. ASSUME NEW s \in CS!SessionIds, NEW l \in Lines, CS!Observe(l, s)
      PROVE  SessionRows'
  <2>1. CS!NewPurge(s, time + Retention) \in PurgeRow
    BY NewPurges, Numbers
  <2>2. purge' \in [CS!SessionIds -> PurgeRow]
    BY <1>9, <2>1 DEF SessionRows, CS!Observe
  <2>3. joined' \in [CS!SessionIds -> SUBSET Members]
    BY <1>9 DEF SessionRows, CS!Observe
  <2> QED
    BY <1>9, <2>2, <2>3 DEF SessionRows, CS!Observe
<1>10. ASSUME NEW s \in CS!SessionIds, CS!ClaimSummary(s)
       PROVE  SessionRows'
  BY <1>10 DEF SessionRows, JobRow, CS!ClaimSummary, CS!Hold, CS!Unread
<1>11. ASSUME NEW s \in CS!SessionIds, CS!ClaimPurge(s)
       PROVE  SessionRows'
  <2>1. purge[s] \in PurgeRow
    BY DEF SessionRows
  <2>2. /\ [purge[s] EXCEPT !.state = "claimed", !.lease = purge[s].lease + 1,
                            !.tried = purge[s].tried + 1] \in PurgeRow
        /\ [purge[s] EXCEPT !.state = "dead"] \in PurgeRow
    <3>1. purge[s].tried + 1 \in Nat /\ purge[s].lease + 1 \in Nat
      BY <2>1 DEF PurgeRow
    <3> QED
      BY <2>1, <3>1 DEF PurgeRow
  <2>3. \/ purge' = [purge EXCEPT ![s] = [purge[s] EXCEPT !.state = "claimed",
                       !.lease = purge[s].lease + 1, !.tried = purge[s].tried + 1]]
        \/ purge' = [purge EXCEPT ![s] = [purge[s] EXCEPT !.state = "dead"]]
    BY <1>11 DEF CS!ClaimPurge, SessionRows
  <2>4. purge' \in [CS!SessionIds -> PurgeRow]
    BY <2>2, <2>3 DEF SessionRows
  <2>5. \A t \in task' : t.s \in CS!SessionIds /\ t.read.people \subseteq Members
    BY <1>11 DEF SessionRows, CS!ClaimPurge, CS!Hold, CS!Unread
  <2> QED
    BY <1>11, <2>4, <2>5 DEF SessionRows, CS!ClaimPurge
<1>12. ASSUME NEW s \in CS!SessionIds, CS!LeaseLapses(s)
       PROVE  SessionRows'
  <2>1. [summary[s] EXCEPT !.state = "pending"] \in JobRow
    BY DEF SessionRows, JobRow
  <2>2. summary' = [summary EXCEPT ![s] = [summary[s] EXCEPT !.state = "pending"]]
    BY <1>12 DEF CS!LeaseLapses
  <2> QED
    BY <1>12, <2>1, <2>2 DEF SessionRows, CS!LeaseLapses
<1>13. ASSUME NEW s \in CS!SessionIds, CS!ShowNotice(s)
       PROVE  SessionRows'
  BY <1>13 DEF SessionRows, ReviewRow, CS!ShowNotice
<1>14. ASSUME NEW s \in CS!SessionIds, NEW rev \in 1..MaxRevision, NEW control \in BOOLEAN,
              CS!EditSummary(s, rev, control)
       PROVE  SessionRows'
  <2>1. joined' \in [CS!SessionIds -> SUBSET Members]
    BY <1>14, Joiners DEF CS!EditSummary, CS!JoinedNow
  <2>2. chapter' \in [CS!SessionIds -> DraftRow]
    <3>1. chapter[s] \in DraftRow /\ rev + 1 \in Nat
      BY DEF SessionRows, CS!SessionAssumption
    <3>2. [chapter[s] EXCEPT !.rev = rev + 1, !.source = "manual"] \in DraftRow
      BY <3>1 DEF DraftRow
    <3>3. chapter' = [chapter EXCEPT ![s] =
                        [chapter[s] EXCEPT !.rev = rev + 1, !.source = "manual"]]
      BY <1>14 DEF CS!EditSummary, SessionRows
    <3> QED
      BY <3>2, <3>3 DEF SessionRows
  <2>3. review' \in [CS!SessionIds -> ReviewRow]
    <3>1. CS!Asked(rev + 1) \in ReviewRow
      BY DEF SessionRows, ReviewRow, CS!Asked, CS!SessionAssumption
    <3> QED
      BY <1>14, <3>1 DEF SessionRows, CS!EditSummary
  <2> QED
    BY <1>14, <2>1, <2>2, <2>3 DEF SessionRows, CS!EditSummary
<1>15. ASSUME NEW s \in CS!SessionIds, NEW rev \in 1..MaxRevision, NEW control \in BOOLEAN,
              NEW approve \in BOOLEAN, CS!DecideSummary(s, rev, control, approve)
       PROVE  SessionRows'
  <2>1. /\ linked' \in [CS!SessionIds -> SUBSET DOMAIN record']
        /\ joined' \in [CS!SessionIds -> SUBSET Members]
    <3>1. CASE approve
      <4>1. DOMAIN record' = DOMAIN record \cup {CS!Chapter(s)}
        BY <1>15, <3>1, WithIs DEF CS!DecideSummary
      <4>2. linked' = CS!LinkedNow(CS!Chapter(s)) /\ joined' = CS!JoinedBy({Owner} \cup joined[s])
        BY <1>15, <3>1 DEF CS!DecideSummary
      <4>3. CS!LinkedNow(CS!Chapter(s)) \in [CS!SessionIds -> SUBSET DOMAIN record']
        BY <4>1, Links
      <4>4. CS!JoinedBy({Owner} \cup joined[s]) \in [CS!SessionIds -> SUBSET Members]
        BY Joiners
      <4> QED
        BY <4>2, <4>3, <4>4
    <3>2. CASE ~approve
      BY <1>15, <3>2, Joiners DEF CS!DecideSummary, CS!JoinedNow, SessionRows
    <3> QED
      BY <3>1, <3>2
  <2>2. chapter' \in [CS!SessionIds -> DraftRow] /\ review' \in [CS!SessionIds -> ReviewRow]
    <3> DEFINE d == [chapter[s] EXCEPT !.state = IF approve THEN "approved" ELSE "rejected",
                                       !.rev = rev + 1]
    <3>1. d \in DraftRow /\ CS!NoReview \in ReviewRow
      <4>1. chapter[s] \in DraftRow /\ rev + 1 \in Nat
        BY DEF SessionRows, CS!SessionAssumption
      <4> QED
        <5>1. (IF approve THEN "approved" ELSE "rejected") \in {"approved", "rejected"}
          OBVIOUS
        <5>2. d \in DraftRow
          BY <4>1, <5>1 DEF DraftRow
        <5>3. CS!NoReview \in ReviewRow
          BY DEF ReviewRow, CS!NoReview
        <5> QED
          BY <5>2, <5>3
    <3>2. chapter' = [chapter EXCEPT ![s] = d] /\ review' = [review EXCEPT ![s] = CS!NoReview]
      BY <1>15 DEF CS!DecideSummary, SessionRows
    <3> HIDE DEF d
    <3> QED
      BY <3>1, <3>2 DEF SessionRows
  <2>3. purge' \in [CS!SessionIds -> PurgeRow]
    BY <1>15 DEF SessionRows, PurgeRow, CS!DecideSummary
  <2> QED
    BY <1>15, <2>1, <2>2, <2>3 DEF SessionRows, CS!DecideSummary
<1>16. CASE CS!Tick \/ \E u \in Members : CS!SetConsent(u)
  BY <1>16 DEF SessionRows, CS!Tick, CS!SetConsent, CS!rows
<1>17. CASE CS!TaskStep
  BY <1>4, <1>5, <1>20, <1>6, <1>17 DEF CS!TaskStep
<1>18. CASE CS!SessionStep
  BY <1>7, <1>8, <1>9, <1>10, <1>11, <1>12, <1>13, <1>14, <1>15, <1>18
  DEF CS!SessionStep, CS!ByCommand, CS!ByControl
<1> QED
  BY <1>1, <1>2, <1>3, <1>16, <1>17, <1>18 DEF CS!Next

-----------------------------------------------------------------------------
(* Stages                                                                  *)

LEMMA StagesKept ==
  ASSUME CS!SessionAssumption, SessionRows, Stages, [CS!Next]_(CS!vars)
  PROVE  Stages'
<1>1. CASE UNCHANGED Staged
  BY <1>1 DEF Stages, Staged
<1>2. ASSUME NEW s \in CS!SessionIds, NEW u \in Members, CS!Start(u, s)
      PROVE  Stages'
  BY <1>2 DEF Stages, SessionRows, CS!Start
<1>3. ASSUME NEW s \in CS!SessionIds, NEW u \in Members, CS!Close(u, s)
      PROVE  Stages'
  <2>1. session[s].state = "open"
    BY <1>3 DEF CS!Close, CS!Open
  <2>2. CASE CS!Canon(s) = {}
    <3>1. /\ UNCHANGED <<chapter, summary, review>> /\ session'[s].state = "abandoned"
          /\ \A p \in CS!SessionIds \ {s} : session'[p] = session[p]
      BY <1>3, <2>2 DEF CS!Close, CS!Abandon, SessionRows, SessionRow
    <3> QED
      BY <2>1, <3>1 DEF Stages
  <2>3. CASE CS!Canon(s) # {}
    <3>1. /\ UNCHANGED review /\ session'[s].state = "closing" /\ summary'[s].state = "pending"
          /\ chapter'[s].state = "pending" /\ chapter'[s].rev = 1
          /\ \A p \in CS!SessionIds \ {s} : /\ session'[p] = session[p] /\ chapter'[p] = chapter[p]
                                            /\ summary'[p] = summary[p]
      BY <1>3, <2>3 DEF CS!Close, SessionRows, SessionRow, DraftRow, JobRow
    <3>2. review[s].rev = 0
      BY <2>1 DEF Stages
    <3> QED
      BY <3>1, <3>2 DEF Stages
  <2> QED
    BY <2>2, <2>3
<1>4. ASSUME NEW s \in CS!SessionIds, CS!ClaimSummary(s)
      PROVE  Stages'
  <2>1. /\ UNCHANGED <<session, chapter, review>> /\ summary[s].state = "pending"
        /\ summary'[s].state = "claimed" /\ \A p \in CS!SessionIds \ {s} : summary'[p] = summary[p]
    BY <1>4 DEF CS!ClaimSummary, SessionRows, JobRow
  <2>2. session[s].state = "closing"
    BY <2>1 DEF Stages, SessionRows, SessionRow
  <2> QED
    BY <2>1, <2>2 DEF Stages
<1>5. ASSUME NEW s \in CS!SessionIds, CS!LeaseLapses(s)
      PROVE  Stages'
  <2>1. CASE UNCHANGED summary
    BY <1>5, <2>1 DEF CS!LeaseLapses, Stages
  <2>2. CASE summary[s].state = "claimed" /\ summary' = [summary EXCEPT ![s].state = "pending"]
    <3>1. summary'[s].state = "pending" /\ \A p \in CS!SessionIds \ {s} : summary'[p] = summary[p]
      BY <2>2 DEF SessionRows, JobRow
    <3>2. session[s].state = "closing"
      BY <2>2 DEF Stages, SessionRows, SessionRow
    <3> QED
      BY <1>5, <3>1, <3>2 DEF CS!LeaseLapses, Stages
  <2> QED
    BY <1>5, <2>1, <2>2 DEF CS!LeaseLapses
<1>6. ASSUME NEW s \in CS!SessionIds, CS!ShowNotice(s)
      PROVE  Stages'
  <2>1. /\ UNCHANGED <<session, chapter, summary>>
        /\ \A p \in CS!SessionIds : review'[p].rev = review[p].rev
    BY <1>6 DEF CS!ShowNotice, SessionRows, ReviewRow
  <2> QED
    BY <2>1 DEF Stages
<1>7. ASSUME NEW s \in CS!SessionIds, NEW rev \in 1..MaxRevision, NEW control \in BOOLEAN,
             CS!EditSummary(s, rev, control)
      PROVE  Stages'
  <2>0. rev \in Nat
    BY Numbers
  <2>1. session[s].state = "closed" /\ chapter[s].state = "pending"
    BY <1>7 DEF CS!EditSummary, CS!Reviewed
  <2>2. /\ UNCHANGED <<session, summary>>
        /\ chapter'[s].state = "pending" /\ chapter'[s].rev = rev + 1
        /\ review'[s].rev = rev + 1
        /\ \A p \in CS!SessionIds \ {s} : chapter'[p] = chapter[p] /\ review'[p] = review[p]
    BY <1>7, <2>0, <2>1 DEF CS!EditSummary, SessionRows, DraftRow, CS!Asked
  <2> QED
    BY <2>0, <2>1, <2>2 DEF Stages
<1>8. ASSUME NEW s \in CS!SessionIds, NEW rev \in 1..MaxRevision, NEW control \in BOOLEAN,
             NEW approve \in BOOLEAN, CS!DecideSummary(s, rev, control, approve)
      PROVE  Stages'
  <2>0. rev \in Nat
    BY Numbers
  <2>1. session[s].state = "closed" /\ chapter[s].state = "pending"
    BY <1>8 DEF CS!DecideSummary, CS!Reviewed
  <2>2. chapter'[s].state \in {"approved", "rejected"} /\ chapter'[s].rev = rev + 1
    BY <1>8, <2>0 DEF CS!DecideSummary, SessionRows, DraftRow
  <2>3. /\ UNCHANGED <<session, summary>> /\ review'[s].rev = 0
        /\ \A p \in CS!SessionIds \ {s} : chapter'[p] = chapter[p] /\ review'[p] = review[p]
    BY <1>8 DEF CS!DecideSummary, SessionRows, CS!NoReview
  <2> QED
    BY <2>0, <2>1, <2>2, <2>3 DEF Stages
<1>9. ASSUME NEW t \in task, NEW model \in BOOLEAN, NEW titled \in SUBSET t.read.people,
             CS!Complete(t, model, titled)
      PROVE  Stages'
  <2>1. t.s \in CS!SessionIds
    BY DEF SessionRows
  <2>2. CASE UNCHANGED Staged
    BY <2>2, <1>1
  <2>3. CASE /\ summary[t.s].state = "claimed" /\ UNCHANGED <<session, chapter, review>>
             /\ summary' = [summary EXCEPT ![t.s].state = "pending"]
    <3>1. /\ summary'[t.s].state = "pending"
          /\ \A p \in CS!SessionIds \ {t.s} : summary'[p] = summary[p]
      BY <2>1, <2>3 DEF SessionRows, JobRow
    <3>2. session[t.s].state = "closing"
      BY <2>1, <2>3 DEF Stages, SessionRows, SessionRow
    <3> QED
      BY <2>3, <3>1, <3>2 DEF Stages
  <2> DEFINE rev == IF model THEN chapter[t.s].rev + 1 ELSE chapter[t.s].rev
  <2>4. CASE /\ summary[t.s].state = "claimed"
             /\ session' = [session EXCEPT ![t.s].state = "closed"]
             /\ chapter' = [chapter EXCEPT ![t.s].rev = rev,
                                           ![t.s].source = IF model THEN "model" ELSE @]
             /\ review' = [review EXCEPT ![t.s] = CS!Asked(rev)]
             /\ summary' = [summary EXCEPT ![t.s].state = "completed"]
    <3>1. session[t.s].state = "closing"
      BY <2>1, <2>4 DEF Stages, SessionRows, SessionRow
    <3>2. chapter[t.s].state = "pending" /\ rev >= 1
      BY <2>1, <3>1 DEF Stages, SessionRows, DraftRow
    <3> HIDE DEF rev
    <3>3. chapter'[t.s].state = "pending" /\ chapter'[t.s].rev = rev
          /\ \A p \in CS!SessionIds \ {t.s} : chapter'[p] = chapter[p]
      BY <2>1, <2>4, <3>2 DEF SessionRows, DraftRow
    <3>4. /\ session'[t.s].state = "closed" /\ summary'[t.s].state = "completed"
          /\ review'[t.s].rev = rev
          /\ \A p \in CS!SessionIds \ {t.s} :
               session'[p] = session[p] /\ summary'[p] = summary[p] /\ review'[p] = review[p]
      BY <2>1, <2>4 DEF SessionRows, SessionRow, JobRow, CS!Asked
    <3> QED
      BY <3>2, <3>3, <3>4 DEF Stages
  <2> QED
    BY <1>9, <2>2, <2>3, <2>4 DEF CS!Complete, Staged
<1>10. CASE UNCHANGED CS!vars
  BY <1>1, <1>10 DEF CS!vars, CS!rows, Staged
<1> QED
  BY <1>1, <1>2, <1>3, <1>4, <1>5, <1>6, <1>7, <1>8, <1>9, <1>10, StageFrames

(* What moves a session from a stage to another.                           *)
LEMMA SessionFrames ==
  ASSUME CS!Next
  PROVE  \/ UNCHANGED session
         \/ \E s \in CS!SessionIds, u \in Members : CS!Start(u, s) \/ CS!Close(u, s)
         \/ \E t \in task, model \in BOOLEAN :
              \E titled \in SUBSET t.read.people : CS!Complete(t, model, titled)
<1>1. ASSUME NEW s \in CS!SessionIds,
             \/ CS!ClaimSummary(s) \/ CS!LeaseLapses(s) \/ CS!ShowNotice(s)
             \/ \E rev \in 1..MaxRevision, control \in BOOLEAN :
                  \/ CS!EditSummary(s, rev, control)
                  \/ \E approve \in BOOLEAN : CS!DecideSummary(s, rev, control, approve)
      PROVE  UNCHANGED session
  <2>1. CASE CS!ClaimSummary(s) \/ CS!LeaseLapses(s) \/ CS!ShowNotice(s)
    BY <2>1 DEF CS!ClaimSummary, CS!LeaseLapses, CS!ShowNotice
  <2>2. ASSUME NEW rev, NEW control, CS!EditSummary(s, rev, control)
        PROVE  UNCHANGED session
    BY <2>2 DEF CS!EditSummary
  <2>3. ASSUME NEW rev, NEW control, NEW approve, CS!DecideSummary(s, rev, control, approve)
        PROVE  UNCHANGED session
    BY <2>3 DEF CS!DecideSummary
  <2> QED
    BY <1>1, <2>1, <2>2, <2>3
<1>2. UNCHANGED Staged => UNCHANGED session
  BY DEF Staged
<1> QED
  BY <1>1, <1>2, StageFrames

(* A session opens when none is going on, and ends once.                   *)
LEMMA OneSessionKept ==
  ASSUME CS!SessionAssumption, SessionRows, Stages, OneSession, [CS!Next]_(CS!vars)
  PROVE  OneSession'
<1>1. CASE UNCHANGED session
  BY <1>1 DEF OneSession, CS!Active
<1>2. ASSUME NEW s \in CS!SessionIds, NEW u \in Members, CS!Start(u, s)
      PROVE  OneSession'
  <2>1. CS!Active = {} /\ \A p \in CS!SessionIds \ {s} : session'[p] = session[p]
    BY <1>2 DEF CS!Start, SessionRows
  <2> QED
    BY <2>1 DEF OneSession, CS!Active
<1>3. ASSUME CS!Active' \subseteq CS!Active
      PROVE  OneSession'
  BY <1>3 DEF OneSession
<1>4. ASSUME NEW s \in CS!SessionIds, NEW u \in Members, CS!Close(u, s)
      PROVE  OneSession'
  <2>1. s \in CS!Active /\ \A p \in CS!SessionIds \ {s} : session'[p] = session[p]
    BY <1>4 DEF CS!Close, CS!Abandon, SessionRows, CS!Open, CS!Active
  <2> QED
    BY <1>3, <2>1 DEF CS!Active
<1>5. ASSUME NEW t \in task, NEW model \in BOOLEAN, NEW titled \in SUBSET t.read.people,
             CS!Complete(t, model, titled)
      PROVE  OneSession'
  <2>1. t.s \in CS!SessionIds
    BY DEF SessionRows
  <2>2. CASE session' = [session EXCEPT ![t.s].state = "closed"]
    <3>1. /\ session'[t.s].state = "closed"
          /\ \A p \in CS!SessionIds \ {t.s} : session'[p] = session[p]
      BY <2>1, <2>2 DEF SessionRows, SessionRow
    <3> QED
      BY <1>3, <3>1 DEF CS!Active
  <2> QED
    BY <1>1, <1>5, <2>2 DEF CS!Complete
<1>6. CASE UNCHANGED CS!vars
  BY <1>1, <1>6 DEF CS!vars, CS!rows
<1> QED
  BY <1>1, <1>2, <1>4, <1>5, <1>6, SessionFrames

-----------------------------------------------------------------------------
(* Contexts                                                                *)

Contexts == UNION {[Part -> Nat] : Part \in SUBSET Lines}

LEMMA PartOfContext ==
  ASSUME NEW c \in Contexts, NEW Part, Part \subseteq DOMAIN c
  PROVE  /\ CS!Within(c, Part) \in Contexts /\ DOMAIN CS!Within(c, Part) = Part
         /\ \A l \in Part : CS!Within(c, Part)[l] = c[l]
BY DEF Contexts, CS!Within

LEMMA FreshContext ==
  ASSUME CS!SessionAssumption, SessionRows, Purged, NEW s \in CS!SessionIds
  PROVE  /\ CS!Fresh(s) \in Contexts /\ DOMAIN CS!Fresh(s) \subseteq DOMAIN context[s]
         /\ \A l \in DOMAIN CS!Fresh(s) : CS!Fresh(s)[l] = context[s][l]
         /\ IsFiniteSet(DOMAIN context[s])
         /\ Cardinality(DOMAIN CS!Fresh(s)) <= MaxContext
<1> DEFINE Part == {l \in DOMAIN context[s] : context[s][l] > time - Retention}
<1>1. /\ context[s] \in Contexts /\ Part \subseteq DOMAIN context[s]
      /\ CS!Fresh(s) = CS!Within(context[s], Part)
  BY DEF Purged, Contexts, CS!Fresh
<1> HIDE DEF Part
<1>2. IsFiniteSet(DOMAIN context[s])
  BY <1>1, FS_Subset, SameSets DEF Contexts, CS!SessionAssumption
<1>3. /\ IsFiniteSet(Part) /\ Cardinality(Part) <= Cardinality(DOMAIN context[s])
      /\ Cardinality(Part) \in Nat /\ Cardinality(DOMAIN context[s]) \in Nat
  BY <1>1, <1>2, FS_Subset, FS_CardinalityType
<1>4. Cardinality(Part) <= MaxContext
  BY <1>3, Numbers DEF Purged, PurgedAt
<1> QED
  BY <1>1, <1>2, <1>4, PartOfContext

(* A line more, and the oldest less where that is too many.                *)
LEMMA LineAdded ==
  ASSUME CS!SessionAssumption, NEW c \in Contexts, Cardinality(DOMAIN c) <= MaxContext,
         NEW l \in Lines, NEW at \in Nat, NEW d \in CS!Capped(CS!With(c, l, at))
  PROVE  /\ d \in Contexts /\ Cardinality(DOMAIN d) <= MaxContext
         /\ DOMAIN d \subseteq DOMAIN c \cup {l}
         /\ \A x \in DOMAIN d : d[x] = IF x = l THEN at ELSE c[x]
<1> DEFINE w == CS!With(c, l, at)
<1>1. /\ DOMAIN w = DOMAIN c \cup {l} /\ DOMAIN w \subseteq Lines
      /\ w[l] = at /\ \A x \in DOMAIN c \ {l} : w[x] = c[x]
  <2>1. DOMAIN c \subseteq Lines
    BY DEF Contexts
  <2>2. /\ DOMAIN w = DOMAIN c \cup {l} /\ w[l] = at
        /\ \A x \in DOMAIN c \ {l} : w[x] = c[x]
    BY DEF CS!With
  <2> HIDE DEF w
  <2> QED
    BY <2>1, <2>2
<1>2. w \in Contexts
  <2>1. w = [x \in DOMAIN w |-> w[x]] /\ \A x \in DOMAIN w : w[x] \in Nat
    BY <1>1 DEF CS!With, Contexts
  <2> HIDE DEF w
  <2>2. w \in [DOMAIN w -> Nat]
    BY <2>1
  <2> QED
    BY <1>1, <2>2 DEF Contexts
<1>3. /\ IsFiniteSet(DOMAIN c) /\ Cardinality(DOMAIN c) \in Nat
      /\ IsFiniteSet(DOMAIN w) /\ Cardinality(DOMAIN w) \in Nat
      /\ Cardinality(DOMAIN w) <= Cardinality(DOMAIN c) + 1
  <2>1. IsFiniteSet(DOMAIN c) /\ Cardinality(DOMAIN c) \in Nat
    BY FS_Subset, FS_CardinalityType, SameSets DEF Contexts, CS!SessionAssumption
  <2>2. IsFiniteSet(DOMAIN c \cup {l})
        /\ Cardinality(DOMAIN c \cup {l}) = IF l \in DOMAIN c THEN Cardinality(DOMAIN c)
                                            ELSE Cardinality(DOMAIN c) + 1
    BY <2>1, FS_AddElement
  <2> HIDE DEF w
  <2> QED
    BY <1>1, <2>1, <2>2
<1>4. MaxContext \in Nat
  BY DEF CS!SessionAssumption
<1> HIDE DEF w
<1>5. CASE Cardinality(DOMAIN w) <= MaxContext
  <2>1. d = w
    BY <1>5, SameSets DEF CS!Capped, w
  <2> QED
    BY <1>1, <1>2, <1>5, <2>1
<1>6. CASE ~(Cardinality(DOMAIN w) <= MaxContext)
  <2>1. PICK x \in DOMAIN w : d = CS!Within(w, DOMAIN w \ {x})
    BY <1>6, SameSets DEF CS!Capped, w
  <2>2. /\ d \in Contexts /\ DOMAIN d = DOMAIN w \ {x}
        /\ \A y \in DOMAIN d : d[y] = w[y]
    BY <1>2, <2>1, PartOfContext
  <2>3. Cardinality(DOMAIN w \ {x}) = Cardinality(DOMAIN w) - 1
    BY <1>3, <2>1, FS_RemoveElement
  <2> QED
    BY <1>1, <1>3, <1>4, <2>2, <2>3
<1> QED
  BY <1>5, <1>6

LEMMA WaitedRow ==
  ASSUME SessionRows, NEW s \in CS!SessionIds, NEW due \in Int
  PROVE  /\ [CS!Waiting(s, due) EXCEPT !.tried = @ - 1].state = "pending"
         /\ [CS!Waiting(s, due) EXCEPT !.tried = @ - 1].due = due
<1>1. /\ CS!Waiting(s, due) \in PurgeRow
      /\ CS!Waiting(s, due).state = "pending" /\ CS!Waiting(s, due).due = due
  BY NewPurges
<1> QED
  BY <1>1 DEF PurgeRow

LEMMA PurgedElsewhere ==
  ASSUME CS!SessionAssumption, SessionRows, Purged, NEW p \in CS!SessionIds,
         context'[p] = context[p], purge'[p] = purge[p], session'[p] = session[p],
         time' = time \/ time' = time + 1
  PROVE  PurgedAt(p)'
<1>1. /\ PurgedAt(p) /\ time \in Nat /\ Retention \in Nat /\ purge[p].due \in Int
      /\ RetryDelay \in Nat
  BY Numbers DEF Purged, SessionRows, PurgeRow
<1>2. Late(p) => Late(p)'
  BY <1>1 DEF Late
<1> QED
  BY <1>1, <1>2 DEF PurgedAt, CS!HasPurge

LEMMA PurgeFrames ==
  ASSUME CS!Next
  PROVE  \/ UNCHANGED <<context, purge, session>> /\ (time' = time \/ time' = time + 1)
         \/ \E s \in CS!SessionIds :
              \/ \E u \in Members : CS!Start(u, s) \/ CS!Close(u, s)
              \/ \E l \in Lines : CS!Observe(l, s)
              \/ CS!ClaimPurge(s)
              \/ \E rev \in 1..MaxRevision, control \in BOOLEAN :
                   \E approve \in BOOLEAN : CS!DecideSummary(s, rev, control, approve)
         \/ \E t \in task :
              \/ CS!PurgeContext(t) \/ CS!PurgeFails(t) \/ CS!PurgeReleased(t)
              \/ \E model \in BOOLEAN :
                   \E titled \in SUBSET t.read.people : CS!Complete(t, model, titled)
<1>1. CASE CS!EntryStep
  BY <1>1 DEF CS!EntryStep, CS!EntryProposed, CS!EntryCanon, CS!EntryRetracted
<1>2. CASE CS!TitleStep
  BY <1>2 DEF CS!TitleStep, CS!ProposeTitle, CS!ApproveTitle, CS!RejectTitle,
              CS!FeatureTitle, CS!RevokeTitle
<1>3. CASE CS!TaskStep
  BY <1>3 DEF CS!TaskStep, CS!Read, CS!rows
<1>4. CASE CS!SessionStep
  <2>1. PICK s \in CS!SessionIds :
          \/ \E u \in Members : CS!Start(u, s) \/ CS!Close(u, s)
          \/ \E l \in Lines : CS!Observe(l, s)
          \/ CS!ClaimSummary(s) \/ CS!ClaimPurge(s) \/ CS!LeaseLapses(s) \/ CS!ShowNotice(s)
          \/ \E rev \in 1..MaxRevision : CS!ByCommand(s, rev) \/ CS!ByControl(s, rev)
    BY <1>4 DEF CS!SessionStep
  <2>2. CASE CS!ClaimSummary(s) \/ CS!LeaseLapses(s) \/ CS!ShowNotice(s)
    BY <2>2 DEF CS!ClaimSummary, CS!LeaseLapses, CS!ShowNotice
  <2>3. ASSUME NEW rev \in 1..MaxRevision, CS!ByCommand(s, rev) \/ CS!ByControl(s, rev)
        PROVE  \E control \in BOOLEAN :
                   \/ CS!EditSummary(s, rev, control)
                   \/ \E approve \in BOOLEAN : CS!DecideSummary(s, rev, control, approve)
    BY <2>3 DEF CS!ByCommand, CS!ByControl
  <2>4. ASSUME NEW rev \in 1..MaxRevision, NEW control \in BOOLEAN, CS!EditSummary(s, rev, control)
        PROVE  UNCHANGED <<context, purge, session, time>>
    BY <2>4 DEF CS!EditSummary
  <2> QED
    BY <2>1, <2>2, <2>3, <2>4
<1>5. CASE CS!Tick \/ \E u \in Members : CS!SetConsent(u)
  BY <1>5 DEF CS!Tick, CS!SetConsent, CS!rows
<1> QED
  BY <1>1, <1>2, <1>3, <1>4, <1>5 DEF CS!Next

LEMMA PurgedKept ==
  ASSUME CS!SessionAssumption, SessionRows, SessionRows', Stages, Purged, [CS!Next]_(CS!vars)
  PROVE  Purged'
<1>0. /\ context \in [CS!SessionIds -> Contexts] /\ {} \in SUBSET Lines
      /\ \A s \in CS!SessionIds : context[s] \in Contexts /\ purge[s] \in PurgeRow
                                  /\ session[s] \in SessionRow
      /\ Retention \in Nat /\ time \in Nat
      /\ RetryDelay \in Nat \ {0} /\ MaxAttempts \in Nat \ {0}
      /\ \A s \in CS!SessionIds : purge[s].due \in Int /\ purge[s].tried \in Nat
  BY Numbers DEF Purged, Contexts, SessionRows, PurgeRow
<1> DEFINE Apart(s) == /\ \A p \in CS!SessionIds \ {s} : /\ context'[p] = context[p]
                                                         /\ purge'[p] = purge[p]
                                                         /\ session'[p] = session[p]
                       /\ time' = time
<1>1. ASSUME NEW s \in CS!SessionIds, Apart(s), PurgedAt(s)',
             context' \in [CS!SessionIds -> Contexts]
      PROVE  Purged'
  <2>1. \A p \in CS!SessionIds \ {s} : PurgedAt(p)'
    BY <1>1, PurgedElsewhere
  <2> QED
    BY <1>1, <2>1 DEF Purged, Contexts
<1>2. CASE UNCHANGED <<context, purge, session>> /\ (time' = time \/ time' = time + 1)
  <2>1. \A p \in CS!SessionIds : PurgedAt(p)'
    BY <1>2, PurgedElsewhere
  <2> QED
    BY <1>2, <2>1 DEF Purged
<1>3. CS!Nothing \in Contexts /\ DOMAIN CS!Nothing = {} /\ Cardinality({}) = 0 /\ 0 <= MaxContext
  <2>1. CS!Nothing = [x \in {} |-> 0] /\ CS!Nothing \in [{} -> Nat]
    BY DEF CS!Nothing
  <2>2. CS!Nothing \in Contexts
    BY <1>0, <2>1 DEF Contexts
  <2>3. DOMAIN CS!Nothing = {}
    BY <2>1
  <2>4. Cardinality({}) = 0 /\ 0 <= MaxContext
    BY FS_EmptySet, Numbers
  <2> QED
    BY <2>2, <2>3, <2>4
<1>4. ASSUME NEW s \in CS!SessionIds, NEW u \in Members, CS!Start(u, s)
      PROVE  Purged'
  <2>1. /\ UNCHANGED <<context, purge>> /\ session[s].state = "none"
        /\ session'[s].state = "open" /\ Apart(s)
    BY <1>4 DEF CS!Start, SessionRows
  <2>2. PurgedAt(s)
    BY DEF Purged
  <2>3. ~CS!HasPurge(s)
    BY <2>1, <2>2 DEF PurgedAt
  <2> QED
    BY <1>0, <1>1, <2>1, <2>2, <2>3 DEF PurgedAt, CS!HasPurge, Late
<1>5. ASSUME NEW s \in CS!SessionIds, NEW u \in Members, CS!Close(u, s)
      PROVE  Purged'
  <2>1. session[s].state = "open" /\ PurgedAt(s)
    BY <1>5 DEF CS!Close, CS!Open, Purged
  <2>2. CASE CS!Canon(s) = {}
    <3>1. /\ session' = [session EXCEPT ![s].state = "abandoned"]
          /\ context' = [context EXCEPT ![s] = CS!Nothing]
          /\ purge' = [purge EXCEPT ![s].state = IF @ = "pending" THEN "cancelled" ELSE @]
          /\ time' = time
      BY <1>5, <2>2 DEF CS!Close, CS!Abandon
    <3>2. /\ Apart(s) /\ context'[s] = CS!Nothing /\ session'[s].state = "abandoned"
      BY <1>0, <3>1 DEF SessionRows, SessionRow
    <3>3. purge'[s].state = "claimed" => purge[s].state = "claimed" /\ purge'[s].tried = purge[s].tried
      BY <1>0, <3>1 DEF PurgeRow, SessionRows
    <3>5. PurgedAt(s)'
      BY <1>3, <2>1, <3>2, <3>3 DEF PurgedAt
    <3>4. context' \in [CS!SessionIds -> Contexts]
      BY <1>0, <1>3, <3>1
    <3> QED
      BY <1>1, <3>2, <3>4, <3>5
  <2>3. CASE CS!Canon(s) # {}
    <3>1. /\ context' = [context EXCEPT ![s] = CS!Fresh(s)] /\ time' = time
          /\ purge' = CS!PurgeAfterClose(s)
          /\ session' = [session EXCEPT ![s].state = "closing", ![s].closing = time]
      BY <1>5, <2>3 DEF CS!Close
    <3>2. /\ Apart(s) /\ context'[s] = CS!Fresh(s)
          /\ session'[s].state = "closing" /\ session'[s].closing = time
      BY <1>0, <3>1 DEF SessionRows, SessionRow, CS!PurgeAfterClose
    <3>3. /\ CS!HasPurge(s)' /\ (Late(s)' \/ purge'[s].due <= time + Retention)
          /\ purge'[s].state = "claimed" => purge'[s].tried >= 1
      <4>1. CASE purge[s].state = "claimed"
        <5>1. purge' = [purge EXCEPT ![s] = purge[s]]
          BY <3>1, <4>1 DEF CS!PurgeAfterClose
        <5>2. purge'[s] = purge[s]
          BY <5>1 DEF SessionRows
        <5> QED
          BY <2>1, <3>1, <4>1, <5>2 DEF PurgedAt, CS!HasPurge, Late
      <4>2. CASE purge[s].state # "claimed"
        <5>1. \/ purge' = [purge EXCEPT ![s] = CS!Waiting(s, time + Retention)]
              \/ purge' = [purge EXCEPT ![s] = CS!NewPurge(s, time + Retention)]
          BY <3>1, <4>2 DEF CS!PurgeAfterClose
        <5>2. /\ \/ purge'[s] = CS!Waiting(s, time + Retention)
                 \/ purge'[s] = CS!NewPurge(s, time + Retention)
              /\ time + Retention \in Int
          BY <1>0, <5>1 DEF SessionRows
        <5>3. purge'[s].state = "pending" /\ purge'[s].due = time + Retention
          BY <5>2, NewPurges
        <5> QED
          BY <1>0, <5>3 DEF CS!HasPurge
      <4> QED
        BY <4>1, <4>2
    <3>4. PurgedAt(s)'
      BY <1>0, <2>1, <3>2, <3>3, FreshContext DEF PurgedAt
    <3>5. context' \in [CS!SessionIds -> Contexts]
      BY <1>0, <3>1, FreshContext
    <3> QED
      BY <1>1, <3>2, <3>4, <3>5
  <2> QED
    BY <2>2, <2>3
<1>6. ASSUME NEW s \in CS!SessionIds, NEW l \in Lines, CS!Observe(l, s)
      PROVE  Purged'
  <2>1. session[s].state = "open" /\ PurgedAt(s) /\ UNCHANGED <<session, time>>
    BY <1>6 DEF CS!Observe, CS!Open, Purged
  <2>2. CASE context' = [context EXCEPT ![s] = CS!Fresh(s)] /\ UNCHANGED purge
    <3>1. Apart(s) /\ context'[s] = CS!Fresh(s)
      BY <1>0, <2>1, <2>2
    <3>2. PurgedAt(s)'
      BY <1>0, <2>1, <2>2, <3>1, FreshContext DEF PurgedAt, CS!HasPurge, Late
    <3>3. context' \in [CS!SessionIds -> Contexts]
      BY <1>0, <2>2, FreshContext
    <3> QED
      BY <1>1, <3>1, <3>2, <3>3
  <2>3. ASSUME NEW c \in CS!Capped(CS!With(CS!Fresh(s), l, time)),
               context' = [context EXCEPT ![s] = c],
               purge' = IF CS!HasPurge(s) THEN purge
                        ELSE [purge EXCEPT ![s] = CS!NewPurge(s, time + Retention)]
        PROVE  Purged'
    <3>1. /\ c \in Contexts /\ Cardinality(DOMAIN c) <= MaxContext
          /\ DOMAIN c \subseteq DOMAIN CS!Fresh(s) \cup {l}
          /\ \A x \in DOMAIN c : c[x] = IF x = l THEN time ELSE CS!Fresh(s)[x]
      BY <1>0, FreshContext, LineAdded
    <3>2. Apart(s) /\ context'[s] = c
      BY <1>0, <2>1, <2>3 DEF SessionRows
    <3>3. \A x \in DOMAIN c : \/ c[x] = time
                              \/ x \in DOMAIN context[s] /\ c[x] = context[s][x]
      BY <3>1, FreshContext
    <3>4. /\ CS!HasPurge(s)' /\ (purge'[s].state = "claimed" => purge'[s].tried >= 1)
          /\ ~Late(s)' => /\ purge'[s].due <= time + Retention
                          /\ \/ purge'[s].lost
                             \/ \A x \in DOMAIN c : purge'[s].due <= c[x] + Retention
      <4>1. CASE CS!HasPurge(s)
        <5>1. purge'[s] = purge[s] /\ (Late(s) => Late(s)')
          BY <2>1, <2>3, <4>1 DEF Late
        <5> QED
          BY <1>0, <2>1, <3>3, <4>1, <5>1 DEF PurgedAt, CS!HasPurge
      <4>2. CASE ~CS!HasPurge(s)
        <5>1. purge'[s] = CS!NewPurge(s, time + Retention) /\ time + Retention \in Int
          BY <1>0, <2>3, <4>2 DEF SessionRows
        <5>2. /\ purge'[s].state = "pending" /\ purge'[s].due = time + Retention
              /\ purge[s].state = "dead" => purge'[s].lost
          BY <5>1, NewPurges
        <5>3. purge[s].state = "dead" \/ DOMAIN context[s] = {}
          BY <2>1, <4>2 DEF PurgedAt
        <5>4. purge'[s].lost \/ \A x \in DOMAIN c : c[x] = time
          BY <3>3, <5>2, <5>3
        <5> QED
          BY <1>0, <5>2, <5>4 DEF CS!HasPurge
      <4> QED
        BY <4>1, <4>2
    <3>5. \A x \in DOMAIN c : c[x] \in Nat /\ c[x] <= time
      BY <1>0, <2>1, <3>3 DEF PurgedAt
    <3>6. DOMAIN c \subseteq Lines
      BY <3>1 DEF Contexts
    <3>7. PurgedAt(s)'
      BY <2>1, <3>1, <3>2, <3>4, <3>5, <3>6 DEF PurgedAt
    <3>8. context' \in [CS!SessionIds -> Contexts]
      BY <1>0, <2>3, <3>1
    <3> QED
      BY <1>1, <3>2, <3>7, <3>8
  <2> QED
    BY <1>6, <2>2, <2>3 DEF CS!Observe
<1>7. ASSUME NEW s \in CS!SessionIds, CS!ClaimPurge(s)
      PROVE  Purged'
  <2>1. /\ UNCHANGED <<context, session, time>> /\ CS!HasPurge(s)
        /\ \/ /\ purge[s].tried < MaxAttempts
              /\ purge' = [purge EXCEPT ![s] = [purge[s] EXCEPT !.state = "claimed",
                              !.lease = purge[s].lease + 1, !.tried = purge[s].tried + 1]]
           \/ /\ ~(purge[s].tried < MaxAttempts)
              /\ purge' = [purge EXCEPT ![s] = [purge[s] EXCEPT !.state = "dead"]]
    BY <1>7 DEF CS!ClaimPurge, CS!HasPurge, SessionRows
  <2>2. \/ /\ CS!HasPurge(s)' /\ purge'[s].state = "claimed"
           /\ purge'[s].tried = purge[s].tried + 1
           /\ purge'[s].due = purge[s].due /\ purge'[s].lost = purge[s].lost
        \/ /\ purge'[s].state = "dead" /\ purge'[s].tried >= MaxAttempts /\ ~CS!HasPurge(s)'
    <3>1. purge[s] \in PurgeRow /\ purge \in [CS!SessionIds -> PurgeRow]
      BY DEF SessionRows
    <3>2. CASE purge' = [purge EXCEPT ![s] = [purge[s] EXCEPT !.state = "claimed",
                            !.lease = purge[s].lease + 1, !.tried = purge[s].tried + 1]]
      <4>1. purge'[s] = [purge[s] EXCEPT !.state = "claimed",
                            !.lease = purge[s].lease + 1, !.tried = purge[s].tried + 1]
        BY <3>1, <3>2
      <4> QED
        BY <3>1, <4>1 DEF PurgeRow, CS!HasPurge
    <3>3. CASE /\ ~(purge[s].tried < MaxAttempts)
               /\ purge' = [purge EXCEPT ![s] = [purge[s] EXCEPT !.state = "dead"]]
      <4>1. purge'[s] = [purge[s] EXCEPT !.state = "dead"]
        BY <3>1, <3>3
      <4> QED
        BY <1>0, <3>1, <3>3, <4>1 DEF PurgeRow, CS!HasPurge
    <3> QED
      BY <2>1, <3>2, <3>3
  <2>3. Apart(s) /\ context'[s] = context[s] /\ session'[s] = session[s]
    BY <1>0, <2>1 DEF SessionRows
  <2>4. PurgedAt(s) /\ (CS!HasPurge(s)' /\ Late(s) => Late(s)')
    BY <1>0, <2>1, <2>2 DEF Purged, Late
  <2>5. PurgedAt(s)'
    BY <1>0, <2>1, <2>2, <2>3, <2>4 DEF PurgedAt
  <2> QED
    BY <1>0, <1>1, <2>1, <2>3, <2>5
<1>8. ASSUME NEW s \in CS!SessionIds, NEW rev \in 1..MaxRevision, NEW control \in BOOLEAN,
             NEW approve \in BOOLEAN, CS!DecideSummary(s, rev, control, approve)
      PROVE  Purged'
  <2>1. /\ UNCHANGED <<session, time>> /\ session[s].state = "closed"
        /\ context' = [context EXCEPT ![s] = CS!Nothing]
    BY <1>8 DEF CS!DecideSummary, CS!Reviewed
  <2>2. /\ \A p \in CS!SessionIds \ {s} : purge'[p] = purge[p]
        /\ ~CS!HasPurge(s)'
    <3> DEFINE x == [purge[s] EXCEPT !.state =
                       IF @ \in {"pending", "claimed"} THEN "cancelled" ELSE @]
    <3>1. x.state \notin {"pending", "claimed"}
      BY <1>0 DEF PurgeRow
    <3>2. purge' = [purge EXCEPT ![s] = x]
      BY <1>8 DEF CS!DecideSummary
    <3> HIDE DEF x
    <3> QED
      BY <3>1, <3>2 DEF SessionRows, CS!HasPurge
  <2>3. Apart(s) /\ context'[s] = CS!Nothing
    BY <1>0, <2>1, <2>2
  <2>4. PurgedAt(s)'
    BY <1>3, <2>1, <2>2, <2>3 DEF PurgedAt, CS!HasPurge
  <2>5. context' \in [CS!SessionIds -> Contexts]
    BY <1>0, <1>3, <2>1
  <2> QED
    BY <1>1, <2>3, <2>4, <2>5
<1>9. ASSUME NEW t \in task, NEW model \in BOOLEAN, NEW titled \in SUBSET t.read.people,
             CS!Complete(t, model, titled)
      PROVE  Purged'
  <2>1. t.s \in CS!SessionIds /\ UNCHANGED <<context, purge, time>>
    BY <1>9 DEF SessionRows, CS!Complete
  <2>2. CASE UNCHANGED session
    BY <1>2, <2>1, <2>2
  <2>3. CASE summary[t.s].state = "claimed" /\ session' = [session EXCEPT ![t.s].state = "closed"]
    <3>1. session[t.s].state = "closing"
      BY <2>1, <2>3 DEF Stages, SessionRows, SessionRow
    <3>2. /\ Apart(t.s) /\ session'[t.s].state = "closed"
          /\ session'[t.s].closing = session[t.s].closing
      BY <1>0, <2>1, <2>3 DEF SessionRows, SessionRow
    <3>3. PurgedAt(t.s)
      BY <2>1 DEF Purged
    <3>4. PurgedAt(t.s)'
      BY <2>1, <3>1, <3>2, <3>3 DEF PurgedAt, CS!HasPurge, Late
    <3> QED
      BY <1>0, <1>1, <2>1, <3>2, <3>4
  <2> QED
    BY <1>9, <2>2, <2>3 DEF CS!Complete
<1>10. ASSUME NEW t \in task, CS!PurgeContext(t)
       PROVE  Purged'
  <2> DEFINE s     == t.s
             ended == session[s].state \in {"closing", "closed"}
             early == ended /\ time < session[s].closing + Retention
             kept  == IF s \in CS!Open THEN CS!Fresh(s)
                      ELSE IF early THEN context[s] ELSE CS!Nothing
             due   == IF s \in CS!Open THEN CS!Oldest(kept) + Retention
                      ELSE session[s].closing + Retention
             again == IF s \in CS!Open THEN DOMAIN kept # {} ELSE early
  <2>1. s \in CS!SessionIds /\ UNCHANGED <<session, time>>
    BY <1>10 DEF SessionRows, CS!PurgeContext, CS!Purging
  <2>2. CASE UNCHANGED <<context, purge>>
    BY <1>2, <2>1, <2>2
  <2>3. CASE /\ context' = [context EXCEPT ![s] = kept]
             /\ purge' = [purge EXCEPT ![s] =
                  IF again THEN [CS!Waiting(s, due) EXCEPT !.tried = @ - 1]
                  ELSE [@ EXCEPT !.state = "completed"]]
             /\ purge[s].state = "claimed"
    <3>1. PurgedAt(s) /\ CS!HasPurge(s)
      BY <2>1, <2>3 DEF Purged, CS!HasPurge
    <3>2. CASE s \in CS!Open /\ DOMAIN CS!Fresh(s) # {}
      <4>1. /\ Apart(s) /\ context'[s] = CS!Fresh(s)
            /\ purge'[s] = [CS!Waiting(s, CS!Oldest(CS!Fresh(s)) + Retention) EXCEPT !.tried = @ - 1]
        BY <1>0, <2>1, <2>3, <3>2 DEF SessionRows
      <4>2. \A l \in DOMAIN CS!Fresh(s) : CS!Fresh(s)[l] \in Nat /\ CS!Fresh(s)[l] <= time
        BY <2>1, <3>1, FreshContext DEF PurgedAt
      <4>3. /\ CS!Oldest(CS!Fresh(s)) \in Nat /\ CS!Oldest(CS!Fresh(s)) <= time
            /\ \A l \in DOMAIN CS!Fresh(s) : CS!Oldest(CS!Fresh(s)) <= CS!Fresh(s)[l]
        BY <3>2, <4>2, OldestIs
      <4>4. purge'[s].state = "pending" /\ purge'[s].due = CS!Oldest(CS!Fresh(s)) + Retention
        BY <1>0, <2>1, <4>1, <4>3, WaitedRow
      <4>5. session[s].state = "open"
        BY <3>2 DEF CS!Open
      <4>6. PurgedAt(s)'
        BY <1>0, <2>1, <3>1, <4>1, <4>2, <4>3, <4>4, <4>5, FreshContext DEF PurgedAt, CS!HasPurge
      <4>7. context' \in [CS!SessionIds -> Contexts]
        BY <1>0, <2>1, <2>3, <3>2, FreshContext
      <4> QED
        BY <1>1, <2>1, <4>1, <4>6, <4>7
    <3>3. CASE s \notin CS!Open /\ early
      <4>1. /\ Apart(s) /\ context'[s] = context[s]
            /\ purge'[s] = [CS!Waiting(s, session[s].closing + Retention) EXCEPT !.tried = @ - 1]
        BY <1>0, <2>1, <2>3, <3>3 DEF SessionRows
      <4>2. session[s].closing + Retention \in Int
        BY <1>0, <2>1 DEF SessionRow
      <4>3. purge'[s].state = "pending" /\ purge'[s].due = session[s].closing + Retention
        BY <2>1, <4>1, <4>2, WaitedRow
      <4>4. PurgedAt(s)'
        BY <1>0, <2>1, <3>1, <3>3, <4>1, <4>2, <4>3 DEF PurgedAt, CS!HasPurge
      <4>5. context' \in [CS!SessionIds -> Contexts]
        BY <1>0, <2>1, <2>3, <3>3
      <4> QED
        BY <1>1, <2>1, <4>1, <4>4, <4>5
    <3>4. CASE IF s \in CS!Open THEN DOMAIN CS!Fresh(s) = {} ELSE ~early
      <4>1. kept \in Contexts /\ DOMAIN kept = {} /\ ~again
        BY <1>3, <2>1, <3>4, FreshContext
      <4> HIDE DEF kept, again, due
      <4>2. /\ Apart(s) /\ context'[s] = kept
            /\ purge'[s] = [purge[s] EXCEPT !.state = "completed"]
        BY <1>0, <2>1, <2>3, <4>1 DEF SessionRows
      <4>3. ~CS!HasPurge(s)'
        BY <1>0, <2>1, <4>2 DEF PurgeRow, CS!HasPurge
      <4>4. PurgedAt(s)'
        BY <1>3, <4>1, <4>2, <4>3 DEF PurgedAt, CS!HasPurge
      <4>5. context' \in [CS!SessionIds -> Contexts]
        BY <1>0, <2>1, <2>3, <4>1
      <4> QED
        BY <1>1, <2>1, <4>2, <4>4, <4>5
    <3> QED
      BY <3>2, <3>3, <3>4
  <2> QED
    BY <1>10, <2>2, <2>3 DEF CS!PurgeContext, CS!Current
<1>12. ASSUME NEW t \in task, CS!PurgeFails(t) \/ CS!PurgeReleased(t)
       PROVE  Purged'
  <2>1. /\ t.s \in CS!SessionIds /\ purge[t.s].state = "claimed"
        /\ UNCHANGED <<context, session, time>>
    BY <1>12 DEF SessionRows, CS!PurgeFails, CS!PurgeReleased, CS!Current
  <2>2. \/ purge' = [purge EXCEPT ![t.s] = CS!Failed(purge[t.s])]
        \/ purge' = [purge EXCEPT ![t.s] = [purge[t.s] EXCEPT !.state = "pending", !.tried = @ - 1]]
    BY <1>12, <2>1 DEF CS!PurgeFails, CS!PurgeReleased, SessionRows
  <2>3. \/ purge'[t.s] = CS!Failed(purge[t.s])
        \/ purge'[t.s] = [purge[t.s] EXCEPT !.state = "pending", !.tried = @ - 1]
    BY <2>1, <2>2 DEF SessionRows
  <2>4. PurgedAt(t.s) /\ CS!HasPurge(t.s) /\ purge[t.s].tried >= 1
    BY <2>1 DEF Purged, PurgedAt, CS!HasPurge
  <2>5. Apart(t.s) /\ context'[t.s] = context[t.s] /\ session'[t.s] = session[t.s]
    BY <1>0, <2>1, <2>2 DEF SessionRows
  <2>6. \/ Late(t.s)' /\ purge'[t.s].state = "pending"
        \/ purge'[t.s].state = "dead" /\ purge'[t.s].tried >= MaxAttempts
        \/ /\ purge'[t.s].state = "pending" /\ (Late(t.s) => Late(t.s)')
           /\ purge'[t.s].due = purge[t.s].due /\ purge'[t.s].lost = purge[t.s].lost
    <3>1. CASE purge'[t.s] = CS!Failed(purge[t.s])
      BY <1>0, <2>1, <2>4, <3>1 DEF CS!Failed, Late, PurgeRow
    <3>2. CASE purge'[t.s] = [purge[t.s] EXCEPT !.state = "pending", !.tried = @ - 1]
      BY <1>0, <2>1, <3>2 DEF Late, PurgeRow
    <3> QED
      BY <2>3, <3>1, <3>2
  <2>7. PurgedAt(t.s)'
    BY <1>0, <2>1, <2>4, <2>5, <2>6 DEF PurgedAt, CS!HasPurge
  <2> QED
    BY <1>0, <1>1, <2>1, <2>5, <2>7
<1>11. CASE UNCHANGED CS!vars
  BY <1>2, <1>11 DEF CS!vars, CS!rows
<1> QED
  BY <1>2, <1>4, <1>5, <1>6, <1>7, <1>8, <1>9, <1>10, <1>11, <1>12,
     PurgeFrames

-----------------------------------------------------------------------------
(* Titles                                                                  *)

(* Steps that leave the titles alone add no award, and a summary that was  *)
(* written stays until it is rejected.                                     *)
NewNames(E) == \A e \in E : e \in Entries \/ \E s \in CS!SessionIds : e = CS!Chapter(s)
KeepsTitles ==
  /\ grant' = grant
  /\ \E E : DOMAIN record' = DOMAIN record \cup E /\ NewNames(E)
  /\ \A s \in CS!SessionIds : chapter[s].state \in {"pending", "approved"} =>
                             chapter'[s].state \in {"pending", "approved"}

LEMMA SameEntries ==
  ASSUME SessionRows, grant' = grant, DOMAIN record' = DOMAIN record,
         \A s \in CS!SessionIds : chapter[s].state \in {"pending", "approved"} =>
                                 chapter'[s].state \in {"pending", "approved"}
  PROVE  KeepsTitles
<1>1. DOMAIN record' = DOMAIN record \cup {} /\ NewNames({})
  BY DEF NewNames
<1> QED
  BY <1>1 DEF KeepsTitles

LEMMA Awards ==
  ASSUME NEW g, NEW h
  PROVE  /\ CS!Award(g) = CS!Award(h) => g = h
         /\ \A s \in CS!SessionIds : CS!Award(g) # CS!Chapter(s)
BY DEF CS!Award, CS!Chapter

LEMMA AwardIsNoEntry ==
  ASSUME CS!SessionAssumption, NEW g \in Grants
  PROVE  CS!Award(g) \notin Entries
<1>1. ASSUME NEW e \in Entries
      PROVE  e # CS!Award(g)
  <2>1. \A h \in CS!Names \X Members : e # CS!Award(h)
    BY Zenon DEF CS!SessionAssumption
  <2>2. g \in CS!Names \X Members
    BY DEF Grants
  <2> QED
    BY <2>1, <2>2, Zenon
<1> QED
  BY <1>1

LEMMA DecidedIs ==
  ASSUME NEW g, grant[g] \in GrantRow,
         NEW state \in {"proposed", "active", "rejected", "revoked"}, NEW featured \in BOOLEAN
  PROVE  /\ CS!Decided(g, state, featured) \in GrantRow
         /\ CS!Decided(g, state, featured).state = state
         /\ CS!Decided(g, state, featured).featured = featured
         /\ CS!Decided(g, state, featured).who = grant[g].who
<1> DEFINE row    == grant[g]
           New(n) == [row EXCEPT !.state = state, !.featured = featured, !.rev = n]
<1>1. row.rev + 1 \in Nat /\ CS!Decided(g, state, featured) = New(row.rev + 1)
  BY DEF GrantRow, CS!Decided
<1> HIDE DEF row
<1>2. ASSUME NEW n \in Nat
      PROVE  New(n) \in GrantRow /\ New(n).state = state /\ New(n).who = row.who
  BY DEF GrantRow, row
<1>3. ASSUME NEW n \in Nat
      PROVE  New(n).featured = featured
  BY DEF GrantRow, row
<1> HIDE DEF New
<1>4. grant[g].who = row.who
  BY DEF row
<1> QED
  BY <1>1, <1>2, <1>3, <1>4

(* There is no award yet of a title that nobody has proposed.              *)
LEMMA NoAwardYet ==
  ASSUME CS!SessionAssumption, GrantsTyped, NEW g \in Grants, g \notin DOMAIN grant
  PROVE  CS!Award(g) \notin DOMAIN record
<1> SUFFICES ASSUME CS!Award(g) \in DOMAIN record
             PROVE  FALSE
  OBVIOUS
<1>1. CS!Award(g) \notin Entries
  BY AwardIsNoEntry
<1>2. PICK h \in DOMAIN grant : CS!Award(g) = CS!Award(h)
  BY <1>1, Awards DEF GrantsTyped
<1> QED
  BY <1>2, Awards

LEMMA KeepsTitlesKept ==
  ASSUME CS!SessionAssumption, GrantsTyped, CS!TitlesAreSettled, KeepsTitles
  PROVE  GrantsTyped' /\ CS!TitlesAreSettled'
<1>1. PICK E : DOMAIN record' = DOMAIN record \cup E /\ NewNames(E)
  BY DEF KeepsTitles
<1>2. grant' = grant
  BY DEF KeepsTitles
<1>3. \A g \in DOMAIN grant : CS!Award(g) \notin E
  <2> SUFFICES ASSUME NEW g \in DOMAIN grant, CS!Award(g) \in E
               PROVE  FALSE
    OBVIOUS
  <2>1. g \in Grants
    BY DEF GrantsTyped
  <2>2. CS!Award(g) \notin Entries
    BY <2>1, AwardIsNoEntry
  <2> QED
    BY <1>1, <2>2, Awards DEF NewNames
<1>4. GrantsTyped'
  BY <1>1, <1>2 DEF GrantsTyped, NewNames
<1>5. CS!TitlesAreSettled'
  BY <1>1, <1>2, <1>3 DEF CS!TitlesAreSettled, KeepsTitles
<1> QED
  BY <1>4, <1>5

(* New titles are proposed ones.                                           *)
LEMMA ProposedKept ==
  ASSUME CS!SessionAssumption, GrantsTyped, CS!TitlesAreSettled, NEW N \in SUBSET Grants,
         DOMAIN grant' = DOMAIN grant \cup N, UNCHANGED record,
         \A g \in DOMAIN grant : grant'[g] = grant[g],
         \A g \in N \ DOMAIN grant : grant'[g] = CS!Grant(g[2]),
         \A s \in CS!SessionIds : chapter'[s].state = chapter[s].state,
         \A g \in N : g[1] \in CS!SessionIds => chapter[g[1]].state \in {"pending", "approved"}
  PROVE  GrantsTyped' /\ CS!TitlesAreSettled'
<1>1. ASSUME NEW g \in N \ DOMAIN grant
      PROVE  /\ grant'[g] \in GrantRow /\ grant'[g].state = "proposed" /\ ~grant'[g].featured
             /\ CS!Award(g) \notin DOMAIN record
  <2>1. g \in Grants /\ g[2] \in Members
    BY DEF Grants
  <2>2. CS!Award(g) \notin DOMAIN record
    BY <2>1, NoAwardYet
  <2>3. /\ CS!Grant(g[2]) \in GrantRow /\ CS!Grant(g[2]).state = "proposed"
        /\ CS!Grant(g[2]).featured = FALSE
    BY <2>1 DEF GrantRow, CS!Grant
  <2> QED
    BY <2>2, <2>3
<1>2. GrantsTyped'
  BY <1>1 DEF GrantsTyped
<1>3. ASSUME NEW g \in DOMAIN grant'
      PROVE  /\ grant'[g].featured => g \in DOMAIN grant /\ grant'[g].state = "active"
             /\ grant'[g].state \in {"active", "revoked"} <=> CS!Award(g) \in DOMAIN record
             /\ g[1] \in CS!SessionIds /\ grant'[g].state = "proposed" =>
                  chapter[g[1]].state \in {"pending", "approved"}
  <2>1. CASE g \in DOMAIN grant
    BY <2>1 DEF CS!TitlesAreSettled
  <2>2. CASE g \notin DOMAIN grant
    BY <1>1, <2>2
  <2> QED
    BY <2>1, <2>2
<1>4. ASSUME NEW g \in DOMAIN grant', NEW h \in DOMAIN grant',
             grant'[g].featured, grant'[h].featured, grant'[g].who = grant'[h].who
      PROVE  g = h
  BY <1>3, <1>4 DEF CS!TitlesAreSettled
<1> QED
  BY <1>2, <1>3, <1>4 DEF CS!TitlesAreSettled

(* One title that was there is decided; others are at most no more featured *)
(* and proposed titles stay so or are rejected.                            *)
TitleStays(h) ==
  /\ grant'[h].who = grant[h].who
  /\ grant'[h].featured => grant'[h].state = "active"
  /\ grant'[h].state \in {"active", "revoked"} <=> grant[h].state \in {"active", "revoked"}
  /\ grant'[h].state = "proposed" => grant[h].state = "proposed"

LEMMA DecidedKept ==
  ASSUME CS!SessionAssumption, GrantsTyped, CS!TitlesAreSettled,
         DOMAIN grant' = DOMAIN grant, UNCHANGED record,
         \A h \in DOMAIN grant : grant'[h] \in GrantRow /\ TitleStays(h),
         \A g, h \in DOMAIN grant :
            grant'[g].featured /\ grant'[h].featured /\ grant[g].who = grant[h].who => g = h,
         \A h \in DOMAIN grant : h[1] \in CS!SessionIds /\ grant'[h].state = "proposed" =>
            chapter'[h[1]].state = chapter[h[1]].state
  PROVE  GrantsTyped' /\ CS!TitlesAreSettled'
<1>1. GrantsTyped'
  BY DEF GrantsTyped
<1>2. \A h \in DOMAIN grant : h[1] \in CS!SessionIds /\ grant'[h].state = "proposed" =>
        chapter'[h[1]].state \in {"pending", "approved"}
  BY DEF CS!TitlesAreSettled, TitleStays
<1>3. \A h \in DOMAIN grant :
        grant'[h].state \in {"active", "revoked"} <=> CS!Award(h) \in DOMAIN record
  BY DEF CS!TitlesAreSettled, TitleStays
<1> QED
  BY <1>1, <1>2, <1>3 DEF CS!TitlesAreSettled, TitleStays

LEMMA TitlesKept ==
  ASSUME CS!SessionAssumption, SessionRows, Stages, GrantsTyped, CS!TitlesAreSettled,
         [CS!Next]_(CS!vars)
  PROVE  GrantsTyped' /\ CS!TitlesAreSettled'
<1>1. CASE KeepsTitles
  BY <1>1, KeepsTitlesKept
<1>2. CASE UNCHANGED CS!vars
  BY <1>1, <1>2, SameEntries DEF CS!vars, CS!rows
<1>3. CASE CS!EntryStep
  <2>1. ASSUME NEW e \in Entries, CS!EntryProposed(e)
        PROVE  KeepsTitles
    <3>1. DOMAIN record' = DOMAIN record \cup {e} /\ NewNames({e})
      BY <2>1, WithIs DEF CS!EntryProposed, NewNames
    <3> QED
      BY <2>1, <3>1 DEF KeepsTitles, CS!EntryProposed
  <2>2. ASSUME NEW e \in Entries, CS!EntryCanon(e)
        PROVE  KeepsTitles
    BY <2>2, SameEntries DEF CS!EntryCanon
  <2>3. ASSUME NEW e \in DOMAIN record, NEW u \in Members, CS!EntryRetracted(e, u)
        PROVE  KeepsTitles
    BY <2>3, SameEntries DEF CS!EntryRetracted
  <2> QED
    BY <1>1, <1>3, <2>1, <2>2, <2>3 DEF CS!EntryStep
<1>4. ASSUME NEW t \in task,
             CS!Read(t) \/ CS!PurgeContext(t) \/ CS!PurgeFails(t) \/ CS!PurgeReleased(t)
      PROVE  KeepsTitles
  BY <1>4, SameEntries DEF CS!Read, CS!PurgeContext, CS!PurgeFails, CS!PurgeReleased, CS!rows
<1>5. ASSUME NEW t \in task, NEW model \in BOOLEAN, NEW titled \in SUBSET t.read.people,
             CS!Complete(t, model, titled)
      PROVE  GrantsTyped' /\ CS!TitlesAreSettled'
  <2>1. t.s \in CS!SessionIds /\ titled \subseteq Members /\ UNCHANGED record
    BY <1>5 DEF SessionRows, CS!Complete
  <2>2. CASE UNCHANGED <<chapter, grant>>
    BY <1>1, <2>1, <2>2, SameEntries
  <2> DEFINE rev == IF model THEN chapter[t.s].rev + 1 ELSE chapter[t.s].rev
             N   == {<<t.s, u>> : u \in titled}
  <2>3. CASE /\ summary[t.s].state = "claimed"
             /\ chapter' = [chapter EXCEPT ![t.s].rev = rev,
                                           ![t.s].source = IF model THEN "model" ELSE @]
             /\ grant' = [g \in DOMAIN grant \cup {<<t.s, u>> : u \in titled} |->
                            IF g \in DOMAIN grant THEN grant[g] ELSE CS!Grant(g[2])]
    <3>1. session[t.s].state = "closing"
      BY <2>1, <2>3 DEF Stages, SessionRows, SessionRow
    <3>2. chapter[t.s].state = "pending"
      BY <2>1, <3>1 DEF Stages
    <3> HIDE DEF rev
    <3>3. \A p \in CS!SessionIds : chapter'[p].state = chapter[p].state
      BY <2>1, <2>3 DEF SessionRows, DraftRow
    <3>4. N \in SUBSET Grants
      BY <2>1 DEF Grants, CS!Names
    <3>5. \A g \in N : g[1] = t.s
      OBVIOUS
    <3>6. /\ DOMAIN grant' = DOMAIN grant \cup N
          /\ \A g \in DOMAIN grant : grant'[g] = grant[g]
          /\ \A g \in N \ DOMAIN grant : grant'[g] = CS!Grant(g[2])
      BY <2>3
    <3> HIDE DEF N
    <3>7. \A g \in N : g[1] \in CS!SessionIds => chapter[g[1]].state \in {"pending", "approved"}
      BY <3>2, <3>5
    <3> QED
      BY <2>1, <3>3, <3>4, <3>6, <3>7, ProposedKept
  <2> QED
    BY <1>5, <2>2, <2>3 DEF CS!Complete
<1>6. ASSUME NEW s \in CS!SessionIds,
             \/ \E u \in Members : CS!Start(u, s)
             \/ \E l \in Lines : CS!Observe(l, s)
             \/ CS!ClaimSummary(s) \/ CS!ClaimPurge(s) \/ CS!LeaseLapses(s) \/ CS!ShowNotice(s)
      PROVE  KeepsTitles
  BY <1>6, SameEntries DEF CS!Start, CS!Observe, CS!ClaimSummary, CS!ClaimPurge,
                           CS!LeaseLapses, CS!ShowNotice
<1>7. ASSUME NEW s \in CS!SessionIds, NEW u \in Members, CS!Close(u, s)
      PROVE  KeepsTitles
  <2>1. \A p \in CS!SessionIds : chapter'[p] = chapter[p] \/ chapter'[p].state = "pending"
    BY <1>7 DEF CS!Close, CS!Abandon, SessionRows
  <2> QED
    BY <1>7, <2>1, SameEntries DEF CS!Close
<1>8. ASSUME NEW s \in CS!SessionIds, NEW rev \in 1..MaxRevision, NEW control \in BOOLEAN,
             CS!EditSummary(s, rev, control)
      PROVE  KeepsTitles
  <2>1. \A p \in CS!SessionIds : chapter'[p].state = chapter[p].state
    BY <1>8 DEF CS!EditSummary, SessionRows, DraftRow
  <2> QED
    BY <1>8, <2>1, SameEntries DEF CS!EditSummary
<1>9. ASSUME NEW s \in CS!SessionIds, NEW rev \in 1..MaxRevision, NEW control \in BOOLEAN,
             NEW approve \in BOOLEAN, CS!DecideSummary(s, rev, control, approve)
      PROVE  GrantsTyped' /\ CS!TitlesAreSettled'
  <2>1. /\ \A p \in CS!SessionIds \ {s} : chapter'[p] = chapter[p]
        /\ chapter'[s].state = IF approve THEN "approved" ELSE "rejected"
    BY <1>9 DEF CS!DecideSummary, SessionRows, DraftRow
  <2>2. CASE approve
    <3>1. DOMAIN record' = DOMAIN record \cup {CS!Chapter(s)} /\ NewNames({CS!Chapter(s)})
      BY <1>9, <2>2, WithIs DEF CS!DecideSummary, NewNames
    <3>2. grant' = grant
      BY <1>9, <2>2 DEF CS!DecideSummary
    <3>3. \A p \in CS!SessionIds : chapter[p].state \in {"pending", "approved"} =>
                                  chapter'[p].state \in {"pending", "approved"}
      BY <2>1, <2>2
    <3> QED
      BY <1>1, <3>1, <3>2, <3>3 DEF KeepsTitles
  <2>3. CASE ~approve
    <3>1. /\ UNCHANGED record /\ DOMAIN grant' = DOMAIN grant
          /\ \A h \in DOMAIN grant :
               grant'[h] = IF h[1] = s /\ grant[h].state = "proposed"
                           THEN [grant[h] EXCEPT !.state = "rejected", !.rev = @ + 1]
                           ELSE grant[h]
      BY <1>9, <2>3 DEF CS!DecideSummary
    <3>2. ASSUME NEW h \in DOMAIN grant
          PROVE  /\ grant'[h] \in GrantRow /\ TitleStays(h)
                 /\ grant'[h].featured => grant[h].featured
                 /\ grant'[h].state = "proposed" => h[1] # s
      <4>1. grant[h] \in GrantRow /\ (grant[h].featured => grant[h].state = "active")
        BY DEF GrantsTyped, CS!TitlesAreSettled
      <4>2. CASE h[1] = s /\ grant[h].state = "proposed"
        <5> DEFINE x == [grant[h] EXCEPT !.state = "rejected", !.rev = @ + 1]
        <5>1. /\ x \in GrantRow /\ x.state = "rejected"
              /\ x.who = grant[h].who /\ x.featured = grant[h].featured
          <6>1. grant[h].rev + 1 \in Nat
            BY <4>1 DEF GrantRow
          <6>2. ASSUME NEW n \in Nat
                PROVE  LET new == [grant[h] EXCEPT !.state = "rejected", !.rev = n]
                       IN  /\ new \in GrantRow /\ new.state = "rejected"
                           /\ new.who = grant[h].who /\ new.featured = grant[h].featured
            BY <4>1 DEF GrantRow
          <6> QED
            BY <6>1, <6>2
        <5>2. grant'[h] = x
          BY <3>1, <4>2
        <5> HIDE DEF x
        <5> QED
          BY <4>1, <4>2, <5>1, <5>2 DEF TitleStays
      <4>3. CASE ~(h[1] = s /\ grant[h].state = "proposed")
        BY <3>1, <4>1, <4>3 DEF TitleStays
      <4> QED
        BY <4>2, <4>3
    <3>3. \A g, h \in DOMAIN grant :
            grant'[g].featured /\ grant'[h].featured /\ grant[g].who = grant[h].who => g = h
      BY <3>2 DEF CS!TitlesAreSettled
    <3> QED
      BY <2>1, <3>1, <3>2, <3>3, DecidedKept
  <2> QED
    BY <2>2, <2>3
<1>10. CASE CS!Tick \/ \E u \in Members : CS!SetConsent(u)
  BY <1>1, <1>10, SameEntries DEF CS!Tick, CS!SetConsent, CS!rows
<1>11. CASE CS!TaskStep
  BY <1>1, <1>4, <1>5, <1>11 DEF CS!TaskStep
<1>12. CASE CS!SessionStep
  BY <1>1, <1>6, <1>7, <1>8, <1>9, <1>12 DEF CS!SessionStep, CS!ByCommand, CS!ByControl
<1>13. ASSUME NEW c \in Curated, NEW u \in Members, CS!ProposeTitle(c, u)
       PROVE  GrantsTyped' /\ CS!TitlesAreSettled'
  <2> DEFINE N == {<<c, u>>}
  <2>1. /\ N \in SUBSET Grants /\ \A g \in N : g[1] = c /\ g[2] = u
        /\ c \notin CS!SessionIds
    BY DEF Grants, CS!Names, CS!SessionAssumption
  <2>2. /\ DOMAIN grant' = DOMAIN grant \cup N /\ UNCHANGED <<record, chapter>>
        /\ \A g \in DOMAIN grant : grant'[g] = grant[g]
        /\ \A g \in N : grant'[g] = CS!Grant(u)
    <3> DEFINE p == <<c, u>>
    <3>1. grant' = CS!With(grant, p, CS!Grant(u)) /\ UNCHANGED <<record, chapter>>
      BY <1>13 DEF CS!ProposeTitle
    <3>2. p \notin DOMAIN grant /\ N = {p}
      BY <1>13 DEF CS!ProposeTitle
    <3> HIDE DEF p, N
    <3>3. /\ DOMAIN grant' = DOMAIN grant \cup {p} /\ grant'[p] = CS!Grant(u)
          /\ \A g \in DOMAIN grant \ {p} : grant'[g] = grant[g]
      <4> DEFINE new == CS!With(grant, p, CS!Grant(u))
      <4>1. /\ DOMAIN new = DOMAIN grant \cup {p} /\ new[p] = CS!Grant(u)
            /\ \A g \in DOMAIN grant \ {p} : new[g] = grant[g]
        BY DEF CS!With
      <4>2. grant' = new
        BY <3>1
      <4> HIDE DEF new
      <4> QED
        BY <4>1, <4>2
    <3> QED
      BY <3>1, <3>2, <3>3
  <2> HIDE DEF N
  <2>3. \A g \in N \ DOMAIN grant : grant'[g] = CS!Grant(g[2])
    BY <2>1, <2>2
  <2>4. \A s \in CS!SessionIds : chapter'[s].state = chapter[s].state
    BY <2>2
  <2>5. \A g \in N : g[1] \in CS!SessionIds => chapter[g[1]].state \in {"pending", "approved"}
    BY <2>1
  <2> QED
    BY <2>1, <2>2, <2>3, <2>4, <2>5, ProposedKept
<1>14. ASSUME NEW g \in DOMAIN grant, NEW state \in {"rejected", "revoked"},
              grant[g].state = IF state = "rejected" THEN "proposed" ELSE "active",
              grant' = [grant EXCEPT ![g] = CS!Decided(g, state, FALSE)],
              UNCHANGED <<record, chapter>>
       PROVE  GrantsTyped' /\ CS!TitlesAreSettled'
  <2>1. /\ CS!Decided(g, state, FALSE) \in GrantRow /\ CS!Decided(g, state, FALSE).state = state
        /\ CS!Decided(g, state, FALSE).who = grant[g].who
        /\ CS!Decided(g, state, FALSE).featured = FALSE
    <3>1. grant[g] \in GrantRow /\ FALSE \in BOOLEAN
          /\ state \in {"proposed", "active", "rejected", "revoked"}
      BY DEF GrantsTyped
    <3> QED
      BY <3>1, DecidedIs
  <2>2. /\ DOMAIN grant' = DOMAIN grant /\ grant'[g] = CS!Decided(g, state, FALSE)
        /\ \A h \in DOMAIN grant \ {g} : grant'[h] = grant[h]
    BY <1>14
  <2>3. ASSUME NEW h \in DOMAIN grant
        PROVE  /\ grant'[h] \in GrantRow /\ TitleStays(h)
               /\ grant'[h].featured => grant[h].featured
    BY <1>14, <2>1, <2>2 DEF GrantsTyped, CS!TitlesAreSettled, TitleStays
  <2>4. \A f, h \in DOMAIN grant :
          grant'[f].featured /\ grant'[h].featured /\ grant[f].who = grant[h].who => f = h
    BY <2>3 DEF CS!TitlesAreSettled
  <2> QED
    BY <1>14, <2>2, <2>3, <2>4, DecidedKept
<1>15. ASSUME NEW g \in DOMAIN grant, CS!RejectTitle(g) \/ \E u \in Members : CS!RevokeTitle(g, u)
       PROVE  GrantsTyped' /\ CS!TitlesAreSettled'
  BY <1>14, <1>15 DEF CS!RejectTitle, CS!RevokeTitle
<1>16. ASSUME NEW g \in DOMAIN grant, CS!FeatureTitle(g)
       PROVE  GrantsTyped' /\ CS!TitlesAreSettled'
  <2>1. /\ CS!Decided(g, "active", TRUE) \in GrantRow
        /\ CS!Decided(g, "active", TRUE).state = "active"
        /\ CS!Decided(g, "active", TRUE).who = grant[g].who
    BY DecidedIs DEF GrantsTyped
  <2>2. /\ grant[g].state = "active" /\ UNCHANGED <<record, chapter>>
        /\ DOMAIN grant' = DOMAIN grant /\ grant'[g] = CS!Decided(g, "active", TRUE)
        /\ \A h \in DOMAIN grant \ {g} :
             grant'[h] = IF grant[h].who = grant[g].who /\ grant[h].featured
                         THEN [grant[h] EXCEPT !.featured = FALSE, !.rev = @ + 1]
                         ELSE grant[h]
    BY <1>16 DEF CS!FeatureTitle
  <2>3. ASSUME NEW h \in DOMAIN grant \ {g}
        PROVE  /\ grant'[h] \in GrantRow /\ TitleStays(h)
               /\ grant'[h].featured => grant[h].featured /\ grant[h].who # grant[g].who
    <3>1. grant[h] \in GrantRow /\ (grant[h].featured => grant[h].state = "active")
      BY DEF GrantsTyped, CS!TitlesAreSettled
    <3>2. CASE grant[h].who = grant[g].who /\ grant[h].featured
      <4> DEFINE x == [grant[h] EXCEPT !.featured = FALSE, !.rev = @ + 1]
      <4>1. x \in GrantRow /\ x.state = grant[h].state /\ x.who = grant[h].who /\ ~x.featured
        <5>1. grant[h].rev + 1 \in Nat
          BY <3>1 DEF GrantRow
        <5>2. ASSUME NEW n \in Nat
              PROVE  LET new == [grant[h] EXCEPT !.featured = FALSE, !.rev = n]
                     IN  /\ new \in GrantRow /\ new.state = grant[h].state
                         /\ new.who = grant[h].who /\ new.featured = FALSE
          BY <3>1 DEF GrantRow
        <5> QED
          BY <5>1, <5>2
      <4>2. grant'[h] = x
        BY <2>2, <3>2
      <4> HIDE DEF x
      <4> QED
        BY <4>1, <4>2 DEF TitleStays
    <3>3. CASE ~(grant[h].who = grant[g].who /\ grant[h].featured)
      BY <2>2, <3>1, <3>3 DEF TitleStays
    <3> QED
      BY <3>2, <3>3
  <2>4. grant'[g] \in GrantRow /\ TitleStays(g)
    BY <2>1, <2>2 DEF TitleStays
  <2>5. \A f, h \in DOMAIN grant :
          grant'[f].featured /\ grant'[h].featured /\ grant[f].who = grant[h].who => f = h
    BY <2>3 DEF CS!TitlesAreSettled
  <2> QED
    BY <2>2, <2>3, <2>4, <2>5, DecidedKept
<1>17. ASSUME NEW g \in DOMAIN grant, CS!ApproveTitle(g)
       PROVE  GrantsTyped' /\ CS!TitlesAreSettled'
  <2> DEFINE first == CS!Awarded(grant[g].who) = {}
             row   == CS!Decided(g, "active", first)
  <2>1. /\ row \in GrantRow /\ row.state = "active" /\ row.who = grant[g].who
        /\ row.featured <=> first
    <3>1. grant[g] \in GrantRow /\ first \in BOOLEAN
      BY DEF GrantsTyped
    <3> HIDE DEF first
    <3>2. row \in GrantRow /\ row.state = "active" /\ row.who = grant[g].who /\ row.featured = first
      BY <3>1, DecidedIs
    <3> HIDE DEF row
    <3> QED
      BY <3>1, <3>2
  <2>2. /\ grant[g].state = "proposed" /\ UNCHANGED chapter
        /\ DOMAIN grant' = DOMAIN grant /\ grant'[g] = row
        /\ \A h \in DOMAIN grant \ {g} : grant'[h] = grant[h]
        /\ DOMAIN record' = DOMAIN record \cup {CS!Award(g)}
    BY <1>17, WithIs DEF CS!ApproveTitle
  <2> HIDE DEF row
  <2>3. \A h \in DOMAIN grant \ {g} :
          first => ~(grant[h].featured /\ grant[h].who = grant[g].who)
    BY DEF CS!TitlesAreSettled, CS!Awarded
  <2>4. GrantsTyped'
    BY <2>1, <2>2 DEF GrantsTyped
  <2>5. \A f, h \in DOMAIN grant :
          grant'[f].featured /\ grant'[h].featured /\ grant'[f].who = grant'[h].who => f = h
    BY <2>1, <2>2, <2>3 DEF CS!TitlesAreSettled
  <2>6. ASSUME NEW h \in DOMAIN grant
        PROVE  /\ grant'[h].featured => grant'[h].state = "active"
               /\ grant'[h].state \in {"active", "revoked"} <=> CS!Award(h) \in DOMAIN record'
               /\ h[1] \in CS!SessionIds /\ grant'[h].state = "proposed" =>
                    chapter'[h[1]].state \in {"pending", "approved"}
    <3>1. CASE h = g
      BY <2>1, <2>2, <3>1
    <3>2. CASE h # g
      <4>1. CS!Award(h) # CS!Award(g)
        BY <3>2, Awards
      <4> QED
        BY <2>2, <3>2, <4>1 DEF CS!TitlesAreSettled
    <3> QED
      BY <3>1, <3>2
  <2> QED
    BY <2>2, <2>4, <2>5, <2>6 DEF CS!TitlesAreSettled
<1>18. CASE CS!TitleStep
  BY <1>13, <1>15, <1>16, <1>17, <1>18 DEF CS!TitleStep
<1> QED
  BY <1>2, <1>3, <1>10, <1>11, <1>12, <1>18 DEF CS!Next

-----------------------------------------------------------------------------
(* What holds of sessions                                                  *)

LEMMA SessionsStart ==
  ASSUME CS!SessionAssumption, CS!Init
  PROVE  SInv
<1>1. Owner \in Members
  BY DEF CS!SessionAssumption
<1>2. SessionRows
  BY <1>1 DEF SessionRows, CS!Init, SessionRow, DraftRow, ReviewRow, JobRow, PurgeRow, CS!NoReview,
              CS!Nothing
<1>3. Stages
  BY DEF Stages, CS!Init, CS!NoReview
<1>4. OneSession
  BY DEF OneSession, CS!Active, CS!Init
<1>5. DOMAIN grant = {} /\ DOMAIN record = {}
  BY DEF CS!Init, CS!Nothing
<1>6. GrantsTyped /\ CS!TitlesAreSettled
  BY <1>5 DEF GrantsTyped, CS!TitlesAreSettled
<1>7. Purged
  <2>1. CS!Nothing \in Contexts /\ DOMAIN CS!Nothing = {} /\ Cardinality({}) = 0 /\ 0 <= MaxContext
    <3>1. CS!Nothing \in [{} -> Nat] /\ DOMAIN CS!Nothing = {}
      BY DEF CS!Nothing
    <3>2. MaxContext \in Nat /\ {} \in SUBSET Lines
      BY DEF CS!SessionAssumption
    <3>3. CS!Nothing \in Contexts
      BY <3>1, <3>2 DEF Contexts
    <3> QED
      BY <3>1, <3>2, <3>3, FS_EmptySet
  <2>2. context \in [CS!SessionIds -> Contexts] /\ \A s \in CS!SessionIds : DOMAIN context[s] = {}
    BY <2>1 DEF CS!Init
  <2>3. \A s \in CS!SessionIds : session[s].state = "none" /\ purge[s].state = "none"
    BY DEF CS!Init
  <2>4. \A s \in CS!SessionIds : PurgedAt(s)
    BY <2>1, <2>2, <2>3 DEF PurgedAt, CS!HasPurge
  <2> QED
    BY <2>2, <2>4 DEF Purged, Contexts
<1> QED
  BY <1>2, <1>3, <1>4, <1>6, <1>7 DEF SInv

LEMMA SessionsGoOn ==
  ASSUME CS!SessionAssumption, SInv, [CS!Next]_(CS!vars)
  PROVE  SInv'
<1>1. SessionRows'
  BY RowsKept DEF SInv
<1>2. Stages' /\ OneSession'
  BY StagesKept, OneSessionKept DEF SInv
<1>3. GrantsTyped' /\ CS!TitlesAreSettled'
  BY TitlesKept DEF SInv
<1>4. Purged'
  BY <1>1, PurgedKept DEF SInv
<1> QED
  BY <1>1, <1>2, <1>3, <1>4 DEF SInv

(* One session at a time, a context no larger than the limit with lines of *)
(* the channel, links to entries there are and participants who are        *)
(* members; reviews and titles as ReviewIsCurrent and TitlesAreSettled     *)
(* have them (ChronicleSessionService, whatever members and workers do).   *)
THEOREM SessionsAreSettled ==
  ASSUME CS!SessionAssumption
  PROVE  CS!Spec => [](CS!TypeOK /\ CS!ReviewIsCurrent /\ CS!TitlesAreSettled)
<1>1. ASSUME SInv
      PROVE  CS!TypeOK /\ CS!ReviewIsCurrent /\ CS!TitlesAreSettled
  <2>1. Cardinality(CS!Active) <= 1
    <3>1. CASE CS!Active = {}
      BY <3>1, FS_EmptySet
    <3>2. CASE CS!Active # {}
      <4>1. PICK s \in CS!Active : TRUE
        BY <3>2
      <4>2. CS!Active = {s}
        BY <1>1, <4>1 DEF SInv, OneSession
      <4>3. Cardinality({s}) = 1
        BY FS_Singleton
      <4> QED
        BY <4>2, <4>3
    <3> QED
      BY <3>1, <3>2
  <2>2. \A s \in CS!SessionIds : /\ DOMAIN context[s] \subseteq Lines
                                 /\ Cardinality(DOMAIN context[s]) <= MaxContext
    BY <1>1 DEF SInv, Purged, PurgedAt
  <2>3. \A s \in CS!SessionIds : linked[s] \subseteq DOMAIN record /\ joined[s] \subseteq Members
    BY <1>1 DEF SInv, SessionRows
  <2>4. CS!TypeOK
    BY <2>1, <2>2, <2>3, SameSets DEF CS!TypeOK
  <2>5. CS!ReviewIsCurrent
    <3> SUFFICES ASSUME NEW s \in CS!SessionIds
                 PROVE  /\ session[s].state = "closing" =>
                             summary[s].state \in {"pending", "claimed"}
                        /\ review[s].rev # 0 <=>
                             session[s].state = "closed" /\ chapter[s].state = "pending"
                        /\ review[s].rev \in {0, chapter[s].rev}
      BY DEF CS!ReviewIsCurrent
    <3>1. session[s] \in SessionRow /\ chapter[s] \in DraftRow /\ review[s] \in ReviewRow
      BY <1>1 DEF SInv, SessionRows
    <3>2. session[s].state \in {"none", "open", "closing", "closed", "abandoned"}
          /\ chapter[s].rev \in Nat /\ review[s].rev \in Nat
      BY <3>1 DEF SessionRow, DraftRow, ReviewRow
    <3> QED
      BY <1>1, <3>2 DEF SInv, Stages
  <2> QED
    BY <1>1, <2>4, <2>5 DEF SInv
<1> QED
  BY <1>1, SessionsStart, SessionsGoOn, PTL DEF CS!Spec

(* Of what was said in the channel nothing is left without a purge that is *)
(* due when it must be (observe_context, purge_context_job), also when the *)
(* session closes while a worker holds the purge, or lets it go.  A purge  *)
(* that failed is due RetryDelay later (fail_job), and what is left when   *)
(* it is dead is left of a purge that had all MaxAttempts of its attempts. *)
THEOREM WhatWasSaidIsForgotten ==
  ASSUME CS!SessionAssumption
  PROVE  CS!Spec => []CS!ContextIsForgotten
<1>1. ASSUME SInv
      PROVE  CS!ContextIsForgotten
  <2> SUFFICES ASSUME NEW s \in CS!SessionIds, DOMAIN context[s] # {}
               PROVE  \/ CS!HasPurge(s) /\ (purge[s].state = "pending" => CS!InTime(s))
                      \/ purge[s].state = "dead" /\ purge[s].tried >= MaxAttempts
    BY DEF CS!ContextIsForgotten
  <2>1. /\ PurgedAt(s) /\ session[s] \in SessionRow /\ purge[s].tried \in Nat
        /\ RetryDelay \in Nat \ {0} /\ Retention \in Nat
    BY <1>1, Numbers DEF SInv, SessionRows, Purged, PurgeRow
  <2>2. session[s].state \in {"open", "closing", "closed"}
    BY <2>1 DEF PurgedAt, SessionRow
  <2>3. PICK l \in DOMAIN context[s] : CS!Oldest(context[s]) = context[s][l]
    BY <2>1, OldestIs DEF PurgedAt
  <2>4. ASSUME CS!HasPurge(s), purge[s].state = "pending"
        PROVE  CS!InTime(s)
    <3>1. CASE Late(s)
      BY <2>1, <2>4, <3>1 DEF Late, CS!InTime
    <3>2. CASE ~Late(s) /\ s \in CS!Open
      <4>1. session[s].state = "open"
        BY <3>2 DEF CS!Open
      <4>2. /\ purge[s].due <= time + Retention
            /\ purge[s].lost \/ purge[s].due <= context[s][l] + Retention
        BY <2>1, <2>4, <3>2, <4>1 DEF PurgedAt
      <4> QED
        BY <2>3, <3>2, <4>2 DEF CS!InTime
    <3>3. CASE ~Late(s) /\ s \notin CS!Open
      BY <2>1, <2>2, <2>4, <3>3 DEF PurgedAt, CS!Open, CS!InTime
    <3> QED
      BY <3>1, <3>2, <3>3
  <2> QED
    BY <2>1, <2>4 DEF PurgedAt
<1> QED
  BY <1>1, SessionsStart, SessionsGoOn, PTL DEF CS!Spec

(* A session is closed by a summary of what holds then: load_summary_context *)
(* is repeated when complete_summary_job stores it.                        *)
THEOREM SummariesAreCurrent ==
  ASSUME CS!SessionAssumption
  PROVE  CS!Spec => CS!SummaryIsCurrent
<1>1. ASSUME SInv, [CS!Next]_(CS!vars)
      PROVE  [\A s \in CS!SessionIds :
                session[s].state = "closing" /\ session'[s].state = "closed" =>
                  \E t \in task : /\ t.s = s /\ t.kind = "generating" /\ t \notin task'
                                  /\ t.read.entries = CS!Canon(s)
                                  /\ t.read.people \subseteq consents
                                  /\ t.read.lines \subseteq DOMAIN context[s]]_(CS!vars)
  <2> SUFFICES ASSUME NEW s \in CS!SessionIds,
                      session[s].state = "closing", session'[s].state = "closed"
               PROVE  \E t \in task : /\ t.s = s /\ t.kind = "generating" /\ t \notin task'
                                      /\ t.read.entries = CS!Canon(s)
                                      /\ t.read.people \subseteq consents
                                      /\ t.read.lines \subseteq DOMAIN context[s]
    OBVIOUS
  <2>0. SessionRows
    BY <1>1 DEF SInv
  <2>1. ~ UNCHANGED session
    OBVIOUS
  <2>2. ASSUME NEW p \in CS!SessionIds, NEW u \in Members, CS!Start(u, p) \/ CS!Close(u, p)
        PROVE  FALSE
    <3>1. CASE CS!Start(u, p)
      BY <2>0, <3>1 DEF CS!Start, SessionRows
    <3>2. CASE CS!Close(u, p)
      <4>1. session[p].state = "open" /\ \A q \in CS!SessionIds \ {p} : session'[q] = session[q]
        BY <2>0, <3>2 DEF CS!Close, CS!Abandon, SessionRows, CS!Open
      <4>2. p # s
        BY <4>1
      <4> QED
        BY <4>1, <4>2
    <3> QED
      BY <2>2, <3>1, <3>2
  <2>3. PICK t \in task, model \in BOOLEAN :
          \E titled \in SUBSET t.read.people : CS!Complete(t, model, titled)
    <3>1. CS!Next
      BY <1>1, <2>1 DEF CS!vars, CS!rows
    <3> QED
      BY <2>1, <2>2, <3>1, SessionFrames
  <2>4. /\ t.kind = "generating" /\ task' = task \ {t} /\ CS!SameContext(t)
        /\ session' = [session EXCEPT ![t.s].state = "closed"]
    BY <2>1, <2>3 DEF CS!Complete
  <2>5. t.s = s
    BY <2>0, <2>4 DEF SessionRows
  <2> QED
    BY <2>4, <2>5 DEF CS!SameContext, CS!SummaryContext
<1> QED
  BY <1>1, SessionsStart, SessionsGoOn, PTL DEF CS!Spec, CS!SummaryIsCurrent

-----------------------------------------------------------------------------
(* Appearances: what the rows of a candidate and its post say              *)

CandidateRow == [created : Int, expires : Int, epoch : Nat, actors : SUBSET Members,
                 theme : BOOLEAN, test : BOOLEAN, started : BOOLEAN, clear : BOOLEAN]
DecisionRow  == [state : {"model_pending", "final"},
                 action : {"none", "reject", "hypothetical", "live_queued"},
                 at : Nat, count : Nat]
PostRow      == [state : {"pending", "cancelled", "delivered", "failed"}, tried : BOOLEAN,
                 at : Nat, count : Nat, test : BOOLEAN, epoch : Nat, who : SUBSET Members]

AppearanceRows ==
  /\ hour \in 0..MaxClock /\ mode \in [name : CA!Modes, since : Nat]
  /\ controls \in [disabled : BOOLEAN, quiet : CA!Never..(MaxClock + 1), by : Members]
  /\ callbacks \subseteq Members /\ shared \in BOOLEAN
  /\ seen \subseteq 1..MaxMessages /\ DOMAIN activity \subseteq seen
  /\ \A m \in DOMAIN activity : activity[m] \in [at : Nat, used : BOOLEAN]
  /\ channel \in [humans : Nat, bot : BOOLEAN]
  /\ event \in [Events -> [state : {"absent", "waiting", "processed"}, at : Nat]]
  /\ \A c \in DOMAIN candidate : candidate[c] \in CandidateRow
  /\ \A c \in DOMAIN decision : decision[c] \in DecisionRow
  /\ \A c \in DOMAIN post : post[c] \in PostRow
  /\ CA!TypeOK

(* A candidate is made from messages that count for no other, from an      *)
(* event that was processed, or from the test.                             *)
MadeFrom(c) ==
  \/ c \subseteq seen /\ \A m \in c \cap DOMAIN activity : activity[m].used
  \/ \E e \in Events : c = {e} /\ event[e].state = "processed"
  \/ c = {Test}
Made == (\A c \in DOMAIN candidate : MadeFrom(c)) /\ CA!MessagesUsedOnce

(* What waits for its first attempt is allowed by the controls.            *)
AllowedPost(c) ==
  post[c].state = "pending" /\ ~post[c].tried =>
    /\ ~controls.disabled /\ ~(controls.quiet > hour)
    /\ post[c].epoch = mode.since
    /\ post[c].who \subseteq callbacks
    /\ candidate[c].theme => shared
Allowed == \A c \in DOMAIN post : AllowedPost(c)

(* Posts of one budget were made one after the other.                      *)
OneByOne ==
  /\ IsFiniteSet(DOMAIN post)
  /\ \A c \in DOMAIN post : post[c].at <= hour /\ post[c].count <= channel.humans
  /\ \A c, d \in DOMAIN post : c # d /\ post[c].test = post[d].test =>
       /\ post[c].at # post[d].at
       /\ post[d].at < post[c].at => post[d].count <= post[c].count

AInv == AppearanceRows /\ Made /\ Allowed /\ OneByOne /\ CA!RareAppearances

LEMMA SameCounts ==
  ASSUME NEW T
  PROVE  CA!Cardinality(T) = Cardinality(T)
BY DEF CA!Cardinality, Cardinality

(* The latest of some times before now.                                    *)
LEMMA GreatestIs ==
  ASSUME NEW now \in Nat, NEW T \in SUBSET (0..now), T # {}
  PROVE  CA!Greatest(T) \in T /\ \A t \in T : t <= CA!Greatest(T)
<1> DEFINE Ages == {now - t : t \in T}
           Lt == OpToRel(<, Nat)
<1>1. IsWellFoundedOn(Lt, Nat)
  BY NatLessThanWellFounded
<1> HIDE DEF Lt
<1>2. Ages \in SUBSET Nat /\ Ages # {}
  <2>1. \A t \in T : now - t \in Nat
    OBVIOUS
  <2> QED
    BY <2>1
<1> HIDE DEF Ages
<1>3. PICK n \in Ages : \A k \in Ages : ~(<<k, n>> \in Lt)
  BY <1>1, <1>2, WFMin
<1>4. \A k \in Ages : ~(k < n)
  BY <1>2, <1>3 DEF OpToRel, Lt
<1>5. PICK t \in T : n = now - t
  BY DEF Ages
<1>6. ASSUME NEW s \in T
      PROVE  s <= t
  <2>1. now - s \in Ages /\ now - s \in Nat /\ n \in Nat
    BY <1>2 DEF Ages
  <2>2. ~(now - s < n)
    BY <1>4, <2>1
  <2> QED
    BY <1>5, <2>1, <2>2
<1> QED
  BY <1>5, <1>6 DEF CA!Greatest

-----------------------------------------------------------------------------
(* What a decision does                                                    *)

Queues(c) ==
  /\ mode.name = "live" /\ \E fixture \in BOOLEAN : CA!FreshGates(c, fixture)
  /\ decision' = CA!With(decision, c, CA!Decided("final", "live_queued"))
  /\ post' = CA!With(post, c, CA!LiveEffects(c))

Rules(c) ==
  /\ \E way \in {<<"final", "reject">>, <<"final", "hypothetical">>,
                 <<"model_pending", "none">>} :
       decision' = CA!With(decision, c, CA!Decided(way[1], way[2]))
  /\ post' = post

Deciding(c) == (\E fit \in BOOLEAN : CA!Evaluate(c, fit))
               \/ \E answer \in CA!Answers : CA!CompleteModel(c, answer)

LEMMA Decides ==
  ASSUME NEW c \in DOMAIN held, Deciding(c)
  PROVE  /\ UNCHANGED <<hour, mode, controls, callbacks, shared, seen, activity, channel,
                        event, candidate, feedback, turns>>
         /\ DOMAIN held' \subseteq DOMAIN held
         /\ \/ UNCHANGED <<decision, post>>
            \/ /\ CA!Undecided(c) \/ decision[c].state = "model_pending"
               /\ Rules(c) \/ Queues(c)
<1>1. ASSUME NEW state, NEW action, NEW fixture \in BOOLEAN, CA!Record(c, state, action),
             \/ /\ state = "final" /\ action \in {"reject", "hypothetical", "live_queued"}
                /\ action = "live_queued" => mode.name = "live" /\ CA!FreshGates(c, fixture)
             \/ state = "model_pending" /\ action = "none"
      PROVE  Rules(c) \/ Queues(c)
  <2>1. CASE action = "live_queued"
    BY <1>1, <2>1 DEF CA!Record, Queues
  <2>2. CASE action # "live_queued"
    <3>1. post' = post
      BY <1>1, <2>2 DEF CA!Record
    <3>2. <<state, action>> \in {<<"final", "reject">>, <<"final", "hypothetical">>,
                                 <<"model_pending", "none">>}
      BY <1>1, <2>2
    <3> QED
      BY <1>1, <3>1, <3>2 DEF CA!Record, Rules
  <2> QED
    BY <2>1, <2>2
<1>2. ASSUME NEW fit, NEW fixture \in BOOLEAN, NEW answer
      PROVE  LET action == CA!FinalAction(CA!Eligible(c, CA!FreshGates(c, fixture), fit), answer)
             IN  /\ action \in {"reject", "hypothetical", "live_queued"}
                 /\ action = "live_queued" => mode.name = "live" /\ CA!FreshGates(c, fixture)
  BY DEF CA!FinalAction, CA!Eligible
<1>3. ASSUME NEW fit, NEW fixture \in BOOLEAN, CA!RecordFinal(c, fit, fixture)
      PROVE  /\ DOMAIN held' \subseteq DOMAIN held
             /\ UNCHANGED <<decision, post>> \/ (CA!Undecided(c) /\ (Rules(c) \/ Queues(c)))
  <2>1. DOMAIN held' \subseteq DOMAIN held
    BY <1>3 DEF CA!RecordFinal, CA!Release, CA!Within
  <2>2. CASE CA!Undecided(c)
    BY <1>1, <1>2, <1>3, <2>1, <2>2 DEF CA!RecordFinal
  <2> QED
    BY <1>3, <2>1, <2>2 DEF CA!RecordFinal
<1>4. ASSUME NEW fit, CA!PrepareModel(c, fit)
      PROVE  /\ DOMAIN held' \subseteq DOMAIN held
             /\ UNCHANGED <<decision, post>> \/ (CA!Undecided(c) /\ (Rules(c) \/ Queues(c)))
  <2>1. DOMAIN held' \subseteq DOMAIN held
    BY <1>4 DEF CA!PrepareModel, CA!Release, CA!Within
  <2>2. CASE CA!Undecided(c)
    <3>1. CA!Record(c, "model_pending", "none") \/ CA!Record(c, "final", "reject")
      BY <1>4, <2>2 DEF CA!PrepareModel
    <3> QED
      BY <1>1, <2>1, <2>2, <3>1
  <2> QED
    BY <1>4, <2>1, <2>2 DEF CA!PrepareModel
<1>5. ASSUME NEW fit \in BOOLEAN, CA!Evaluate(c, fit)
      PROVE  CA!RecordFinal(c, fit, TRUE) \/ CA!RecordFinal(c, fit, FALSE)
               \/ CA!PrepareModel(c, fit)
  BY <1>5 DEF CA!Evaluate
<1>6. ASSUME NEW answer \in CA!Answers, CA!CompleteModel(c, answer)
      PROVE  /\ DOMAIN held' \subseteq DOMAIN held
             /\ decision[c].state = "model_pending" /\ (Rules(c) \/ Queues(c))
  <2>1. DOMAIN held' \subseteq DOMAIN held
    BY <1>6 DEF CA!CompleteModel, CA!Release, CA!Within
  <2> QED
    BY <1>1, <1>2, <1>6, <2>1 DEF CA!CompleteModel
<1>7. UNCHANGED <<hour, mode, controls, callbacks, shared, seen, activity, channel,
                  event, candidate, feedback, turns>>
  BY DEF Deciding, CA!Evaluate, CA!CompleteModel
<1> QED
  BY <1>3, <1>4, <1>5, <1>6, <1>7 DEF Deciding

-----------------------------------------------------------------------------
(* Types                                                                   *)

LEMMA PolicyNumbers ==
  ASSUME CA!AppearanceAssumption
  PROVE  /\ MaxMessages \in Nat /\ MaxClock \in Nat /\ Life \in Nat /\ BudgetMax \in Nat
         /\ AfterPrevious \in Nat /\ ThemeCooldown \in Nat
         /\ MinGap \in Nat \ {0} /\ BudgetWindow \in Nat \ {0}
BY DEF CA!AppearanceAssumption

LEMMA ActiveAreMembers ==
  ASSUME CA!AppearanceAssumption, AppearanceRows
  PROVE  CA!ActiveActors \subseteq Members
BY DEF CA!AppearanceAssumption, AppearanceRows, CA!ActiveActors

LEMMA NewCandidates ==
  ASSUME CA!AppearanceAssumption, AppearanceRows, NEW from \in Nat,
         NEW actors \in SUBSET Members, NEW themed \in BOOLEAN, NEW test \in BOOLEAN
  PROVE  /\ CA!NewCandidate(from, actors, themed, test) \in CandidateRow
         /\ CA!NewCandidate(from, actors, themed, test).theme = themed
         /\ CA!NewCandidate(from, actors, themed, test).epoch = mode.since
<1>1. /\ CA!Consent(actors) \in BOOLEAN /\ CA!SourceAvailable(themed) \in BOOLEAN
      /\ CA!ThemeRested(themed, test) \in BOOLEAN /\ channel.bot \in BOOLEAN
  BY DEF AppearanceRows, CA!Consent, CA!SourceAvailable, CA!ThemeRested
<1>2. CA!BudgetGates(themed, test, FALSE) \in BOOLEAN
  BY DEF CA!BudgetGates
<1>3. from + Life \in Int /\ mode.since \in Nat
  BY PolicyNumbers DEF AppearanceRows
<1> QED
  BY <1>1, <1>2, <1>3 DEF CA!NewCandidate, CandidateRow

(* The rows a message leaves.                                              *)
LEMMA ObservedIs ==
  ASSUME AppearanceRows, NEW m \in 1..MaxMessages
  PROVE  /\ DOMAIN CA!Observed(m) \subseteq DOMAIN activity \cup {m}
         /\ m \in DOMAIN CA!Observed(m) => m \in DOMAIN activity \/ m \notin seen
         /\ \A x \in DOMAIN CA!Observed(m) :
              /\ CA!Observed(m)[x] \in [at : Nat, used : BOOLEAN]
              /\ x \in DOMAIN activity => CA!Observed(m)[x] = activity[x]
<1>1. CA!Kept \subseteq DOMAIN activity
  BY DEF CA!Kept
<1>2. /\ DOMAIN CA!Within(activity, CA!Kept) = CA!Kept
      /\ \A x \in CA!Kept : CA!Within(activity, CA!Kept)[x] = activity[x]
  BY DEF CA!Within
<1>3. hour \in Nat /\ DOMAIN activity \subseteq seen
      /\ \A x \in DOMAIN activity : activity[x] \in [at : Nat, used : BOOLEAN]
  BY DEF AppearanceRows
<1>4. CASE m \in seen
  BY <1>1, <1>2, <1>3, <1>4 DEF CA!Observed
<1>5. CASE m \notin seen
  <2> DEFINE row == [at |-> hour, used |-> FALSE]
             left == CA!Within(activity, CA!Kept)
  <2>1. CA!Observed(m) = CA!With(left, m, row)
    BY <1>5 DEF CA!Observed
  <2>2. row \in [at : Nat, used : BOOLEAN]
    BY <1>3
  <2> HIDE DEF row, left
  <2>3. /\ DOMAIN CA!Observed(m) = DOMAIN left \cup {m} /\ CA!Observed(m)[m] = row
        /\ \A x \in DOMAIN left \ {m} : CA!Observed(m)[x] = left[x]
    BY <2>1 DEF CA!With
  <2> QED
    BY <1>1, <1>2, <1>3, <1>5, <2>2, <2>3 DEF left
<1> QED
  BY <1>4, <1>5

(* What a message may do to the candidates: nothing, or make one of        *)
(* messages no other was made of.                                          *)
MadeOf(used) ==
  /\ used # {} /\ used \subseteq seen' /\ used \notin DOMAIN candidate
  /\ \A x \in used : x \notin seen \/ (x \in DOMAIN activity /\ ~activity[x].used)
  /\ \A x \in used \cap DOMAIN activity' : activity'[x].used
  /\ \E themed \in BOOLEAN, actors \in SUBSET Members :
       candidate' = CA!With(candidate, used, CA!NewCandidate(hour, actors, themed, FALSE))
  /\ DOMAIN held' = DOMAIN held \cup {used}

LEMMA ObservesMessage ==
  ASSUME CA!AppearanceAssumption, AppearanceRows, NEW m \in 1..MaxMessages,
         CA!ObserveMessage(m)
  PROVE  /\ UNCHANGED <<hour, mode, controls, callbacks, shared, event, decision, post,
                        feedback, turns>>
         /\ seen' = seen \cup {m}
         /\ channel' \in [humans : Nat, bot : BOOLEAN] /\ channel.humans <= channel'.humans
         /\ DOMAIN activity' \subseteq DOMAIN activity \cup {m}
         /\ \A x \in DOMAIN activity' :
              /\ activity'[x] \in [at : Nat, used : BOOLEAN]
              /\ x \in seen => x \in DOMAIN activity /\ (activity[x].used => activity'[x].used)
         /\ UNCHANGED <<candidate, held>> \/ \E used : MadeOf(used)
<1> DEFINE act    == CA!Observed(m)
           unused == CA!Unused(act)
           used   == CA!Chosen(unused)
           actors == {Writer[x] : x \in used}
           themed == used \cap Mentions # {} /\ CA!SourceAvailable(TRUE)
           made   == CA!Cardinality(unused) >= Required /\ m \in used
                       /\ used \notin DOMAIN candidate
           spent  == [x \in DOMAIN act |->
                        IF x \in used THEN [act[x] EXCEPT !.used = TRUE] ELSE act[x]]
<1>1. UNCHANGED <<hour, mode, controls, callbacks, shared, event, decision, post,
                  feedback, turns>> /\ seen' = seen \cup {m}
  BY DEF CA!ObserveMessage
<1>2. /\ channel' = CA!ChannelAfter(m)
      /\ \/ /\ made /\ activity' = spent
            /\ candidate' = CA!With(candidate, used, CA!NewCandidate(hour, actors, themed, FALSE))
            /\ CA!Hold(used, "evaluate")
         \/ activity' = act /\ UNCHANGED <<candidate, held>>
  BY DEF CA!ObserveMessage
<1>3. channel' \in [humans : Nat, bot : BOOLEAN] /\ channel.humans <= channel'.humans
  BY <1>2 DEF CA!ChannelAfter, AppearanceRows
<1>4. used \subseteq unused /\ unused \subseteq DOMAIN act /\ \A x \in unused : ~act[x].used
  BY DEF CA!Chosen, CA!Unused
<1>5. actors \in SUBSET Members /\ themed \in BOOLEAN
  <2>1. used \subseteq 1..MaxMessages
    <3>1. DOMAIN act \subseteq DOMAIN activity \cup {m}
      BY ObservedIs
    <3>2. DOMAIN activity \subseteq 1..MaxMessages
      BY DEF AppearanceRows
    <3> HIDE DEF act, used, unused
    <3> QED
      BY <1>4, <3>1, <3>2
  <2> QED
    BY <2>1 DEF CA!AppearanceAssumption
<1> HIDE DEF unused, used, actors, themed
<1>6. /\ DOMAIN act \subseteq DOMAIN activity \cup {m} /\ DOMAIN activity \subseteq seen
      /\ \A x \in DOMAIN act : /\ act[x] \in [at : Nat, used : BOOLEAN]
                               /\ x \in DOMAIN activity => act[x] = activity[x]
                               /\ x \in seen => x \in DOMAIN activity
  BY ObservedIs DEF AppearanceRows
<1> HIDE DEF act
<1>7. CASE activity' = act /\ UNCHANGED <<candidate, held>>
  BY <1>1, <1>3, <1>6, <1>7
<1>8. CASE /\ made /\ activity' = spent
           /\ candidate' = CA!With(candidate, used, CA!NewCandidate(hour, actors, themed, FALSE))
           /\ CA!Hold(used, "evaluate")
  <2>1. DOMAIN held' = DOMAIN held \cup {used}
    BY <1>8 DEF CA!Hold, CA!With
  <2>2. DOMAIN activity' = DOMAIN act
    BY <1>8
  <2>3. \A x \in DOMAIN act : /\ activity'[x] \in [at : Nat, used : BOOLEAN]
                              /\ act[x].used => activity'[x].used
                              /\ x \in used => activity'[x].used
    BY <1>6, <1>8
  <2>4. used # {} /\ used \subseteq seen' /\ used \notin DOMAIN candidate
    BY <1>1, <1>4, <1>6, <1>8
  <2>5. \A x \in used : x \notin seen \/ (x \in DOMAIN activity /\ ~activity[x].used)
    BY <1>4, <1>6
  <2>6. MadeOf(used)
    BY <1>5, <1>8, <2>1, <2>2, <2>3, <2>4, <2>5 DEF MadeOf
  <2> QED
    BY <1>1, <1>3, <1>6, <2>2, <2>3, <2>6
<1> QED
  BY <1>2, <1>7, <1>8

LEMMA LiveRows ==
  ASSUME CA!AppearanceAssumption, AppearanceRows, NEW c \in DOMAIN candidate
  PROVE  CA!LiveEffects(c) \in PostRow
<1>1. /\ candidate[c].actors \subseteq Members /\ candidate[c].test \in BOOLEAN
  BY DEF AppearanceRows, CandidateRow
<1>2. CA!SourceUsers(c) \subseteq Members /\ CA!ActiveActors \subseteq Members
  BY ActiveAreMembers DEF CA!SourceUsers, CA!AppearanceAssumption
<1>3. hour \in Nat /\ channel.humans \in Nat /\ mode.since \in Nat
  BY PolicyNumbers DEF AppearanceRows
<1> QED
  BY <1>1, <1>2, <1>3 DEF CA!LiveEffects, PostRow

LEMMA DecidedRows ==
  ASSUME AppearanceRows, NEW state \in {"model_pending", "final"},
         NEW action \in {"none", "reject", "hypothetical", "live_queued"}
  PROVE  /\ CA!Decided(state, action) \in DecisionRow
         /\ CA!Decided(state, action).state = state /\ CA!Decided(state, action).action = action
<1>1. hour \in Nat /\ channel.humans \in Nat
  BY DEF AppearanceRows
<1> QED
  BY <1>1 DEF CA!Decided, DecisionRow

(* The posts, the decisions and the held of one step.                      *)
LEMMA DecisionRows ==
  ASSUME CA!AppearanceAssumption, AppearanceRows, NEW c \in DOMAIN held, Deciding(c)
  PROVE  AppearanceRows'
<1>1. c \in DOMAIN candidate
  BY DEF AppearanceRows, CA!TypeOK
<1>2. /\ UNCHANGED <<hour, mode, controls, callbacks, shared, seen, activity, channel,
                     event, candidate, feedback, turns>>
      /\ DOMAIN held' \subseteq DOMAIN held
      /\ \/ UNCHANGED <<decision, post>>
         \/ /\ CA!Undecided(c) \/ decision[c].state = "model_pending"
            /\ Rules(c) \/ Queues(c)
  BY Decides
<1>3. CASE UNCHANGED <<decision, post>>
  BY <1>2, <1>3 DEF AppearanceRows, CA!TypeOK
<1>4. CASE Rules(c) /\ (CA!Undecided(c) \/ decision[c].state = "model_pending")
  <2>1. PICK way \in {<<"final", "reject">>, <<"final", "hypothetical">>,
                      <<"model_pending", "none">>} :
          decision' = CA!With(decision, c, CA!Decided(way[1], way[2]))
    BY <1>4 DEF Rules
  <2> DEFINE row == CA!Decided(way[1], way[2])
  <2>2. row \in DecisionRow /\ row.state = way[1] /\ row.action = way[2]
    BY DecidedRows
  <2> HIDE DEF row
  <2>3. /\ DOMAIN decision' = DOMAIN decision \cup {c} /\ decision'[c] = row
        /\ \A d \in DOMAIN decision \ {c} : decision'[d] = decision[d]
    BY <2>1 DEF row, CA!With
  <2>4. row.action # "live_queued" /\ (row.state = "model_pending" => row.action = "none")
    BY <2>2
  <2>5. c \notin DOMAIN post
    BY <1>4 DEF AppearanceRows, CA!TypeOK, CA!Undecided
  <2>6. \A d \in DOMAIN decision' : decision'[d] \in DecisionRow
    BY <2>2, <2>3 DEF AppearanceRows
  <2>7. CA!TypeOK'
    BY <1>1, <1>2, <1>4, <2>3, <2>4, <2>5 DEF AppearanceRows, CA!TypeOK, Rules
  <2> QED
    BY <1>2, <1>4, <2>6, <2>7 DEF AppearanceRows, Rules
<1>5. CASE Queues(c)
  <2> DEFINE row == CA!Decided("final", "live_queued")
  <2>1. row \in DecisionRow /\ row.state = "final" /\ row.action = "live_queued"
    BY DecidedRows
  <2> HIDE DEF row
  <2>2. /\ DOMAIN decision' = DOMAIN decision \cup {c} /\ decision'[c] = row
        /\ \A d \in DOMAIN decision \ {c} : decision'[d] = decision[d]
    BY <1>5 DEF row, Queues, CA!With
  <2>3. /\ DOMAIN post' = DOMAIN post \cup {c} /\ post'[c] \in PostRow
        /\ \A d \in DOMAIN post \ {c} : post'[d] = post[d]
    BY <1>1, <1>5, LiveRows DEF Queues, CA!With
  <2>4. \A d \in DOMAIN decision' : decision'[d] \in DecisionRow
    BY <2>1, <2>2 DEF AppearanceRows
  <2>5. \A d \in DOMAIN post' : post'[d] \in PostRow
    BY <2>3 DEF AppearanceRows
  <2>6. CA!TypeOK'
    BY <1>1, <1>2, <2>1, <2>2, <2>3 DEF AppearanceRows, CA!TypeOK
  <2> QED
    BY <1>2, <2>4, <2>5, <2>6 DEF AppearanceRows
<1> QED
  BY <1>2, <1>3, <1>4, <1>5

LEMMA CancelledIs ==
  ASSUME \A c \in DOMAIN post : post[c] \in PostRow, NEW affected
  PROVE  /\ DOMAIN CA!Cancelled(affected) = DOMAIN post
         /\ \A c \in DOMAIN post :
              \/ /\ CA!Cancelled(affected)[c] = post[c]
                 /\ c \in affected => post[c].state # "pending" \/ post[c].tried
              \/ CA!Cancelled(affected)[c] = [post[c] EXCEPT !.state = "cancelled"]
BY DEF CA!Cancelled, PostRow

(* Steps that leave every candidate and decision alone, and of a post only *)
(* change its state or that it was tried.                                  *)
SamePosts ==
  /\ DOMAIN post' = DOMAIN post
  /\ \A c \in DOMAIN post :
       /\ post'[c] \in PostRow
       /\ post'[c].at = post[c].at /\ post'[c].count = post[c].count
       /\ post'[c].test = post[c].test /\ post'[c].epoch = post[c].epoch
       /\ post'[c].who = post[c].who
       /\ post'[c].state = "pending" => post[c].state = "pending"

LEMMA CancelledAreSame ==
  ASSUME AppearanceRows, NEW affected, post' = CA!Cancelled(affected)
  PROVE  /\ SamePosts /\ \A c \in DOMAIN post : post'[c].tried = post[c].tried
         /\ \A c \in affected \cap DOMAIN post : post'[c].state = "pending" => post'[c].tried
<1>1. \A c \in DOMAIN post : post[c] \in PostRow
  BY DEF AppearanceRows
<1>2. /\ DOMAIN post' = DOMAIN post
      /\ \A c \in DOMAIN post :
           \/ post'[c] = post[c] /\ (c \in affected => post[c].state # "pending" \/ post[c].tried)
           \/ post'[c] = [post[c] EXCEPT !.state = "cancelled"]
  BY <1>1, CancelledIs
<1>3. ASSUME NEW c \in DOMAIN post
      PROVE  /\ post'[c] \in PostRow
             /\ post'[c].at = post[c].at /\ post'[c].count = post[c].count
             /\ post'[c].test = post[c].test /\ post'[c].epoch = post[c].epoch
             /\ post'[c].who = post[c].who /\ post'[c].tried = post[c].tried
             /\ post'[c].state = "pending" => post[c].state = "pending"
             /\ c \in affected => (post'[c].state = "pending" => post'[c].tried)
  <2>1. post[c] \in PostRow
    BY <1>1
  <2>2. CASE post'[c] = post[c]
    BY <1>2, <2>1, <2>2 DEF PostRow
  <2>3. CASE post'[c] = [post[c] EXCEPT !.state = "cancelled"]
    BY <2>1, <2>3 DEF PostRow
  <2> QED
    BY <1>2, <2>2, <2>3
<1> QED
  BY <1>2, <1>3 DEF SamePosts

LEMMA UnchangedPosts ==
  ASSUME AppearanceRows, post' = post
  PROVE  SamePosts
BY DEF AppearanceRows, SamePosts

(* A candidate stays what it is about.                                     *)
SameCandidates ==
  /\ DOMAIN candidate \subseteq DOMAIN candidate'
  /\ \A c \in DOMAIN candidate : candidate'[c].theme = candidate[c].theme

LEMMA EventIsNew ==
  ASSUME CA!AppearanceAssumption, AppearanceRows, Made, NEW e \in Events, CA!Waiting(e)
  PROVE  {e} \notin DOMAIN candidate
<1>1. SUFFICES ASSUME {e} \in DOMAIN candidate
               PROVE  FALSE
  OBVIOUS
<1>2. MadeFrom({e})
  BY <1>1 DEF Made
<1>3. e \notin seen /\ e # Test
  BY DEF CA!AppearanceAssumption, AppearanceRows
<1>4. event[e].state # "processed"
  BY DEF CA!Waiting
<1> QED
  BY <1>2, <1>3, <1>4 DEF MadeFrom

LEMMA NewCandidateRows ==
  ASSUME AppearanceRows, NEW c, c \notin DOMAIN candidate, NEW row \in CandidateRow,
         candidate' = CA!With(candidate, c, row)
  PROVE  /\ DOMAIN candidate' = DOMAIN candidate \cup {c} /\ SameCandidates
         /\ \A d \in DOMAIN candidate' : candidate'[d] \in CandidateRow
<1>1. /\ DOMAIN candidate' = DOMAIN candidate \cup {c} /\ candidate'[c] = row
      /\ \A d \in DOMAIN candidate \ {c} : candidate'[d] = candidate[d]
  BY DEF CA!With
<1> QED
  BY <1>1 DEF AppearanceRows, SameCandidates

LEMMA StartedRows ==
  ASSUME AppearanceRows, NEW D \in SUBSET DOMAIN candidate, NEW started \in BOOLEAN,
         candidate' = [c \in DOMAIN candidate |->
                         IF c \in D THEN [candidate[c] EXCEPT !.started = started]
                         ELSE candidate[c]]
  PROVE  /\ DOMAIN candidate' = DOMAIN candidate /\ SameCandidates
         /\ \A d \in DOMAIN candidate' : candidate'[d] \in CandidateRow
BY DEF AppearanceRows, SameCandidates, CandidateRow

LEMMA StartedRow ==
  ASSUME AppearanceRows, NEW c \in DOMAIN candidate,
         candidate' = [candidate EXCEPT ![c].started = TRUE]
  PROVE  /\ DOMAIN candidate' = DOMAIN candidate /\ SameCandidates
         /\ \A d \in DOMAIN candidate' : candidate'[d] \in CandidateRow
<1>1. candidate[c] \in CandidateRow
  BY DEF AppearanceRows
<1>2. /\ DOMAIN candidate' = DOMAIN candidate
      /\ candidate'[c] = [candidate[c] EXCEPT !.started = TRUE]
      /\ \A d \in DOMAIN candidate \ {c} : candidate'[d] = candidate[d]
  OBVIOUS
<1>3. candidate'[c] \in CandidateRow /\ candidate'[c].theme = candidate[c].theme
  BY <1>1, <1>2 DEF CandidateRow
<1>4. \A d \in DOMAIN candidate : candidate[d] \in CandidateRow
  BY DEF AppearanceRows
<1> QED
  BY <1>2, <1>3, <1>4 DEF SameCandidates

LEMMA HoldIs ==
  ASSUME NEW c, NEW step, CA!Hold(c, step)
  PROVE  DOMAIN held' = DOMAIN held \cup {c}
BY DEF CA!Hold, CA!With

-----------------------------------------------------------------------------
(* Steps by what they change                                               *)

LEMMA MessageRows ==
  ASSUME CA!AppearanceAssumption, AppearanceRows, NEW m \in 1..MaxMessages,
         CA!ObserveMessage(m)
  PROVE  AppearanceRows' /\ SamePosts /\ SameCandidates
<1>1. /\ UNCHANGED <<hour, mode, controls, callbacks, shared, event, decision, post,
                     feedback, turns>>
      /\ seen' = seen \cup {m}
      /\ channel' \in [humans : Nat, bot : BOOLEAN] /\ channel.humans <= channel'.humans
      /\ DOMAIN activity' \subseteq DOMAIN activity \cup {m}
      /\ \A x \in DOMAIN activity' : activity'[x] \in [at : Nat, used : BOOLEAN]
      /\ UNCHANGED <<candidate, held>> \/ \E used : MadeOf(used)
  BY ObservesMessage
<1>2. seen' \subseteq 1..MaxMessages /\ DOMAIN activity' \subseteq seen'
  BY <1>1 DEF AppearanceRows
<1> DEFINE Rows == /\ DOMAIN held' \subseteq DOMAIN candidate' /\ SameCandidates
                   /\ \A d \in DOMAIN candidate' : candidate'[d] \in CandidateRow
<1>3. Rows
  <2>1. CASE UNCHANGED <<candidate, held>>
    BY <2>1 DEF AppearanceRows, CA!TypeOK, SameCandidates
  <2>2. ASSUME NEW used, MadeOf(used)
        PROVE  Rows
    <3>1. PICK themed \in BOOLEAN, actors \in SUBSET Members :
            candidate' = CA!With(candidate, used, CA!NewCandidate(hour, actors, themed, FALSE))
      BY <2>2 DEF MadeOf
    <3>2. CA!NewCandidate(hour, actors, themed, FALSE) \in CandidateRow
      <4>1. hour \in Nat
        BY PolicyNumbers DEF AppearanceRows
      <4> QED
        BY <4>1, NewCandidates
    <3>3. /\ DOMAIN candidate' = DOMAIN candidate \cup {used} /\ SameCandidates
          /\ \A d \in DOMAIN candidate' : candidate'[d] \in CandidateRow
      BY <2>2, <3>1, <3>2, NewCandidateRows DEF MadeOf
    <3> QED
      BY <2>2, <3>3 DEF MadeOf, AppearanceRows, CA!TypeOK
  <2> QED
    BY <1>1, <2>1, <2>2
<1>4. SamePosts
  BY <1>1, UnchangedPosts
<1>5. CA!TypeOK'
  BY <1>1, <1>3 DEF AppearanceRows, CA!TypeOK, SameCandidates
<1> QED
  BY <1>1, <1>2, <1>3, <1>4, <1>5 DEF AppearanceRows

LEMMA CandidateRows ==
  ASSUME CA!AppearanceAssumption, AppearanceRows, Made,
         (\E e \in Events : CA!EventHappens(e) \/ CA!ScanEvent(e)) \/ CA!Simulate
           \/ \E c \in DOMAIN candidate : CA!TakeUp(c)
  PROVE  /\ AppearanceRows' /\ SamePosts /\ SameCandidates
         /\ UNCHANGED <<hour, mode, controls, callbacks, shared, seen, activity, channel,
                        decision, post, feedback, turns>>
         /\ \A e \in Events : event[e].state = "processed" => event'[e].state = "processed"
         /\ \/ DOMAIN candidate' = DOMAIN candidate
            \/ DOMAIN candidate' = DOMAIN candidate \cup {{Test}}
            \/ \E e \in Events : /\ CA!Waiting(e) /\ event'[e].state = "processed"
                                 /\ DOMAIN candidate' = DOMAIN candidate \cup {{e}}
<1>1. /\ UNCHANGED <<hour, mode, controls, callbacks, shared, seen, activity, channel,
                     decision, post, feedback, turns>>
  BY DEF CA!EventHappens, CA!ScanEvent, CA!Simulate, CA!TakeUp
<1>2. SamePosts
  BY <1>1, UnchangedPosts
<1> DEFINE Rows == /\ DOMAIN held' \subseteq DOMAIN candidate' /\ SameCandidates
                   /\ \A d \in DOMAIN candidate' : candidate'[d] \in CandidateRow
           Events1 == /\ event' \in [Events -> [state : {"absent", "waiting", "processed"}, at : Nat]]
                      /\ \A e \in Events : event[e].state = "processed" => event'[e].state = "processed"
<1>3. ASSUME NEW e \in Events, CA!EventHappens(e)
      PROVE  Rows /\ Events1 /\ DOMAIN candidate' = DOMAIN candidate
  <2>1. Events1
    <3>1. hour \in Nat
      BY PolicyNumbers DEF AppearanceRows
    <3>2. PICK state \in {"waiting", "processed"} :
            event' = [event EXCEPT ![e] = [state |-> state, at |-> hour]]
      BY <1>3 DEF CA!EventHappens
    <3> QED
      BY <1>3, <3>1, <3>2 DEF AppearanceRows, CA!EventHappens
  <2> QED
    BY <1>3, <2>1 DEF AppearanceRows, CA!TypeOK, CA!EventHappens, SameCandidates
<1>4. ASSUME NEW e \in Events, CA!ScanEvent(e)
      PROVE  /\ Rows /\ Events1 /\ CA!Waiting(e) /\ event'[e].state = "processed"
             /\ DOMAIN candidate' = DOMAIN candidate \cup {{e}}
  <2>1. CA!Waiting(e) /\ event' = [event EXCEPT ![e].state = "processed"]
    BY <1>4 DEF CA!ScanEvent
  <2>2. Events1 /\ event'[e].state = "processed"
    BY <2>1 DEF AppearanceRows, CA!Waiting
  <2>3. CA!EventCandidate(e) \in CandidateRow
    <3>1. event[e].at \in Nat
      BY DEF AppearanceRows
    <3> QED
      BY <3>1, ActiveAreMembers, NewCandidates DEF CA!EventCandidate
  <2>4. {e} \notin DOMAIN candidate
    BY <2>1, EventIsNew
  <2>5. candidate' = CA!With(candidate, {e}, CA!EventCandidate(e)) /\ CA!Hold({e}, "evaluate")
    BY <1>4 DEF CA!ScanEvent
  <2>6. /\ DOMAIN candidate' = DOMAIN candidate \cup {{e}} /\ SameCandidates
        /\ \A d \in DOMAIN candidate' : candidate'[d] \in CandidateRow
    BY <2>3, <2>4, <2>5, NewCandidateRows
  <2>7. DOMAIN held' = DOMAIN held \cup {{e}}
    BY <2>5, HoldIs
  <2> QED
    BY <2>1, <2>2, <2>6, <2>7 DEF AppearanceRows, CA!TypeOK
<1>5. ASSUME NEW c \in DOMAIN candidate, CA!TakeUp(c)
      PROVE  Rows /\ Events1 /\ DOMAIN candidate' = DOMAIN candidate
  <2>1. Events1
    BY <1>5 DEF CA!TakeUp, AppearanceRows
  <2>2. CA!Hold(c, "evaluate") /\ candidate' = [candidate EXCEPT ![c].started = TRUE]
    BY <1>5 DEF CA!TakeUp
  <2>3. /\ DOMAIN candidate' = DOMAIN candidate /\ SameCandidates
        /\ \A d \in DOMAIN candidate' : candidate'[d] \in CandidateRow
    BY <2>2, StartedRow
  <2>4. DOMAIN held' = DOMAIN held \cup {c}
    BY <2>2, HoldIs
  <2> QED
    BY <2>1, <2>3, <2>4 DEF AppearanceRows, CA!TypeOK
<1>6. ASSUME CA!Simulate
      PROVE  /\ Rows /\ Events1
             /\ DOMAIN candidate' = DOMAIN candidate \cup {{Test}}
  <2>1. Events1
    BY <1>6 DEF CA!Simulate, AppearanceRows
  <2>2. \E step : CA!Hold({Test}, step)
    BY <1>6 DEF CA!Simulate
  <2>3. DOMAIN held' = DOMAIN held \cup {{Test}}
    BY <2>2, HoldIs
  <2>4. /\ DOMAIN candidate' = DOMAIN candidate \cup {{Test}} /\ SameCandidates
        /\ \A d \in DOMAIN candidate' : candidate'[d] \in CandidateRow
    <3>1. CASE {Test} \in DOMAIN candidate
      <4>1. candidate' = [candidate EXCEPT ![{Test}].started = TRUE]
        BY <1>6, <3>1 DEF CA!Simulate
      <4> QED
        BY <3>1, <4>1, StartedRow
    <3>2. CASE {Test} \notin DOMAIN candidate
      <4>1. candidate' = CA!With(candidate, {Test}, CA!NewCandidate(hour, {Owner}, FALSE, TRUE))
        BY <1>6, <3>2 DEF CA!Simulate
      <4>2. CA!NewCandidate(hour, {Owner}, FALSE, TRUE) \in CandidateRow
        <5>1. hour \in Nat /\ {Owner} \in SUBSET Members
          BY PolicyNumbers DEF AppearanceRows, CA!AppearanceAssumption
        <5> QED
          BY <5>1, NewCandidates
      <4> QED
        BY <3>2, <4>1, <4>2, NewCandidateRows
    <3> QED
      BY <3>1, <3>2
  <2> QED
    BY <2>1, <2>3, <2>4 DEF AppearanceRows, CA!TypeOK
<1>7. Rows /\ Events1
  BY <1>3, <1>4, <1>5, <1>6
<1>8. CA!TypeOK'
  BY <1>1, <1>7 DEF AppearanceRows, CA!TypeOK, SameCandidates
<1>9. AppearanceRows'
  BY <1>1, <1>7, <1>8 DEF AppearanceRows
<1>10. \/ DOMAIN candidate' = DOMAIN candidate
       \/ DOMAIN candidate' = DOMAIN candidate \cup {{Test}}
       \/ \E e \in Events : /\ CA!Waiting(e) /\ event'[e].state = "processed"
                            /\ DOMAIN candidate' = DOMAIN candidate \cup {{e}}
  BY <1>3, <1>4, <1>5, <1>6
<1> HIDE DEF Rows
<1> QED
  BY <1>1, <1>2, <1>7, <1>9, <1>10 DEF Rows

-----------------------------------------------------------------------------
(* The controls                                                            *)

Controlling ==
  \/ \E u \in Members : \/ \E until \in {CA!Never, hour + 1} : CA!SetQuiet(u, until)
                        \/ CA!SetCallbackConsent(u)
  \/ \E off \in BOOLEAN : CA!SetGlobalDisabled(off)
  \/ CA!WithdrawEntry
  \/ \E c \in DOMAIN post, u \in Members : \/ CA!RecordFeedback(c, u, "quiet", hour + 1)
                                           \/ CA!RecordFeedback(c, u, "sentiment", CA!Never)

LEMMA AllPosts ==
  ASSUME AppearanceRows, post' = CA!Cancelled(DOMAIN post)
  PROVE  /\ SamePosts
         /\ \A c \in DOMAIN post : post'[c].state = "pending" => post'[c].tried
<1>1. /\ SamePosts /\ \A c \in DOMAIN post : post'[c].tried = post[c].tried
      /\ \A c \in DOMAIN post \cap DOMAIN post : post'[c].state = "pending" => post'[c].tried
  BY CancelledAreSame
<1> QED
  BY <1>1

LEMMA NoneIsAllowed ==
  ASSUME SamePosts, \A c \in DOMAIN post : post'[c].state = "pending" => post'[c].tried
  PROVE  Allowed'
BY DEF SamePosts, Allowed, AllowedPost

LEMMA QuietSteps ==
  ASSUME CA!AppearanceAssumption, AppearanceRows, Allowed, NEW u \in Members,
         UNCHANGED <<hour, mode, callbacks, shared, candidate>>,
         \/ \E until \in {CA!Never, hour + 1} : CA!SetQuiet(u, until)
         \/ \E c \in DOMAIN post, class \in {"quiet", "sentiment"},
                 until \in {CA!Never, hour + 1} :
              CA!RecordFeedback(c, u, class, until)
  PROVE  /\ SamePosts /\ Allowed'
         /\ controls' \in [disabled : BOOLEAN, quiet : CA!Never..(MaxClock + 1), by : Members]
<1>1. /\ controls \in [disabled : BOOLEAN, quiet : CA!Never..(MaxClock + 1), by : Members]
      /\ hour \in 0..MaxClock /\ MaxClock \in Nat /\ Owner \in Members
  BY PolicyNumbers DEF AppearanceRows, CA!AppearanceAssumption
<1>2. \A until \in {CA!Never, hour + 1} : until \in CA!Never..(MaxClock + 1)
  BY <1>1 DEF CA!Never
<1> DEFINE Quieted ==
      /\ controls' \in [disabled : BOOLEAN, quiet : CA!Never..(MaxClock + 1), by : Members]
      /\ \/ post' = CA!Cancelled(DOMAIN post)
         \/ post' = post /\ controls'.disabled = controls.disabled
              /\ (controls'.quiet = controls.quiet \/ controls'.quiet = CA!Never)
<1>3. Quieted
  <2>1. ASSUME NEW until \in {CA!Never, hour + 1}, CA!SetQuiet(u, until)
        PROVE  Quieted
    <3>1. CASE /\ controls' = [controls EXCEPT !.quiet = until, !.by = u]
               /\ post' = CA!Cancelled(DOMAIN post)
      BY <1>1, <1>2, <3>1
    <3>2. CASE controls' = [controls EXCEPT !.quiet = CA!Never, !.by = Owner] /\ post' = post
      BY <1>1, <1>2, <3>2
    <3> QED
      BY <2>1, <3>1, <3>2 DEF CA!SetQuiet
  <2>2. ASSUME NEW c \in DOMAIN post, NEW class \in {"quiet", "sentiment"},
               NEW until \in {CA!Never, hour + 1}, CA!RecordFeedback(c, u, class, until)
        PROVE  Quieted
    <3>1. CASE post' = CA!Cancelled(DOMAIN post)
      BY <1>1, <1>2, <2>2, <3>1 DEF CA!RecordFeedback
    <3>2. CASE UNCHANGED <<controls, post>>
      BY <1>1, <3>2
    <3> QED
      BY <2>2, <3>1, <3>2 DEF CA!RecordFeedback
  <2> QED
    BY <2>1, <2>2
<1>4. CASE post' = CA!Cancelled(DOMAIN post)
  BY <1>3, <1>4, AllPosts, NoneIsAllowed
<1>5. CASE post' = post /\ controls'.disabled = controls.disabled
             /\ (controls'.quiet = controls.quiet \/ controls'.quiet = CA!Never)
  <2>1. SamePosts
    BY <1>5, UnchangedPosts
  <2>2. controls'.quiet > hour => controls.quiet > hour
    BY <1>1, <1>5 DEF CA!Never
  <2>3. Allowed'
    BY <1>5, <2>2 DEF Allowed, AllowedPost
  <2> QED
    BY <1>3, <2>1, <2>3
<1> QED
  BY <1>3, <1>4, <1>5

LEMMA ControlSteps ==
  ASSUME CA!AppearanceAssumption, AppearanceRows, Allowed, Controlling
  PROVE  /\ AppearanceRows' /\ SamePosts /\ Allowed'
         /\ UNCHANGED <<hour, mode, seen, activity, channel, event, candidate, decision, held>>
<1>1. UNCHANGED <<hour, mode, seen, activity, channel, event, candidate, decision, held>>
  BY DEF Controlling, CA!SetQuiet, CA!SetCallbackConsent, CA!SetGlobalDisabled,
         CA!WithdrawEntry, CA!RecordFeedback
<1> DEFINE ControlRow == [disabled : BOOLEAN, quiet : CA!Never..(MaxClock + 1), by : Members]
<1>2. controls \in ControlRow /\ callbacks \subseteq Members /\ shared \in BOOLEAN
  BY DEF AppearanceRows
<1> DEFINE Goal == /\ SamePosts /\ Allowed' /\ controls' \in ControlRow
                   /\ callbacks' \subseteq Members /\ shared' \in BOOLEAN
<1>3. Goal
  <2>1. ASSUME NEW u \in Members,
               \/ \E until \in {CA!Never, hour + 1} : CA!SetQuiet(u, until)
               \/ \E c \in DOMAIN post, class \in {"quiet", "sentiment"},
                 until \in {CA!Never, hour + 1} :
                    CA!RecordFeedback(c, u, class, until)
        PROVE  Goal
    <3>1. UNCHANGED <<hour, mode, callbacks, shared, candidate>>
      BY <2>1 DEF CA!SetQuiet, CA!RecordFeedback
    <3> QED
      BY <1>2, <2>1, <3>1, QuietSteps
  <2>2. ASSUME NEW u \in Members, CA!SetCallbackConsent(u)
        PROVE  Goal
    <3>1. UNCHANGED <<mode, controls, shared>> /\ callbacks' \subseteq Members
      BY <1>2, <2>2 DEF CA!SetCallbackConsent
    <3>2. CASE u \in callbacks
      <4> DEFINE about == {c \in DOMAIN post : u \in post[c].who}
      <4>1. post' = CA!Cancelled(about) /\ callbacks' = callbacks \ {u}
        BY <2>2, <3>2 DEF CA!SetCallbackConsent
      <4>2. /\ SamePosts /\ \A c \in DOMAIN post : post'[c].tried = post[c].tried
            /\ \A c \in about \cap DOMAIN post : post'[c].state = "pending" => post'[c].tried
        BY <4>1, CancelledAreSame
      <4>3. Allowed'
        <5>1. ASSUME NEW c \in DOMAIN post, post'[c].state = "pending", ~post'[c].tried
              PROVE  post[c].state = "pending" /\ ~post[c].tried /\ u \notin post[c].who
          BY <4>2, <5>1 DEF SamePosts
        <5>2. ASSUME NEW c \in DOMAIN post
              PROVE  AllowedPost(c)'
          <6>1. AllowedPost(c) /\ post'[c].epoch = post[c].epoch /\ post'[c].who = post[c].who
            BY <4>2 DEF Allowed, SamePosts
          <6> QED
            BY <1>1, <3>1, <4>1, <5>1, <6>1 DEF AllowedPost
        <5> QED
          BY <4>2, <5>2 DEF Allowed, SamePosts
      <4> QED
        BY <1>2, <3>1, <4>2, <4>3
    <3>3. CASE u \notin callbacks
      <4>1. post' = post /\ callbacks' = callbacks \cup {u}
        BY <2>2, <3>3 DEF CA!SetCallbackConsent
      <4>2. SamePosts
        BY <4>1, UnchangedPosts
      <4>3. Allowed'
        BY <1>1, <3>1, <4>1 DEF Allowed, AllowedPost
      <4> QED
        BY <1>2, <3>1, <4>2, <4>3
    <3> QED
      BY <3>2, <3>3
  <2>3. ASSUME NEW off \in BOOLEAN, CA!SetGlobalDisabled(off)
        PROVE  Goal
    <3>1. /\ UNCHANGED <<mode, callbacks, shared>>
          /\ controls' = [controls EXCEPT !.disabled = off]
          /\ post' = IF off THEN CA!Cancelled(DOMAIN post) ELSE post
      BY <2>3 DEF CA!SetGlobalDisabled
    <3>2. controls' \in ControlRow /\ controls'.disabled = off /\ controls'.quiet = controls.quiet
      BY <1>2, <3>1
    <3>3. CASE off
      BY <1>2, <3>1, <3>2, <3>3, AllPosts, NoneIsAllowed
    <3>4. CASE ~off
      <4>1. SamePosts
        BY <3>1, <3>4, UnchangedPosts
      <4>2. Allowed'
        BY <1>1, <3>1, <3>2, <3>4 DEF Allowed, AllowedPost
      <4> QED
        BY <1>2, <3>1, <3>2, <4>1, <4>2
    <3> QED
      BY <3>3, <3>4
  <2>4. CASE CA!WithdrawEntry
    <3> DEFINE about == {c \in DOMAIN post : CA!Themed(c)}
    <3>1. /\ UNCHANGED <<mode, controls, callbacks>> /\ shared' = FALSE
          /\ post' = CA!Cancelled(about)
      BY <2>4 DEF CA!WithdrawEntry
    <3>2. /\ SamePosts /\ \A c \in DOMAIN post : post'[c].tried = post[c].tried
          /\ \A c \in about \cap DOMAIN post : post'[c].state = "pending" => post'[c].tried
      BY <3>1, CancelledAreSame
    <3>3. Allowed'
      <4>1. ASSUME NEW c \in DOMAIN post, post'[c].state = "pending", ~post'[c].tried
            PROVE  post[c].state = "pending" /\ ~post[c].tried /\ ~candidate[c].theme
        BY <3>2, <4>1 DEF SamePosts, CA!Themed
      <4>2. ASSUME NEW c \in DOMAIN post
            PROVE  AllowedPost(c)'
        <5>1. AllowedPost(c) /\ post'[c].epoch = post[c].epoch /\ post'[c].who = post[c].who
          BY <3>2 DEF Allowed, SamePosts
        <5> QED
          BY <1>1, <3>1, <4>1, <5>1 DEF AllowedPost
      <4> QED
        BY <3>2, <4>2 DEF Allowed, SamePosts
    <3> QED
      BY <1>2, <3>1, <3>2, <3>3
  <2>5. ASSUME NEW u \in Members, NEW c \in DOMAIN post,
               \/ CA!RecordFeedback(c, u, "quiet", hour + 1)
               \/ CA!RecordFeedback(c, u, "sentiment", CA!Never)
        PROVE  Goal
    <3>1. \E class \in {"quiet", "sentiment"}, until \in {CA!Never, hour + 1} :
            CA!RecordFeedback(c, u, class, until)
      BY <2>5
    <3> HIDE DEF Goal
    <3> QED
      BY <2>1, <3>1
  <2> HIDE DEF Goal
  <2> QED
    BY <2>1, <2>2, <2>3, <2>4, <2>5 DEF Controlling
<1>4. \A c \in DOMAIN post' : post'[c] \in PostRow
  BY <1>3 DEF SamePosts
<1>5. CA!TypeOK'
  BY <1>1, <1>3 DEF AppearanceRows, CA!TypeOK, SamePosts
<1> QED
  BY <1>1, <1>3, <1>4, <1>5 DEF AppearanceRows

-----------------------------------------------------------------------------
(* The outbox and the life of the process                                  *)

LEMMA PostSteps ==
  ASSUME AppearanceRows, Allowed, NEW c \in DOMAIN post,
         CA!Attempt(c) \/ \E state \in {"delivered", "failed"} : CA!Delivery(c, state)
  PROVE  /\ AppearanceRows' /\ SamePosts /\ Allowed'
         /\ UNCHANGED <<hour, mode, controls, callbacks, shared, seen, activity, event,
                        candidate, decision, held>>
         /\ channel'.humans = channel.humans
<1>1. UNCHANGED <<hour, mode, controls, callbacks, shared, seen, activity, event,
                  candidate, decision, held>>
  BY DEF CA!Attempt, CA!Delivery
<1>2. channel' \in [humans : Nat, bot : BOOLEAN] /\ channel'.humans = channel.humans
  <2>1. channel \in [humans : Nat, bot : BOOLEAN]
    BY DEF AppearanceRows
  <2> QED
    BY <2>1 DEF CA!Attempt, CA!Delivery
<1> DEFINE Moved(row) ==
      /\ row \in PostRow /\ row.at = post[c].at /\ row.count = post[c].count
      /\ row.test = post[c].test /\ row.epoch = post[c].epoch /\ row.who = post[c].who
      /\ row.state = "pending" => row.tried
<1>3. \E row : /\ post' = [post EXCEPT ![c] = row] /\ post[c].state = "pending"
               /\ Moved(row)
  <2>1. post[c] \in PostRow
    BY DEF AppearanceRows
  <2>2. CASE CA!Attempt(c)
    <3> DEFINE row == [post[c] EXCEPT !.tried = TRUE]
    <3>1. Moved(row)
      BY <2>1 DEF PostRow
    <3>2. post' = [post EXCEPT ![c] = row] /\ post[c].state = "pending"
      BY <2>2 DEF CA!Attempt
    <3> HIDE DEF row, Moved
    <3> QED
      BY <3>1, <3>2
  <2>3. ASSUME NEW state \in {"delivered", "failed"}, CA!Delivery(c, state)
        PROVE  \E row : /\ post' = [post EXCEPT ![c] = row] /\ post[c].state = "pending"
                        /\ Moved(row)
    <3> DEFINE row == [post[c] EXCEPT !.state = state]
    <3>1. Moved(row)
      BY <2>1 DEF PostRow
    <3>2. post' = [post EXCEPT ![c] = row] /\ post[c].state = "pending"
      BY <2>3 DEF CA!Delivery
    <3> HIDE DEF row, Moved
    <3> QED
      BY <3>1, <3>2
  <2> HIDE DEF Moved
  <2> QED
    BY <2>2, <2>3
<1>4. PICK row : /\ post' = [post EXCEPT ![c] = row] /\ post[c].state = "pending"
                 /\ Moved(row)
  BY <1>3
<1>5. /\ DOMAIN post' = DOMAIN post /\ post'[c] = row
      /\ \A d \in DOMAIN post \ {c} : post'[d] = post[d]
  BY <1>4
<1>6. SamePosts
  BY <1>4, <1>5 DEF SamePosts, AppearanceRows
<1>7. Allowed'
  BY <1>1, <1>4, <1>5 DEF Allowed, AllowedPost
<1>8. CA!TypeOK' /\ \A d \in DOMAIN post' : post'[d] \in PostRow
  BY <1>1, <1>6 DEF AppearanceRows, CA!TypeOK, SamePosts
<1> QED
  BY <1>1, <1>2, <1>6, <1>7, <1>8 DEF AppearanceRows

LEMMA Restarts ==
  ASSUME AppearanceRows, Allowed, NEW m \in CA!Modes, CA!Restart(m)
  PROVE  /\ AppearanceRows' /\ SamePosts /\ SameCandidates /\ Allowed'
         /\ DOMAIN candidate' = DOMAIN candidate
         /\ UNCHANGED <<hour, seen, activity, channel>>
         /\ \A e \in Events : event[e].state = "processed" => event'[e].state = "processed"
<1>1. UNCHANGED <<hour, controls, callbacks, shared, seen, activity, channel>>
      /\ DOMAIN held' = {}
  BY DEF CA!Restart, CA!Within
<1>2. mode' \in [name : CA!Modes, since : Nat] /\ (m = mode.name => mode' = mode)
  <2>1. mode \in [name : CA!Modes, since : Nat]
    BY DEF AppearanceRows
  <2>2. mode' = IF m = mode.name THEN mode ELSE [name |-> m, since |-> mode.since + 1]
    BY DEF CA!Restart, CA!ActivatedMode
  <2> QED
    BY <2>1, <2>2
<1>3. /\ event' \in [Events -> [state : {"absent", "waiting", "processed"}, at : Nat]]
      /\ \A e \in Events : event[e].state = "processed" => event'[e].state = "processed"
  BY DEF CA!Restart, AppearanceRows
<1>4. /\ DOMAIN candidate' = DOMAIN candidate /\ SameCandidates
      /\ \A c \in DOMAIN candidate' : candidate'[c] \in CandidateRow
  <2> DEFINE D == {c \in DOMAIN candidate : CA!Undecided(c)}
  <2>1. candidate' = [c \in DOMAIN candidate |->
                        IF c \in D THEN [candidate[c] EXCEPT !.started = FALSE]
                        ELSE candidate[c]]
    BY DEF CA!Restart
  <2> HIDE DEF D
  <2>2. D \subseteq DOMAIN candidate
    BY DEF D
  <2> QED
    BY <2>1, <2>2, StartedRows
<1>5. /\ DOMAIN decision' = DOMAIN decision
      /\ \A c \in DOMAIN decision :
           /\ decision'[c] \in DecisionRow /\ decision'[c].state = "final"
           /\ \/ decision'[c] = decision[c]
              \/ decision[c].state = "model_pending" /\ decision'[c].action = "reject"
  BY DEF CA!Restart, AppearanceRows, DecisionRow
<1>6. /\ SamePosts
      /\ m # mode.name => \A c \in DOMAIN post : post'[c].state = "pending" => post'[c].tried
      /\ m = mode.name => post' = post
  <2>1. CASE m # mode.name
    <3>1. post' = CA!Cancelled(DOMAIN post)
      BY <2>1 DEF CA!Restart
    <3> QED
      BY <2>1, <3>1, AllPosts
  <2>2. CASE m = mode.name
    <3>1. post' = post
      BY <2>2 DEF CA!Restart
    <3> QED
      BY <2>2, <3>1, UnchangedPosts
  <2> QED
    BY <2>1, <2>2
<1>7. Allowed'
  <2>1. CASE m # mode.name
    BY <1>6, <2>1, NoneIsAllowed
  <2>2. CASE m = mode.name
    BY <1>1, <1>2, <1>4, <1>6, <2>2 DEF Allowed, AllowedPost, SameCandidates, AppearanceRows,
                                        CA!TypeOK
  <2> QED
    BY <2>1, <2>2
<1>8. CA!TypeOK'
  BY <1>1, <1>2, <1>4, <1>5, <1>6 DEF AppearanceRows, CA!TypeOK, SamePosts
<1>9. \A c \in DOMAIN post' : post'[c] \in PostRow
  BY <1>6 DEF SamePosts
<1> QED
  BY <1>1, <1>2, <1>3, <1>4, <1>5, <1>6, <1>7, <1>8, <1>9 DEF AppearanceRows

LEMMA Ticks ==
  ASSUME CA!AppearanceAssumption, AppearanceRows, Allowed,
         CA!Tick \/ \E c \in DOMAIN held : CA!CompletionLost(c)
  PROVE  /\ AppearanceRows' /\ SamePosts /\ Allowed'
         /\ UNCHANGED <<seen, channel, event, candidate, decision, post>>
         /\ hour <= hour' /\ DOMAIN activity' \subseteq DOMAIN activity
         /\ \A x \in DOMAIN activity' : activity'[x] = activity[x]
<1>1. UNCHANGED <<mode, controls, callbacks, shared, seen, channel, event, candidate,
                  decision, post>>
  BY DEF CA!Tick, CA!CompletionLost, CA!rows
<1>2. hour' \in 0..MaxClock /\ hour <= hour'
  <2>1. hour \in 0..MaxClock /\ MaxClock \in Nat
    BY PolicyNumbers DEF AppearanceRows
  <2> QED
    BY <2>1 DEF CA!Tick, CA!CompletionLost
<1>3. /\ DOMAIN activity' \subseteq DOMAIN activity
      /\ \A x \in DOMAIN activity' : activity'[x] = activity[x]
  <2>1. CASE CA!Tick
    <3> DEFINE left == {x \in DOMAIN activity : activity[x].at > hour - Window}
    <3>1. activity' = [x \in left |-> activity[x]]
      BY <2>1 DEF CA!Tick, CA!Within
    <3> QED
      BY <3>1
  <2>2. CASE \E c \in DOMAIN held : CA!CompletionLost(c)
    BY <2>2 DEF CA!CompletionLost, CA!rows
  <2> QED
    BY <2>1, <2>2
<1>4. DOMAIN held' \subseteq DOMAIN held
  BY DEF CA!Tick, CA!CompletionLost, CA!Release, CA!Within
<1>5. SamePosts
  BY <1>1, UnchangedPosts
<1>6. Allowed'
  <2>1. controls.quiet \in Int /\ hour \in Int /\ hour' \in Int
    BY <1>2, PolicyNumbers DEF AppearanceRows, CA!Never
  <2>2. controls.quiet > hour' => controls.quiet > hour
    BY <1>2, <2>1
  <2> QED
    BY <1>1, <2>2 DEF Allowed, AllowedPost
<1>7. CA!TypeOK'
  BY <1>1, <1>4 DEF AppearanceRows, CA!TypeOK
<1> QED
  BY <1>1, <1>2, <1>3, <1>5, <1>6, <1>7 DEF AppearanceRows

LEMMA QueuedIsAllowed ==
  ASSUME CA!AppearanceAssumption, AppearanceRows, Allowed, NEW c \in DOMAIN candidate, Queues(c),
         UNCHANGED <<hour, mode, controls, callbacks, shared, candidate>>
  PROVE  Allowed'
<1>1. PICK fixture \in BOOLEAN : CA!FreshGates(c, fixture)
  BY DEF Queues
<1>2. /\ DOMAIN post' = DOMAIN post \cup {c} /\ post'[c] = CA!LiveEffects(c)
      /\ \A d \in DOMAIN post \ {c} : post'[d] = post[d]
  BY DEF Queues, CA!With
<1>3. ~controls.disabled /\ ~(controls.quiet > hour)
  BY <1>1 DEF CA!FreshGates, CA!ControlGates
<1>4. candidate[c].theme => shared /\ Subject \in callbacks
  BY <1>1 DEF CA!FreshGates, CA!SourceAvailable, CA!Themed
<1>5. /\ candidate[c].actors \subseteq callbacks
      /\ ~candidate[c].test => CA!ActiveActors \subseteq callbacks
  BY <1>1 DEF CA!FreshGates, CA!Consent
<1>6. post'[c].who \subseteq callbacks /\ post'[c].epoch = mode.since
  BY <1>2, <1>4, <1>5 DEF CA!LiveEffects, CA!SourceUsers, CA!Themed
<1>7. ASSUME NEW d \in DOMAIN post'
      PROVE  AllowedPost(d)'
  <2>1. CASE d = c
    BY <1>3, <1>4, <1>6, <2>1 DEF AllowedPost
  <2>2. CASE d # c
    BY <1>2, <2>2 DEF Allowed, AllowedPost
  <2> QED
    BY <2>1, <2>2
<1> QED
  BY <1>7 DEF Allowed

-----------------------------------------------------------------------------
(* How far apart posts are                                                 *)

Before(c) == {d \in DOMAIN post \ {c} :
                post[d].test = post[c].test /\ post[d].at <= post[c].at}
Near(c)   == {d \in Before(c) : post[d].at > post[c].at - BudgetWindow}
RarePost(c) ==
  /\ Cardinality(Near(c)) < BudgetMax
  /\ \A d \in Near(c) : /\ post[c].at - post[d].at >= MinGap
                        /\ post[c].count - post[d].count >= AfterPrevious
  /\ candidate[c].theme => \A d \in Before(c) :
       candidate[d].theme => post[c].at - post[d].at >= ThemeCooldown

LEMMA RareIs == CA!RareAppearances <=> \A c \in DOMAIN post : RarePost(c)
BY SameCounts DEF CA!RareAppearances, RarePost, Before, Near, CA!Themed

LEMMA RareThen == (\A c \in DOMAIN post : RarePost(c))' => CA!RareAppearances'
BY RareIs, PTL

LEMMA PostsAreCandidates ==
  ASSUME AppearanceRows
  PROVE  DOMAIN post \subseteq DOMAIN candidate
BY DEF AppearanceRows, CA!TypeOK

LEMMA SameRarity ==
  ASSUME AppearanceRows, OneByOne, CA!RareAppearances, SamePosts, SameCandidates,
         hour \in Int, hour' \in Int, hour <= hour', channel.humans \in Int,
         channel'.humans \in Int, channel.humans <= channel'.humans
  PROVE  OneByOne' /\ CA!RareAppearances'
<1>1. /\ DOMAIN post' = DOMAIN post
      /\ \A c \in DOMAIN post :
           /\ post'[c].at = post[c].at /\ post'[c].count = post[c].count
           /\ post'[c].test = post[c].test /\ candidate'[c].theme = candidate[c].theme
           /\ post[c].at \in Int /\ post[c].count \in Int
  BY PostsAreCandidates DEF SamePosts, SameCandidates, AppearanceRows, PostRow
<1>2. OneByOne'
  BY <1>1 DEF OneByOne
<1>3. ASSUME NEW c \in DOMAIN post
      PROVE  RarePost(c)'
  <2>1. Before(c)' = Before(c)
    BY <1>1 DEF Before
  <2>2. Near(c)' = Near(c) /\ Near(c) \subseteq Before(c) /\ Before(c) \subseteq DOMAIN post
    BY <1>1, <2>1 DEF Near, Before
  <2>3. RarePost(c)
    BY RareIs
  <2> QED
    BY <1>1, <2>1, <2>2, <2>3 DEF RarePost
<1> QED
  <2>1. \A c \in DOMAIN post' : RarePost(c)'
    BY <1>1, <1>3
  <2> QED
    BY <1>2, <2>1, RareThen

(* What a post of this moment would find in its window.                    *)
InWindow(test) ==
  {d \in DOMAIN post : post[d].test = test /\ post[d].at > hour - BudgetWindow}

LEMMA BudgetAllows ==
  ASSUME CA!AppearanceAssumption, AppearanceRows, OneByOne, mode.name = "live",
         NEW themed, NEW test \in BOOLEAN, CA!BudgetGates(themed, test, TRUE)
  PROVE  /\ Cardinality(InWindow(test)) < BudgetMax
         /\ \A d \in DOMAIN post : post[d].test = test =>
              /\ post[d].at < hour
              /\ d \in InWindow(test) => /\ hour - post[d].at >= MinGap
                                         /\ channel.humans - post[d].count >= AfterPrevious
<1> DEFINE Line(d) == [at |-> post[d].at, count |-> post[d].count, theme |-> CA!Themed(d)]
           Used == {s \in CA!Spent(test) : s.at > hour - BudgetWindow}
           Times == {s.at : s \in Used}
           last == CA!Greatest(Times)
<1>1. CA!Spent(test) = {Line(d) : d \in {x \in DOMAIN post : post[x].test = test}}
  BY DEF CA!Spent
<1>2. Used = {Line(d) : d \in InWindow(test)}
  BY <1>1 DEF InWindow
<1>3. /\ CA!Cardinality(Used) < BudgetMax
      /\ Used # {} => /\ hour - last >= MinGap
                      /\ \A s \in Used : s.at = last => channel.humans - s.count >= AfterPrevious
  BY DEF CA!BudgetGates
<1>4. /\ hour \in Nat /\ channel.humans \in Nat /\ MinGap \in Nat \ {0}
      /\ BudgetWindow \in Nat \ {0} /\ AfterPrevious \in Nat /\ BudgetMax \in Nat
      /\ \A d \in DOMAIN post : post[d].at \in Nat /\ post[d].count \in Nat /\ post[d].at <= hour
  BY PolicyNumbers DEF AppearanceRows, OneByOne, PostRow
<1>5. InWindow(test) \subseteq DOMAIN post
  BY DEF InWindow
<1>6. Cardinality(InWindow(test)) < BudgetMax
  <2> DEFINE f == [d \in InWindow(test) |-> Line(d)]
  <2>1. \A d \in InWindow(test) : f[d] \in Used /\ f[d].at = post[d].at
    BY <1>2
  <2>2. f \in [InWindow(test) -> Used] /\ \A s \in Used : \E d \in InWindow(test) : f[d] = s
    BY <1>2, <2>1
  <2>3. \A d, e \in InWindow(test) : f[d] = f[e] => d = e
    <3>1. SUFFICES ASSUME NEW d \in InWindow(test), NEW e \in InWindow(test), f[d] = f[e], d # e
                   PROVE  FALSE
      OBVIOUS
    <3>2. post[d].at = post[e].at
      BY <2>1, <3>1
    <3>3. post[d].at # post[e].at
      BY <3>1 DEF InWindow, OneByOne
    <3> QED
      BY <3>2, <3>3
  <2> HIDE DEF f, Used
  <2>4. f \in Bijection(InWindow(test), Used)
    BY <2>2, <2>3 DEF Bijection, Injection, Surjection, IsInjective
  <2>5. IsFiniteSet(InWindow(test))
    BY <1>5, FS_Subset DEF OneByOne
  <2>6. Cardinality(Used) = Cardinality(InWindow(test))
    BY <2>4, <2>5, FS_Bijection DEF ExistsBijection
  <2> QED
    BY <1>3, <2>6, SameCounts
<1>7. ASSUME NEW d \in DOMAIN post, post[d].test = test
      PROVE  /\ post[d].at < hour
             /\ d \in InWindow(test) => /\ hour - post[d].at >= MinGap
                                        /\ channel.humans - post[d].count >= AfterPrevious
  <2>1. CASE d \notin InWindow(test)
    BY <1>4, <1>7, <2>1 DEF InWindow
  <2>2. CASE d \in InWindow(test)
    <3>1. Times \in SUBSET (0..hour) /\ post[d].at \in Times
      <4>1. ASSUME NEW s \in Used
            PROVE  s.at \in 0..hour
        <5>1. PICK e \in InWindow(test) : s = Line(e)
          BY <1>2
        <5>2. s.at = post[e].at /\ e \in DOMAIN post
          BY <1>5, <5>1
        <5> QED
          BY <1>4, <5>2
      <4>2. Line(d) \in Used /\ Line(d).at = post[d].at
        BY <1>2, <2>2
      <4> HIDE DEF Used
      <4> QED
        BY <4>1, <4>2
    <3> HIDE DEF Times
    <3>2. last \in Times /\ post[d].at <= last
      BY <1>4, <3>1, GreatestIs
    <3>3. PICK s \in Used : s.at = last
      BY <3>2 DEF Times
    <3>4. PICK e \in InWindow(test) : s = Line(e)
      BY <1>2
    <3>5. /\ post[e].at = last /\ hour - last >= MinGap
          /\ channel.humans - post[e].count >= AfterPrevious
      BY <1>3, <3>3, <3>4
    <3>6. post[d].count <= post[e].count
      <4>1. e \in DOMAIN post /\ post[e].test = test
        BY <3>4 DEF InWindow
      <4>2. CASE d = e
        BY <1>4, <4>2
      <4>3. CASE d # e
        <5>1. post[d].at # post[e].at /\ (post[d].at < post[e].at => post[d].count <= post[e].count)
          BY <1>7, <4>1, <4>3 DEF OneByOne
        <5>2. post[d].at \in Nat /\ post[e].at \in Nat /\ post[d].at <= post[e].at
          BY <1>4, <3>2, <3>5, <4>1
        <5> HIDE DEF last, Line, Used
        <5> QED
          BY <5>1, <5>2
      <4> QED
        BY <4>2, <4>3
    <3>7. e \in DOMAIN post
      BY <1>5, <3>4
    <3> HIDE DEF last
    <3> QED
      BY <1>4, <3>2, <3>5, <3>6, <3>7
  <2> QED
    BY <2>1, <2>2
<1> QED
  BY <1>6, <1>7

LEMMA ThemeAllows ==
  ASSUME AppearanceRows, mode.name = "live", ThemeCooldown \in Nat, NEW test,
         CA!ThemeRested(TRUE, test)
  PROVE  \A d \in DOMAIN post : post[d].test = test /\ candidate[d].theme =>
           hour - post[d].at >= ThemeCooldown
<1>1. CA!Spent(test) = {[at |-> post[d].at, count |-> post[d].count, theme |-> CA!Themed(d)] :
                          d \in {x \in DOMAIN post : post[x].test = test}}
  BY DEF CA!Spent
<1>2. \A s \in CA!Spent(test) : ~(s.theme /\ s.at > hour - ThemeCooldown)
  BY DEF CA!ThemeRested
<1>3. ASSUME NEW d \in DOMAIN post, post[d].test = test, candidate[d].theme
      PROVE  hour - post[d].at >= ThemeCooldown
  <2>1. ~(post[d].at > hour - ThemeCooldown)
    <3> DEFINE s == [at |-> post[d].at, count |-> post[d].count, theme |-> CA!Themed(d)]
    <3>1. s \in CA!Spent(test)
      BY <1>1, <1>3
    <3> QED
      BY <1>2, <1>3, <3>1 DEF CA!Themed
  <2>2. hour \in Int /\ post[d].at \in Int
    BY DEF AppearanceRows, PostRow
  <2> QED
    BY <2>1, <2>2
<1> QED
  BY <1>3

LEMMA QueuedIsRare ==
  ASSUME CA!AppearanceAssumption, AppearanceRows, OneByOne, CA!RareAppearances,
         NEW c \in DOMAIN candidate, c \notin DOMAIN post, Queues(c),
         UNCHANGED <<hour, channel, candidate>>
  PROVE  OneByOne' /\ CA!RareAppearances'
<1>1. /\ DOMAIN post' = DOMAIN post \cup {c} /\ post'[c] = CA!LiveEffects(c)
      /\ \A d \in DOMAIN post : post'[d] = post[d]
  BY DEF Queues, CA!With
<1>2. /\ post'[c].at = hour /\ post'[c].count = channel.humans
      /\ post'[c].test = candidate[c].test
  BY <1>1 DEF CA!LiveEffects
<1> DEFINE test == candidate[c].test
<1>3. PICK fixture \in BOOLEAN : CA!FreshGates(c, fixture)
  BY DEF Queues
<1>4. /\ Cardinality(InWindow(test)) < BudgetMax
      /\ \A d \in DOMAIN post : post[d].test = test =>
           /\ post[d].at < hour
           /\ d \in InWindow(test) => /\ hour - post[d].at >= MinGap
                                      /\ channel.humans - post[d].count >= AfterPrevious
  <2>1. test \in BOOLEAN
    BY DEF AppearanceRows, CandidateRow
  <2>2. CA!BudgetGates(CA!Themed(c), test, TRUE)
    BY <1>3 DEF CA!FreshGates
  <2>3. mode.name = "live"
    BY DEF Queues
  <2> HIDE DEF test
  <2> QED
    BY <2>1, <2>2, <2>3, BudgetAllows
<1>5. candidate[c].theme => \A d \in DOMAIN post : post[d].test = test /\ candidate[d].theme =>
                              hour - post[d].at >= ThemeCooldown
  <2>1. SUFFICES ASSUME candidate[c].theme
                 PROVE  \A d \in DOMAIN post : post[d].test = test /\ candidate[d].theme =>
                          hour - post[d].at >= ThemeCooldown
    OBVIOUS
  <2>2. CA!Themed(c) = TRUE
    BY <2>1 DEF AppearanceRows, CandidateRow, CA!Themed
  <2>3. CA!ThemeRested(TRUE, test)
    BY <1>3, <2>2 DEF CA!FreshGates
  <2>4. mode.name = "live" /\ ThemeCooldown \in Nat
    BY PolicyNumbers DEF Queues
  <2> HIDE DEF test
  <2> QED
    BY <2>3, <2>4, ThemeAllows
<1>6. /\ hour \in Int /\ channel.humans \in Int
      /\ \A d \in DOMAIN post : /\ post[d].at \in Int /\ post[d].count \in Int
                                /\ post[d].at <= hour /\ post[d].count <= channel.humans
  BY DEF AppearanceRows, PostRow, OneByOne
<1>7. OneByOne'
  <2>1. IsFiniteSet(DOMAIN post')
    BY <1>1, FS_AddElement DEF OneByOne
  <2>2. \A d \in DOMAIN post' : post'[d].at <= hour' /\ post'[d].count <= channel'.humans
    BY <1>1, <1>2, <1>6
  <2>3. ASSUME NEW d \in DOMAIN post', NEW e \in DOMAIN post', d # e, post'[d].test = post'[e].test
        PROVE  /\ post'[d].at # post'[e].at
               /\ post'[e].at < post'[d].at => post'[e].count <= post'[d].count
    <3>1. CASE d = c
      BY <1>1, <1>2, <1>4, <1>6, <2>3, <3>1
    <3>2. CASE e = c
      BY <1>1, <1>2, <1>4, <1>6, <2>3, <3>2
    <3>3. CASE d # c /\ e # c
      BY <1>1, <2>3, <3>3 DEF OneByOne
    <3> QED
      BY <3>1, <3>2, <3>3
  <2> QED
    BY <2>1, <2>2, <2>3 DEF OneByOne
<1>8. RarePost(c)'
  <2>1. Before(c)' = {d \in DOMAIN post : post[d].test = test}
    BY <1>1, <1>2, <1>6 DEF Before
  <2>2. Near(c)' = InWindow(test)
    BY <1>1, <1>2, <2>1 DEF Near, InWindow
  <2>3. InWindow(test) \subseteq {d \in DOMAIN post : post[d].test = test}
    BY DEF InWindow
  <2> QED
    BY <1>1, <1>2, <1>4, <1>5, <2>1, <2>2, <2>3 DEF RarePost
<1>9. ASSUME NEW d \in DOMAIN post
      PROVE  RarePost(d)'
  <2>1. Before(d)' = Before(d)
    <3>1. ~(post'[c].test = post'[d].test /\ post'[c].at <= post'[d].at)
      BY <1>1, <1>2, <1>4, <1>6
    <3> QED
      BY <1>1, <3>1 DEF Before
  <2>2. Near(d)' = Near(d) /\ Near(d) \subseteq Before(d) /\ Before(d) \subseteq DOMAIN post
    BY <1>1, <2>1 DEF Near, Before
  <2>3. RarePost(d)
    BY RareIs
  <2> QED
    BY <1>1, <2>1, <2>2, <2>3 DEF RarePost
<1> QED
  <2>1. \A d \in DOMAIN post' : RarePost(d)'
    BY <1>1, <1>8, <1>9
  <2> QED
    BY <1>7, <2>1, RareThen

-----------------------------------------------------------------------------
(* What candidates are made from                                           *)

LEMMA MadeStays ==
  ASSUME Made, DOMAIN candidate' = DOMAIN candidate, seen \subseteq seen',
         \A x \in DOMAIN activity' : x \in seen =>
           x \in DOMAIN activity /\ (activity[x].used => activity'[x].used),
         \A e \in Events : event[e].state = "processed" => event'[e].state = "processed"
  PROVE  Made'
<1>1. ASSUME NEW c \in DOMAIN candidate
      PROVE  MadeFrom(c)'
  BY DEF Made, MadeFrom
<1> QED
  BY <1>1 DEF Made, CA!MessagesUsedOnce

LEMMA MessageMakes ==
  ASSUME CA!AppearanceAssumption, AppearanceRows, Made, NEW m \in 1..MaxMessages,
         CA!ObserveMessage(m)
  PROVE  Made'
<1>1. /\ event' = event /\ seen' = seen \cup {m}
      /\ \A x \in DOMAIN activity' : x \in seen =>
           x \in DOMAIN activity /\ (activity[x].used => activity'[x].used)
      /\ UNCHANGED <<candidate, held>> \/ \E used : MadeOf(used)
  BY ObservesMessage
<1>2. CASE UNCHANGED <<candidate, held>>
  BY <1>1, <1>2, MadeStays
<1>3. ASSUME NEW used, MadeOf(used)
      PROVE  Made'
  <2>1. DOMAIN candidate' = DOMAIN candidate \cup {used}
    BY <1>3 DEF MadeOf, CA!With
  <2>2. used \subseteq seen' /\ \A x \in used \cap DOMAIN activity' : activity'[x].used
    BY <1>3 DEF MadeOf
  <2>3. ASSUME NEW c \in DOMAIN candidate
        PROVE  MadeFrom(c)' /\ c \cap used = {}
    <3>1. \A x \in used : x \notin seen \/ (x \in DOMAIN activity /\ ~activity[x].used)
      BY <1>3 DEF MadeOf
    <3>2. used \subseteq 1..MaxMessages
      BY <1>1, <2>2 DEF AppearanceRows
    <3>3. MadeFrom(c)
      BY DEF Made
    <3>4. CASE c \subseteq seen /\ \A x \in c \cap DOMAIN activity : activity[x].used
      BY <1>1, <3>1, <3>4 DEF MadeFrom
    <3>5. CASE \/ \E e \in Events : c = {e} /\ event[e].state = "processed"
               \/ c = {Test}
      BY <1>1, <3>2, <3>5 DEF MadeFrom, CA!AppearanceAssumption
    <3> QED
      BY <3>3, <3>4, <3>5 DEF MadeFrom
  <2>4. MadeFrom(used)'
    BY <2>2 DEF MadeFrom
  <2>5. \A c, d \in DOMAIN candidate' : c # d => c \cap d = {}
    BY <2>1, <2>3 DEF Made, CA!MessagesUsedOnce
  <2> QED
    BY <2>1, <2>3, <2>4, <2>5 DEF Made, CA!MessagesUsedOnce
<1> QED
  BY <1>1, <1>2, <1>3

(* An event or the test makes a candidate with nothing of another.         *)
LEMMA OneMakes ==
  ASSUME CA!AppearanceAssumption, AppearanceRows, Made, UNCHANGED <<seen, activity>>,
         \A e \in Events : event[e].state = "processed" => event'[e].state = "processed",
         NEW x, x = Test \/ (x \in Events /\ event'[x].state = "processed"),
         DOMAIN candidate' = DOMAIN candidate \cup {{x}}
  PROVE  Made'
<1>1. \A c \in DOMAIN candidate : MadeFrom(c)'
  BY DEF Made, MadeFrom
<1>2. MadeFrom({x})'
  BY DEF MadeFrom
<1>3. ASSUME NEW c \in DOMAIN candidate, c # {x}
      PROVE  c \cap {x} = {}
  <2>1. x \notin seen
    BY DEF CA!AppearanceAssumption, AppearanceRows
  <2>2. MadeFrom(c)
    BY DEF Made
  <2> QED
    BY <1>3, <2>1, <2>2 DEF MadeFrom
<1>4. \A c, d \in DOMAIN candidate' : c # d => c \cap d = {}
  BY <1>3 DEF Made, CA!MessagesUsedOnce
<1> QED
  BY <1>1, <1>2, <1>4 DEF Made, CA!MessagesUsedOnce

-----------------------------------------------------------------------------
(* The invariant of appearances                                            *)

LEMMA AppearancesStart ==
  ASSUME CA!AppearanceAssumption, CA!Init
  PROVE  AInv
<1>1. /\ DOMAIN activity = {} /\ DOMAIN candidate = {} /\ DOMAIN decision = {}
      /\ DOMAIN post = {} /\ DOMAIN held = {}
  BY DEF CA!Init, CA!Nothing
<1>2. CA!TypeOK
  BY <1>1, PolicyNumbers DEF CA!Init, CA!TypeOK, CA!Modes, CA!Never
<1>3. AppearanceRows
  <2>1. /\ hour \in 0..MaxClock /\ mode \in [name : CA!Modes, since : Nat]
        /\ controls \in [disabled : BOOLEAN, quiet : CA!Never..(MaxClock + 1), by : Members]
    BY PolicyNumbers DEF CA!Init, CA!Modes, CA!Never, CA!AppearanceAssumption
  <2>2. /\ callbacks \subseteq Members /\ shared \in BOOLEAN
        /\ channel \in [humans : Nat, bot : BOOLEAN] /\ seen = {}
        /\ event \in [Events -> [state : {"absent", "waiting", "processed"}, at : Nat]]
    BY DEF CA!Init
  <2> QED
    BY <1>1, <1>2, <2>1, <2>2 DEF AppearanceRows
<1>4. Made /\ Allowed /\ OneByOne
  BY <1>1, FS_EmptySet DEF Made, CA!MessagesUsedOnce, Allowed, OneByOne
<1>5. CA!RareAppearances
  BY <1>1, RareIs
<1> QED
  BY <1>3, <1>4, <1>5 DEF AInv

(* Steps that only change posts as SamePosts says keep what is said of     *)
(* them, as long as nothing counts down.                                   *)
LEMMA RarityGoesOn ==
  ASSUME AInv, AppearanceRows', SamePosts, SameCandidates, hour <= hour',
         channel.humans <= channel'.humans
  PROVE  OneByOne' /\ CA!RareAppearances'
<1>1. /\ hour \in Int /\ hour' \in Int
      /\ channel.humans \in Int /\ channel'.humans \in Int
  BY DEF AInv, AppearanceRows
<1> QED
  BY <1>1, SameRarity DEF AInv

LEMMA AppearancesGoOn ==
  ASSUME CA!AppearanceAssumption, AInv, [CA!Next]_(CA!vars)
  PROVE  AInv'
<1>1. AppearanceRows /\ Made /\ Allowed /\ OneByOne /\ CA!RareAppearances
  BY DEF AInv
<1>2. hour \in Int /\ channel.humans \in Int
  BY <1>1 DEF AppearanceRows
<1>3. candidate' = candidate => SameCandidates
  BY DEF SameCandidates
<1>4. CASE UNCHANGED CA!vars
  <2>1. AppearanceRows' /\ Made' /\ Allowed' /\ SamePosts /\ SameCandidates
    BY <1>1, <1>3, <1>4, UnchangedPosts
       DEF CA!vars, CA!rows, AppearanceRows, CA!TypeOK, Made, MadeFrom, CA!MessagesUsedOnce,
           Allowed, AllowedPost
  <2>2. hour <= hour' /\ channel.humans <= channel'.humans
    BY <1>2, <1>4 DEF CA!vars, CA!rows
  <2> QED
    BY <2>1, <2>2, RarityGoesOn DEF AInv
<1>5. ASSUME NEW m \in 1..MaxMessages, CA!ObserveMessage(m)
      PROVE  AInv'
  <2>1. AppearanceRows' /\ SamePosts /\ SameCandidates /\ Made'
    BY <1>1, <1>5, MessageRows, MessageMakes
  <2>2. /\ UNCHANGED <<hour, mode, controls, callbacks, shared, post>>
        /\ channel.humans <= channel'.humans
    BY <1>1, <1>5, ObservesMessage
  <2>3. Allowed'
    BY <1>1, <2>1, <2>2, PostsAreCandidates DEF Allowed, AllowedPost, SameCandidates
  <2> QED
    BY <1>2, <2>1, <2>2, <2>3, RarityGoesOn DEF AInv
<1>6. ASSUME \/ \E e \in Events : CA!EventHappens(e) \/ CA!ScanEvent(e)
             \/ CA!Simulate \/ \E c \in DOMAIN candidate : CA!TakeUp(c)
      PROVE  AInv'
  <2>1. /\ AppearanceRows' /\ SamePosts /\ SameCandidates
        /\ UNCHANGED <<hour, mode, controls, callbacks, shared, seen, activity, channel,
                       decision, post, feedback, turns>>
        /\ \A e \in Events : event[e].state = "processed" => event'[e].state = "processed"
        /\ \/ DOMAIN candidate' = DOMAIN candidate
           \/ DOMAIN candidate' = DOMAIN candidate \cup {{Test}}
           \/ \E e \in Events : /\ CA!Waiting(e) /\ event'[e].state = "processed"
                                /\ DOMAIN candidate' = DOMAIN candidate \cup {{e}}
    BY <1>1, <1>6, CandidateRows
  <2>2. Made'
    <3>1. CASE DOMAIN candidate' = DOMAIN candidate
      <4>1. \A x \in DOMAIN activity' : x \in seen =>
              x \in DOMAIN activity /\ (activity[x].used => activity'[x].used)
        BY <2>1
      <4> QED
        BY <1>1, <2>1, <3>1, <4>1, MadeStays
    <3>2. CASE DOMAIN candidate' = DOMAIN candidate \cup {{Test}}
      BY <1>1, <2>1, <3>2, OneMakes
    <3>3. ASSUME NEW e \in Events, event'[e].state = "processed",
                 DOMAIN candidate' = DOMAIN candidate \cup {{e}}
          PROVE  Made'
      BY <1>1, <2>1, <3>3, OneMakes
    <3> QED
      BY <2>1, <3>1, <3>2, <3>3
  <2>3. Allowed'
    BY <1>1, <2>1, PostsAreCandidates DEF Allowed, AllowedPost, SameCandidates
  <2> QED
    BY <1>2, <2>1, <2>2, <2>3, RarityGoesOn DEF AInv
<1>7. ASSUME NEW c \in DOMAIN held, Deciding(c)
      PROVE  AInv'
  <2>1. AppearanceRows'
    BY <1>1, <1>7, DecisionRows
  <2>2. /\ UNCHANGED <<hour, mode, controls, callbacks, shared, seen, activity, channel,
                       event, candidate, feedback, turns>>
        /\ \/ UNCHANGED <<decision, post>>
           \/ /\ CA!Undecided(c) \/ decision[c].state = "model_pending"
              /\ Rules(c) \/ Queues(c)
    BY <1>7, Decides
  <2>3. Made'
    BY <1>1, <2>2 DEF Made, MadeFrom, CA!MessagesUsedOnce
  <2>4. CASE post' = post
    <3>1. Allowed' /\ SamePosts /\ SameCandidates
      BY <1>1, <1>3, <2>2, <2>4, UnchangedPosts DEF Allowed, AllowedPost
    <3> QED
      BY <1>2, <2>1, <2>2, <2>3, <3>1, RarityGoesOn DEF AInv
  <2>5. CASE Queues(c) /\ (CA!Undecided(c) \/ decision[c].state = "model_pending")
    <3>1. c \in DOMAIN candidate /\ c \notin DOMAIN post
      BY <1>1, <2>5 DEF AppearanceRows, CA!TypeOK, CA!Undecided
    <3>2. Allowed'
      BY <1>1, <2>2, <2>5, <3>1, QueuedIsAllowed
    <3>3. OneByOne' /\ CA!RareAppearances'
      BY <1>1, <2>2, <2>5, <3>1, QueuedIsRare
    <3> QED
      BY <2>1, <2>3, <3>2, <3>3 DEF AInv
  <2> QED
    BY <2>2, <2>4, <2>5 DEF Rules
<1>8. ASSUME Controlling
      PROVE  AInv'
  <2>1. /\ AppearanceRows' /\ SamePosts /\ Allowed'
        /\ UNCHANGED <<hour, mode, seen, activity, channel, event, candidate, decision, held>>
    BY <1>1, <1>8, ControlSteps
  <2>2. Made'
    BY <1>1, <2>1 DEF Made, MadeFrom, CA!MessagesUsedOnce
  <2> QED
    BY <1>2, <1>3, <2>1, <2>2, RarityGoesOn DEF AInv
<1>9. ASSUME NEW c \in DOMAIN post,
             CA!Attempt(c) \/ \E state \in {"delivered", "failed"} : CA!Delivery(c, state)
      PROVE  AInv'
  <2>1. /\ AppearanceRows' /\ SamePosts /\ Allowed'
        /\ UNCHANGED <<hour, seen, activity, event, candidate>>
        /\ channel'.humans = channel.humans
    BY <1>1, <1>9, PostSteps
  <2>2. Made'
    BY <1>1, <2>1 DEF Made, MadeFrom, CA!MessagesUsedOnce
  <2> QED
    BY <1>2, <1>3, <2>1, <2>2, RarityGoesOn DEF AInv
<1>10. ASSUME NEW m \in CA!Modes, CA!Restart(m)
       PROVE  AInv'
  <2>1. /\ AppearanceRows' /\ SamePosts /\ SameCandidates /\ Allowed'
        /\ DOMAIN candidate' = DOMAIN candidate
        /\ UNCHANGED <<hour, seen, activity, channel>>
        /\ \A e \in Events : event[e].state = "processed" => event'[e].state = "processed"
    BY <1>1, <1>10, Restarts
  <2>2. Made'
    <3>1. \A x \in DOMAIN activity' : x \in seen =>
            x \in DOMAIN activity /\ (activity[x].used => activity'[x].used)
      BY <2>1
    <3> QED
      BY <1>1, <2>1, <3>1, MadeStays
  <2> QED
    BY <1>2, <2>1, <2>2, RarityGoesOn DEF AInv
<1>11. ASSUME CA!Tick \/ \E c \in DOMAIN held : CA!CompletionLost(c)
       PROVE  AInv'
  <2>1. /\ AppearanceRows' /\ SamePosts /\ Allowed'
        /\ UNCHANGED <<seen, channel, event, candidate, decision, post>>
        /\ hour <= hour' /\ DOMAIN activity' \subseteq DOMAIN activity
        /\ \A x \in DOMAIN activity' : activity'[x] = activity[x]
    BY <1>1, <1>11, Ticks
  <2>2. Made'
    <3>1. \A x \in DOMAIN activity' : x \in seen =>
            x \in DOMAIN activity /\ (activity[x].used => activity'[x].used)
      BY <2>1
    <3> QED
      BY <1>1, <2>1, <3>1, MadeStays
  <2> QED
    BY <1>2, <1>3, <2>1, <2>2, RarityGoesOn DEF AInv
<1>12. CA!Sendable \subseteq 1..MaxMessages
  BY DEF CA!Sendable
<1>13. CASE CA!Next
  BY <1>5, <1>6, <1>7, <1>8, <1>9, <1>10, <1>11, <1>12, <1>13
     DEF CA!Next, Deciding, Controlling
<1> QED
  BY <1>4, <1>13

LEMMA OnlyAttemptsTry ==
  ASSUME AppearanceRows, CA!Next, NEW c \in DOMAIN post, ~post[c].tried, post'[c].tried
  PROVE  CA!Attempt(c)
<1>1. post' # post
  OBVIOUS
<1>2. ASSUME NEW affected, post' = CA!Cancelled(affected)
      PROVE  FALSE
  BY <1>2, CancelledAreSame
<1>3. ASSUME NEW d \in DOMAIN held, Deciding(d)
      PROVE  FALSE
  <2>1. d \notin DOMAIN post /\ Queues(d)
    BY <1>1, <1>3, Decides DEF Rules, AppearanceRows, CA!TypeOK, CA!Undecided
  <2>2. post' = CA!With(post, d, CA!LiveEffects(d))
    BY <2>1 DEF Queues
  <2>3. post'[c] = post[c]
    BY <2>1, <2>2 DEF CA!With
  <2> QED
    BY <2>3
<1>4. ASSUME Controlling
      PROVE  FALSE
  BY <1>1, <1>2, <1>4 DEF Controlling, CA!SetQuiet, CA!SetCallbackConsent,
                          CA!SetGlobalDisabled, CA!WithdrawEntry, CA!RecordFeedback
<1>5. ASSUME NEW m \in CA!Modes, CA!Restart(m)
      PROVE  FALSE
  BY <1>1, <1>2, <1>5 DEF CA!Restart
<1>6. ASSUME NEW d \in DOMAIN post, NEW state, CA!Delivery(d, state)
      PROVE  FALSE
  <2>1. post' = [post EXCEPT ![d].state = state] /\ post[d].tried
    BY <1>6 DEF CA!Delivery
  <2>2. c # d /\ post'[c] = post[c]
    BY <2>1
  <2> QED
    BY <2>2
<1>7. ASSUME NEW d \in DOMAIN post, CA!Attempt(d)
      PROVE  d = c
  <2>1. post' = [post EXCEPT ![d].tried = TRUE]
    BY <1>7 DEF CA!Attempt
  <2> QED
    BY <2>1
<1>8. ~((\E m \in CA!Sendable : CA!ObserveMessage(m)) \/ CA!Simulate \/ CA!Tick
          \/ (\E e \in Events : CA!EventHappens(e) \/ CA!ScanEvent(e))
          \/ (\E d \in DOMAIN candidate : CA!TakeUp(d))
          \/ \E d \in DOMAIN held : CA!CompletionLost(d))
  BY <1>1 DEF CA!ObserveMessage, CA!Simulate, CA!Tick, CA!EventHappens, CA!ScanEvent, CA!TakeUp,
              CA!CompletionLost, CA!rows
<1> QED
  BY <1>3, <1>4, <1>5, <1>6, <1>7, <1>8 DEF CA!Next, Deciding, Controlling

LEMMA DecisionsStay ==
  ASSUME AppearanceRows, CA!Next, NEW c \in DOMAIN decision
  PROVE  /\ c \in DOMAIN decision'
         /\ decision[c].state = "final" => decision'[c] = decision[c]
<1>1. ASSUME NEW d \in DOMAIN held, Deciding(d)
      PROVE  /\ c \in DOMAIN decision'
             /\ decision[c].state = "final" => decision'[c] = decision[c]
  <2>1. CASE decision' = decision
    BY <2>1
  <2>2. ASSUME NEW row, decision' = CA!With(decision, d, row),
               CA!Undecided(d) \/ decision[d].state = "model_pending"
        PROVE  /\ c \in DOMAIN decision'
               /\ decision[c].state = "final" => decision'[c] = decision[c]
    BY <2>2 DEF CA!With, CA!Undecided
  <2> QED
    BY <1>1, <2>1, <2>2, Decides DEF Rules, Queues
<1>2. ASSUME NEW m \in CA!Modes, CA!Restart(m)
      PROVE  /\ c \in DOMAIN decision'
             /\ decision[c].state = "final" => decision'[c] = decision[c]
  BY <1>2 DEF CA!Restart
<1>3. CASE decision' = decision
  BY <1>3
<1>4. ASSUME Controlling
      PROVE  decision' = decision
  BY <1>4 DEF Controlling, CA!SetQuiet, CA!SetCallbackConsent, CA!SetGlobalDisabled,
              CA!WithdrawEntry, CA!RecordFeedback
<1>5. ASSUME NEW d \in DOMAIN post,
             CA!Attempt(d) \/ \E state \in {"delivered", "failed"} : CA!Delivery(d, state)
      PROVE  decision' = decision
  BY <1>5 DEF CA!Attempt, CA!Delivery
<1>6. ASSUME \/ \E m \in CA!Sendable : CA!ObserveMessage(m)
             \/ CA!Simulate \/ CA!Tick
             \/ \E e \in Events : CA!EventHappens(e) \/ CA!ScanEvent(e)
             \/ \E d \in DOMAIN candidate : CA!TakeUp(d)
             \/ \E d \in DOMAIN held : CA!CompletionLost(d)
      PROVE  decision' = decision
  BY <1>6 DEF CA!ObserveMessage, CA!Simulate, CA!Tick, CA!EventHappens, CA!ScanEvent, CA!TakeUp,
              CA!CompletionLost, CA!rows
<1> QED
  BY <1>1, <1>2, <1>3, <1>4, <1>5, <1>6 DEF CA!Next, Deciding, Controlling

(* However candidates, generations, restarts and changes of the controls   *)
(* interleave, two posts of one budget are as far apart as the policy says, *)
(* no window holds more than its maximum, and no message is the reason of  *)
(* two candidates (refresh_persistent_gates in the transaction that decides, *)
(* and the used flag of appearance_message_activity).                      *)
THEOREM AppearancesAreRare ==
  ASSUME CA!AppearanceAssumption
  PROVE  CA!Spec => [](CA!TypeOK /\ CA!RareAppearances /\ CA!MessagesUsedOnce)
<1>1. AInv => CA!TypeOK /\ CA!RareAppearances /\ CA!MessagesUsedOnce
  BY DEF AInv, AppearanceRows, Made
<1> QED
  BY <1>1, AppearancesStart, AppearancesGoOn, PTL DEF CA!Spec

(* A post is first attempted only as the controls of that moment allow,    *)
(* though it was queued under others: quiet, the kill switch, a withdrawn  *)
(* consent or entry and a changed mode take back what was never attempted  *)
(* (the cancelling statements of sqlite_appearance_repository).            *)
THEOREM AppearancesObeyControls ==
  ASSUME CA!AppearanceAssumption
  PROVE  CA!Spec => CA!SpeaksUnderControls
<1>1. ASSUME AInv, [CA!Next]_(CA!vars)
      PROVE  [\A c \in DOMAIN post :
                ~post[c].tried /\ post'[c].tried =>
                  /\ ~controls.disabled /\ ~(controls.quiet > hour)
                  /\ post[c].epoch = mode.since
                  /\ CA!Consent(post[c].who)
                  /\ CA!Themed(c) => shared]_(CA!vars)
  <2> SUFFICES ASSUME NEW c \in DOMAIN post, ~post[c].tried, post'[c].tried
               PROVE  /\ ~controls.disabled /\ ~(controls.quiet > hour)
                      /\ post[c].epoch = mode.since
                      /\ CA!Consent(post[c].who)
                      /\ CA!Themed(c) => shared
    OBVIOUS
  <2>1. CA!Next
    BY <1>1 DEF CA!vars, CA!rows
  <2>2. post[c].state = "pending" /\ AllowedPost(c)
    BY <1>1, <2>1, OnlyAttemptsTry DEF AInv, Allowed, CA!Attempt
  <2> QED
    BY <2>2 DEF AllowedPost, CA!Consent, CA!Themed
<1> QED
  BY <1>1, AppearancesStart, AppearancesGoOn, PTL DEF CA!Spec, CA!SpeaksUnderControls

(* A candidate is decided once: a generation that answers late, or after a *)
(* restart gave it up, changes nothing that is final (complete_model).     *)
THEOREM AppearancesAreDecidedOnce ==
  ASSUME CA!AppearanceAssumption
  PROVE  CA!Spec => CA!DecidedOnce
<1>1. ASSUME AInv, [CA!Next]_(CA!vars)
      PROVE  [\A c \in DOMAIN decision :
                /\ c \in DOMAIN decision'
                /\ decision[c].state = "final" => decision'[c] = decision[c]]_(CA!vars)
  BY <1>1, DecisionsStay DEF AInv
<1> QED
  BY <1>1, AppearancesStart, AppearancesGoOn, PTL DEF CA!Spec, CA!DecidedOnce
=============================================================================
