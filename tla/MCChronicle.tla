---------------------------- MODULE MCChronicle ----------------------------
(* What the Chronicle records, what its sessions gather, what the bot says *)
(* of it unasked, and what it hears, in parts that share no state; `scene` *)
(* says which of them moves:                                               *)
(* word     - a member's words become an entry, its author reviewing;      *)
(* machine  - an appearance becomes an entry about a member;               *)
(* memory   - two memories, one of them lasting, and one place for a draft;*)
(* talk     - messages of two members make candidates for appearances;     *)
(* event    - an event about the entry does, among messages;               *)
(* test     - the owner's test does;                                       *)
(* context  - a session observes lines and is closed, purges running;      *)
(* summary  - its summary is generated and reviewed;                       *)
(* titles   - titles come of it and from the owner;                        *)
(* next     - a second session follows the first, whose chapter it links;  *)
(* ears     - the windows of voice input, whose transcripts may be         *)
(*            proposed as entries.                                         *)
EXTENDS Chronicle

CONSTANTS ann, ben, cyn, x, y, m1, m2, e1, l1, l2, l3, t1, Test

VARIABLES scene, hour, mode, control, callbacks, shared, seen, activity,
          channel, event, candidate, decision, post, feedback, held, turns

VARIABLES time, consents, record, session, linked, joined, context, chapter,
          review, summary, purge, task, grant, moves

VARIABLES alive, stage, window, cap, live, op, waiting, works, timer, asr, kill, blocked,
          excluded, hears, card, edits, transcript, billed, acts

MCAuthor   == [e \in {x, y} |-> IF e = x THEN ben ELSE NoAuthor]
MCSubjects == [e \in {x, y} |-> IF e = x THEN {} ELSE {ann}]
MCKeeper   == [m \in {m1, m2} |-> ann]
MCActor    == [e \in {x} |-> ben]
MCBy       == [l \in {l1, l2, l3} |-> IF l = l2 THEN ben ELSE ann]

A == INSTANCE Appearances
       WITH Members <- {ann, ben}, Owner <- ann, Events <- {e1}, Subject <- ben,
            MaxMessages <- 4, Author <- <<ann, ben, ann, ben>>, Mentions <- {2},
            Required <- 2, Humans <- 1, Window <- 1, Life <- 2,
            BudgetWindow <- 2, BudgetMax <- 2, MinGap <- 1, AfterPrevious <- 1,
            ThemeCooldown <- 3, MaxClock <- 3, MaxChanges <- 2,
            clock <- hour, optIn <- callbacks, changes <- turns

S == INSTANCE Sessions
       WITH Members <- {ann, ben}, Owner <- ann, Entries <- {x}, Actor <- MCActor,
            Lines <- {l1, l2, l3}, By <- MCBy, Curated <- {t1},
            MaxSessions <- 2, MaxContext <- 2, Retention <- 2, ReviewLife <- 1,
            MaxAttempts <- 2, RetryDelay <- 1,
            MaxClock <- 3, MaxRevision <- 2, MaxChanges <- 2,
            clock <- time, optIn <- consents, entry <- record, draft <- chapter,
            job <- summary, changes <- moves

ASSUME SessionAssumption == S!SessionAssumption
ASSUME AppearanceAssumption == A!AppearanceAssumption

(* What may happen to a window: stops, failing callbacks and replies, an    *)
(* owner who disables and enables, an end of the process; two windows only  *)
(* around a crash.                                                         *)
Happenings == {"begin", "stop", "disable", "enable", "callback", "exit", "crash", "bad", "draft"}
Upto(some) == [k \in Happenings |-> IF k \in DOMAIN some THEN some[k] ELSE 0]
Days == {Upto([begin |-> 1, stop |-> 2]), Upto([begin |-> 1, callback |-> 3]),
         Upto([begin |-> 1, stop |-> 1, callback |-> 1]), Upto([begin |-> 1, stop |-> 1, bad |-> 1]),
         Upto([begin |-> 1, bad |-> 2, draft |-> 1]),
         Upto([begin |-> 1, disable |-> 1, enable |-> 1]),
         Upto([disable |-> 3, enable |-> 1, crash |-> 1]),
         Upto([begin |-> 1, stop |-> 1, crash |-> 1]), Upto([begin |-> 2, crash |-> 1]),
         Upto([begin |-> 1, stop |-> 1, exit |-> 1]),
         Upto([begin |-> 1, exit |-> 1, bad |-> 1, draft |-> 1])}

L == INSTANCE Listening
       WITH MaxWindows <- 2, CallbackCap <- 2, Budgets <- Days, up <- alive, row <- window,
            queue <- works, speech <- excluded, draft <- transcript

listeningVars == <<alive, stage, window, cap, live, op, waiting, works, timer, asr, kill,
                   blocked, excluded, hears, card, edits, transcript, billed, acts>>

appearanceVars == <<hour, mode, control, callbacks, shared, seen, activity,
                    channel, event, candidate, decision, post, feedback, held, turns>>
sessionVars    == <<time, consents, record, session, linked, joined, context,
                    chapter, review, summary, purge, task, grant, moves>>

Recording == scene \in {"word", "machine", "memory"}
Appearing == scene \in {"talk", "event", "test"}
Meeting   == scene \in {"context", "summary", "titles", "next"}

MCInit == /\ Init /\ A!Init /\ S!Init /\ L!Init
          /\ scene \in {"word", "machine", "memory", "talk", "event", "test",
                        "context", "summary", "titles", "next", "ears"}
          /\ scene # "ears" => acts = Upto([begin |-> 2, crash |-> 1])

(* A step inside its scene.                                                *)
Entered == \A e \in Entries : entry'[e].status # "none" =>
             scene = IF e = x THEN "word" ELSE "machine"
Drafted == DOMAIN draft' # {} => scene = "memory"

(* Two candidates at most.                                                 *)
Cast ==
  /\ scene = "talk"  => event'[e1].state = "absent" /\ {Test} \notin DOMAIN candidate'
  /\ scene = "event" => {Test} \notin DOMAIN candidate'
  /\ scene = "test"  => event'[e1].state = "absent"
  /\ scene = "test"  => Cardinality(seen') <= 1
  /\ scene # "talk"  => Cardinality(seen') <= 2
  /\ turns' <= 1
  /\ scene = "event" /\ turns' > 0 => hour' <= 2
  /\ Cardinality(DOMAIN candidate') <= 2

Silent == \A s \in 1..2 : purge'[s].lease = 0 /\ DOMAIN context'[s] = {}
Agenda ==
  /\ scene # "next" => session'[2].state = "none"
  /\ scene # "titles" => \A g \in DOMAIN grant' :
       g[1] # t1 /\ grant'[g].state \in {"proposed", "rejected"}
  /\ scene = "context" => DOMAIN grant' = {} /\ moves' <= 1
  /\ scene = "summary" => /\ time' <= 2
                          /\ \A s \in 1..2 : purge'[s].lease = 0
                                            /\ DOMAIN context'[s] \subseteq {l1}
  /\ scene \in {"titles", "next"} => time' = 0 /\ moves' <= 1 /\ Silent
  /\ scene = "titles" => \A e \in DOMAIN record' : record'[e] # "retracted"
  /\ scene = "next" => DOMAIN grant' = {}

MCNext ==
  \/ Recording /\ Next /\ Entered /\ Drafted
       /\ UNCHANGED <<scene, appearanceVars, sessionVars, listeningVars>>
  \/ Appearing /\ A!Next /\ Cast /\ UNCHANGED <<scene, vars, sessionVars, listeningVars>>
  \/ Meeting /\ S!Next /\ Agenda /\ UNCHANGED <<scene, vars, appearanceVars, listeningVars>>
  \/ scene = "ears" /\ L!Next /\ UNCHANGED <<scene, vars, appearanceVars, sessionVars>>

MCSpec == MCInit /\ [][MCNext]_<<scene, vars, appearanceVars, sessionVars, listeningVars>>

TypesOK == TypeOK /\ A!TypeOK /\ S!TypeOK /\ L!TypeOK

(* What is kept only for a while is forgotten: the drafts of memories, the *)
(* context a session's summary is made from, and what was heard, which is  *)
(* dropped with its window while what it cost stays counted.               *)
PrivateIsForgotten ==
  MemoriesEnd /\ S!ContextIsForgotten /\ L!SecretsAreDropped /\ L!CostIsCounted

(* A review is of the current summary, and titles and their holders agree. *)
ReviewsAreCurrent == S!ReviewIsCurrent /\ S!TitlesAreSettled

(* The bot appears rarely, and takes a message as its reason once.         *)
RareAppearances == A!RareAppearances /\ A!MessagesUsedOnce

(* What becomes canon was agreed to by those it is about, and a summary is *)
(* made from context that is still there when it is stored.                *)
RecordsAreAgreed == CanonIsAgreed /\ S!SummaryIsCurrent

(* The bot appears only as its controls allow when it becomes public, and  *)
(* a decision about an appearance is made once.                            *)
AppearsAsDecided == A!SpeaksUnderControls /\ A!DecidedOnce

(* A window hears no longer than its time, its end is told, and speech      *)
(* comes back when it is over.                                             *)
ListeningEnds == L!DeadlineHolds /\ L!EndIsTold /\ L!SpeechReturns

(* Nobody is heard unless the card says so.  From the answer to a disable    *)
(* until a later enable, no window begins and nobody is told what was said. *)
HeardWithConsent == L!HeardOnlyWhileShown /\ L!DisabledStaysSilent
=============================================================================
