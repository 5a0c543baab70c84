------------------------------ MODULE HouseProofs ------------------------------
(* Proofs about House and Recovery, alone and together in Fate, for any    *)
(* members, wagers, offers, catalogue and policy: the result of a wager is *)
(* the one its terms promise, an offer is taken at most once, rewards are  *)
(* a cooldown apart and lift only the poor, and one ledger accounts for    *)
(* every balance.  Amounts of Fate come last, after the sums over finite   *)
(* tables that they need.                                                  *)
EXTENDS Fate, FiniteSetTheorems, WellFoundedInduction, TLAPS

-----------------------------------------------------------------------------
(* The records of the House, their sums left out                           *)

Kinds   == {"create", "reminder"}
Causes  == {"none", "draw", "deadline", "owner"}
JobRows == [state : {"none", "pending", "claimed", "lapsed", "completed",
                     "cancelled", "dead"}, attempts : Int]
OfferRows == [state : {"none", "open", "closed", "skipped"}, left : Int,
              test : BOOLEAN, reserved : {0, MaxProfit(OfferTemplate)}]

CardsTyped ==
  /\ offer \in [Offers -> OfferRows]
  /\ control \in [Offers -> {"none", "active", "cancelled"}]
  /\ row \in [Offers -> [Kinds -> RowStates]]
  /\ edited \subseteq Offers

RestTyped ==
  /\ weekly \in [slot : Offers \cup {NoOffer}, due : Int]
  /\ job \in [Jobs -> JobRows]
  /\ observing \subseteq SUBSET Bets

-----------------------------------------------------------------------------
(* The invariant                                                           *)

(* A reminder is claimed only after its card was delivered, so that a card *)
(* that was withdrawn leaves no claimed reminder behind.                   *)
Card(o) ==
  /\ offer[o].state = "open" => row[o]["create"] # "none"
  /\ row[o]["reminder"] = "claimed" => row[o]["create"] = "delivered"
  /\ offer[o].state = "closed" =>
       /\ control[o] = "cancelled"
       /\ row[o]["create"] = "gone" \/ o \in edited
       /\ row[o]["reminder"] \notin {"pending", "claimed"}

Cards == CardsTyped /\ \A o \in Offers : Card(o)

(* What ResultIsEarned says of one settled wager. *)
Earned(b) ==
  /\ b.cause = "draw" <=> b.drawn
  /\ b.cause = "deadline" => b.due <= 0
  /\ b.cause = "owner" => /\ Authority[b.template] = "owner" /\ b.due >= -Lag
                          /\ \/ b.result = "void" \/ Tested(b.user)
                             \/ offer[b.offer].left <= 0
  /\ b.result = "void" <=>
       \/ b.template \in Recovers /\ ~b.drawn
       \/ b.cause = "deadline" /\ Authority[b.template] = "owner"
       \/ b.cause = "owner" /\ b.result = "void"
  /\ b.result # "void" /\ b.cause # "owner" =>
       (b.result = "win") = (b.drawn # (Authority[b.template] = "public_draw"
                                          /\ b.choice = "no"))

(* Only a wager that draws decide counts a draw, and one that the owner    *)
(* decides is on an offer, which is closed.                                *)
Placed(b) ==
  /\ b.state = "none" => ~b.drawn
  /\ b.state # "none" => b.template \in Templates
  /\ b.state # "none" /\ b.template \in Offered => b.offer \in Offers
  /\ b.drawn => Authority[b.template] \in {"draw", "public_draw"}
  /\ b.offer \in Offers => offer[b.offer].state = "closed"
  /\ b.state = "settled" => Earned(b)

(* A handler holds the deadline of a wager only once it has passed. *)
DeadlinesClaimed == \A w \in Bets : job[w].state = "claimed" => bets[w].due <= 0

ReportsDrawn == \A hit \in observing : \A w \in hit : bets[w].drawn

TakenOnce == \A v, w \in Bets :
               bets[v].offer \in Offers /\ bets[v].offer = bets[w].offer => v = w

IInv ==
  /\ Cards /\ RestTyped
  /\ bets \in [Bets -> BetRecords]
  /\ \A w \in Bets : Placed(bets[w])
  /\ DeadlinesClaimed /\ ReportsDrawn /\ TakenOnce

-----------------------------------------------------------------------------
(* How a wager moves once it is placed                                     *)

Ends(w) == /\ IsOpen(w)
           /\ \E r \in Results, c \in Causes :
                /\ bets'[w] = SettledBet(bets[w], r, c)
                /\ Earned(SettledBet(bets[w], r, c))

CountsDraw(w) ==
  /\ IsOpen(w) /\ Authority[bets[w].template] \in {"draw", "public_draw"}
  /\ bets'[w] = [bets[w] EXCEPT !.drawn = TRUE]

Ages(w) == \/ IsOpen(w) /\ bets'[w] = [bets[w] EXCEPT !.due = Down(@, DueFloor)]
           \/ /\ bets[w].state = "settled"
              /\ bets'[w] = [bets[w] EXCEPT !.cool = Down(@, 0)]

IsCleaned(w) == /\ bets[w].state = "settled"
                /\ bets'[w] = [bets[w] EXCEPT !.cleaned = TRUE]

Moves(w) == bets'[w] = bets[w] \/ Ends(w) \/ CountsDraw(w) \/ Ages(w) \/ IsCleaned(w)

(* An offer that is closed stays closed, and its time does not come back. *)
OffersKeep ==
  \A o \in Offers : offer[o].state = "closed" =>
    offer'[o].state = "closed" /\ (offer[o].left <= 0 => offer'[o].left <= 0)

(* What a step but a play does. *)
Goes ==
  /\ bets' = [w \in Bets |-> bets'[w]]
  /\ \A w \in Bets : Moves(w)
  /\ \A w \in Bets : job'[w].state = "claimed" => bets[w].due <= 0
  /\ \A hit \in observing' : \A w \in hit : bets'[w].drawn
  /\ OffersKeep /\ Cards' /\ RestTyped'

LEMMA LagFacts == Lag \in Nat /\ DueFloor \in Int /\ DueFloor <= 0
  BY HouseAssumption DEF HouseAssumption, DueFloor

(* Down counts to its floor. *)
LEMMA DownFacts ==
  ASSUME NEW x \in Int, NEW floor \in Int, floor <= 0
  PROVE  /\ Down(x, floor) \in Int
         /\ x <= 0 => Down(x, floor) <= 0
         /\ (floor = 0 /\ x \in Nat) => Down(x, floor) \in Nat
  BY DEF Down

(* The fields of a wager's record. *)
LEMMA BetFields ==
  ASSUME NEW b \in BetRecords
  PROVE  /\ b.state \in {"none", "open", "settled"} /\ b.drawn \in BOOLEAN
         /\ b.due \in Int /\ b.cool \in Nat /\ b.cleaned \in BOOLEAN
         /\ b.result \in Results /\ b.cause \in Causes
  BY DEF BetRecords, Causes

LEMMA SettledFields ==
  ASSUME NEW b \in BetRecords, NEW r \in Results, NEW c \in Causes,
         Cooldown[b.template] \in Nat
  PROVE  LET s == SettledBet(b, r, c) IN
         /\ s \in BetRecords
         /\ s.state = "settled" /\ s.result = r /\ s.cause = c
         /\ s.template = b.template /\ s.user = b.user /\ s.choice = b.choice
         /\ s.due = b.due /\ s.drawn = b.drawn /\ s.offer = b.offer
<1> DEFINE cool == Cooldown[b.template]
<1>1. cool \in Nat
  OBVIOUS
<1> HIDE DEF cool
<1> DEFINE s == [b EXCEPT !.state = "settled", !.result = r, !.cause = c, !.cool = cool]
<1>2. s \in BetRecords
  BY <1>1 DEF BetRecords, Causes
<1>3. /\ s.state = "settled" /\ s.result = r /\ s.cause = c
      /\ s.template = b.template /\ s.user = b.user /\ s.choice = b.choice
      /\ s.due = b.due /\ s.drawn = b.drawn /\ s.offer = b.offer
  BY DEF BetRecords
<1>4. SettledBet(b, r, c) = s
  BY DEF SettledBet, cool
<1> QED
  BY <1>2, <1>3, <1>4

LEMMA DrawnFields ==
  ASSUME NEW b \in BetRecords
  PROVE  LET s == [b EXCEPT !.drawn = TRUE] IN
         /\ s \in BetRecords
         /\ s.state = b.state /\ s.template = b.template /\ s.due = b.due
         /\ s.drawn /\ s.offer = b.offer
  BY DEF BetRecords

LEMMA AgedFields ==
  ASSUME NEW b \in BetRecords
  PROVE  LET s == [b EXCEPT !.due = Down(@, DueFloor)] IN
         /\ s \in BetRecords
         /\ s.state = b.state /\ s.template = b.template
         /\ b.due <= 0 => s.due <= 0
         /\ s.drawn = b.drawn /\ s.offer = b.offer
<1> DEFINE due == Down(b.due, DueFloor)
<1>1. due \in Int /\ (b.due <= 0 => due <= 0)
  BY BetFields, LagFacts, DownFacts
<1> HIDE DEF due
<1> DEFINE s == [b EXCEPT !.due = due]
<1>2. /\ s \in BetRecords
      /\ s.state = b.state /\ s.template = b.template /\ s.due = due
      /\ s.drawn = b.drawn /\ s.offer = b.offer
  BY <1>1 DEF BetRecords
<1>3. s = [b EXCEPT !.due = Down(@, DueFloor)]
  BY DEF due
<1> QED
  BY <1>1, <1>2, <1>3

(* What counts down or is cleaned after the settlement changes no term. *)
SameTerms(s, b) ==
  /\ s.state = b.state /\ s.result = b.result /\ s.cause = b.cause
  /\ s.template = b.template /\ s.user = b.user /\ s.choice = b.choice
  /\ s.due = b.due /\ s.drawn = b.drawn /\ s.offer = b.offer

LEMMA CooledFields ==
  ASSUME NEW b \in BetRecords
  PROVE  LET s == [b EXCEPT !.cool = Down(@, 0)] IN
         s \in BetRecords /\ SameTerms(s, b)
<1> DEFINE cool == Down(b.cool, 0)
<1>1. cool \in Nat
  BY BetFields DEF Down
<1> HIDE DEF cool
<1> DEFINE s == [b EXCEPT !.cool = cool]
<1>2. s \in BetRecords /\ SameTerms(s, b)
  BY <1>1 DEF BetRecords, SameTerms
<1>3. s = [b EXCEPT !.cool = Down(@, 0)]
  BY DEF cool
<1> QED
  BY <1>2, <1>3

LEMMA CleanedFields ==
  ASSUME NEW b \in BetRecords
  PROVE  LET s == [b EXCEPT !.cleaned = TRUE] IN
         s \in BetRecords /\ SameTerms(s, b)
  BY DEF BetRecords, SameTerms

-----------------------------------------------------------------------------
(* Initially, and through every step but a play                            *)

LEMMA InitPlaced == HouseInit => IInv
<1> SUFFICES ASSUME HouseInit PROVE IInv
  OBVIOUS
<1> USE DEF HouseInit
<1>1. CardsTyped
  BY DEF CardsTyped, OfferRows, Kinds, RowStates
<1>2. ASSUME NEW o \in Offers PROVE Card(o)
  BY DEF Card
<1>3. NewJob \in JobRows /\ NoJob \in JobRows /\ NoJob.state = "none" /\ NewJob.state = "pending"
  BY DEF JobRows, NewJob, NoJob
<1>4. RestTyped
  BY <1>3 DEF RestTyped
<1>5. /\ NoBet \in BetRecords /\ NoBet.state = "none" /\ NoBet.drawn = FALSE
      /\ NoBet.due = 0 /\ NoBet.offer = NoOffer
  BY DEF NoBet, BetRecords, Results
<1>6. bets \in [Bets -> BetRecords] /\ \A w \in Bets : bets[w] = NoBet
  BY <1>5
<1>7. ASSUME NEW w \in Bets PROVE Placed(bets[w])
  BY <1>5, <1>6, HouseAssumption DEF HouseAssumption, Placed
<1>8. DeadlinesClaimed /\ ReportsDrawn /\ TakenOnce
  BY <1>3, <1>5, <1>6, HouseAssumption
     DEF HouseAssumption, DeadlinesClaimed, ReportsDrawn, TakenOnce, Jobs
<1> QED
  BY <1>1, <1>2, <1>4, <1>6, <1>7, <1>8 DEF IInv, Cards

(* What is earned stays earned while the terms stand and offers stay closed. *)
LEMMA EarnedKeeps ==
  ASSUME NEW b \in BetRecords, NEW s \in BetRecords, SameTerms(s, b),
         Placed(b), OffersKeep, b.state = "settled", CardsTyped, CardsTyped'
  PROVE  Placed(s)'
<1>1. s.state = "settled" /\ ~(s.state = "none")
  BY DEF SameTerms
<1>2. Earned(b)
  BY DEF Placed
<1>3. ASSUME b.cause = "owner" PROVE b.offer \in Offers /\ offer[b.offer].state = "closed"
  <2>1. Authority[b.template] = "owner" /\ b.template \in Templates
    BY <1>2, <1>3 DEF Earned, Placed
  <2> QED
    BY <2>1, HouseAssumption DEF HouseAssumption, Placed
<1>4. ASSUME b.cause = "owner", offer[b.offer].left <= 0 PROVE offer'[b.offer].left <= 0
  BY <1>3, <1>4 DEF OffersKeep
<1>5. Earned(s)'
  BY <1>2, <1>4 DEF Earned, SameTerms
<1>6. b.offer \in Offers => offer'[b.offer].state = "closed"
  BY DEF Placed, OffersKeep
<1> QED
  BY <1>1, <1>5, <1>6 DEF Placed, SameTerms

LEMMA MovesOn ==
  ASSUME NEW w \in Bets, IInv, CardsTyped', OffersKeep, Moves(w)
  PROVE  /\ bets'[w] \in BetRecords /\ Placed(bets[w])'
         /\ bets'[w].offer = bets[w].offer
         /\ bets[w].drawn => bets'[w].drawn
         /\ bets[w].due <= 0 => bets'[w].due <= 0
<1> DEFINE b == bets[w]
<1> PICK s : s = bets'[w]
  OBVIOUS
<1>a. ASSUME s \in BetRecords, Placed(s)', s.offer = b.offer,
             b.drawn => s.drawn, b.due <= 0 => s.due <= 0
      PROVE  /\ bets'[w] \in BetRecords /\ Placed(bets[w])'
             /\ bets'[w].offer = bets[w].offer
             /\ bets[w].drawn => bets'[w].drawn
             /\ bets[w].due <= 0 => bets'[w].due <= 0
  BY <1>a DEF Placed, Earned
<1> SUFFICES /\ s \in BetRecords /\ Placed(s)' /\ s.offer = b.offer
             /\ b.drawn => s.drawn
             /\ b.due <= 0 => s.due <= 0
  BY <1>a
<1>1. b \in BetRecords /\ Placed(b) /\ CardsTyped
  BY DEF IInv, Cards
<1>2. b.offer \in Offers => offer'[b.offer].state = "closed"
  BY <1>1 DEF Placed, OffersKeep
<1>3. ASSUME s \in BetRecords, SameTerms(s, b)
      PROVE  /\ s \in BetRecords /\ Placed(s)' /\ s.offer = b.offer
             /\ b.drawn => s.drawn
             /\ b.due <= 0 => s.due <= 0
  <2>1. CASE b.state = "settled"
    <3>1. Placed(s)'
      BY <1>1, <1>3, <2>1, EarnedKeeps
    <3> QED
      BY <1>3, <3>1 DEF SameTerms
  <2>2. CASE b.state # "settled"
    BY <1>1, <1>2, <1>3, <2>2 DEF SameTerms, Placed
  <2> QED
    BY <2>1, <2>2
<1>4. CASE bets'[w] = bets[w]
  BY <1>1, <1>3, <1>4 DEF SameTerms
<1>5. CASE Ends(w)
  <2>1. b.state = "open" /\ b.template \in Templates
    BY <1>1, <1>5 DEF Ends, IsOpen, Placed
  <2>2. PICK r \in Results, c \in Causes :
               s = SettledBet(b, r, c) /\ Earned(SettledBet(b, r, c))
    BY <1>5 DEF Ends
  <2>3. Cooldown[b.template] \in Nat
    BY <2>1, HouseAssumption DEF HouseAssumption
  <2>4. /\ s \in BetRecords
        /\ s.state = "settled" /\ s.result = r /\ s.cause = c
        /\ s.template = b.template /\ s.user = b.user /\ s.choice = b.choice
        /\ s.due = b.due /\ s.drawn = b.drawn /\ s.offer = b.offer
    BY <1>1, <2>2, <2>3, SettledFields
  <2>5. Earned(s)
    BY <2>2
  <2>6. Earned(s)'
    <3>1. ASSUME s.cause = "owner" PROVE s.offer \in Offers /\ offer[s.offer].state = "closed"
      <4>1. Authority[s.template] = "owner"
        BY <2>5, <3>1 DEF Earned
      <4>2. s.offer \in Offers
        BY <1>1, <2>1, <2>4, <4>1, HouseAssumption DEF HouseAssumption, Placed
      <4> QED
        BY <1>1, <2>4, <4>2 DEF Placed
    <3>2. ASSUME s.cause = "owner", offer[s.offer].left <= 0 PROVE offer'[s.offer].left <= 0
      BY <3>1, <3>2 DEF OffersKeep
    <3> QED
      BY <2>5, <3>2 DEF Earned
  <2>7. Placed(s)'
    BY <1>1, <1>2, <2>1, <2>4, <2>6 DEF Placed
  <2> QED
    BY <2>4, <2>7
<1>6. CASE CountsDraw(w)
  <2>1. /\ s \in BetRecords
        /\ s.state = b.state /\ s.template = b.template /\ s.due = b.due
        /\ s.drawn /\ s.offer = b.offer
    BY <1>1, <1>6, DrawnFields DEF CountsDraw
  <2>2. b.state = "open" /\ Authority[b.template] \in {"draw", "public_draw"}
    BY <1>6 DEF CountsDraw, IsOpen
  <2> QED
    BY <1>1, <1>2, <2>1, <2>2 DEF Placed
<1>7. CASE Ages(w)
  <2>1. CASE IsOpen(w) /\ bets'[w] = [bets[w] EXCEPT !.due = Down(@, DueFloor)]
    <3>1. /\ s \in BetRecords
          /\ s.state = b.state /\ s.template = b.template
          /\ b.due <= 0 => s.due <= 0
          /\ s.drawn = b.drawn /\ s.offer = b.offer
      BY <1>1, <2>1, AgedFields
    <3>2. b.state = "open"
      BY <2>1 DEF IsOpen
    <3> QED
      BY <1>1, <1>2, <3>1, <3>2 DEF Placed
  <2>2. CASE b.state = "settled" /\ bets'[w] = [bets[w] EXCEPT !.cool = Down(@, 0)]
    <3>1. s \in BetRecords /\ SameTerms(s, b)
      BY <1>1, <2>2, CooledFields
    <3> QED
      BY <1>3, <3>1
  <2> QED
    BY <1>7, <2>1, <2>2 DEF Ages
<1>8. CASE IsCleaned(w)
  <2>1. s \in BetRecords /\ SameTerms(s, b)
    BY <1>1, <1>8, CleanedFields DEF IsCleaned
  <2> QED
    BY <1>3, <2>1
<1> QED
  BY <1>4, <1>5, <1>6, <1>7, <1>8 DEF Moves

LEMMA GoesOn ==
  ASSUME IInv, Goes
  PROVE  IInv'
<1> DEFINE moved(w) == bets'[w]
<1>1. CardsTyped' /\ OffersKeep
  BY DEF Goes, Cards
<1>2. ASSUME NEW w \in Bets
      PROVE  /\ moved(w) \in BetRecords /\ Placed(bets[w])'
             /\ moved(w).offer = bets[w].offer
             /\ bets[w].due <= 0 => moved(w).due <= 0
  BY <1>1, MovesOn DEF Goes
<1>3. bets' = [w \in Bets |-> moved(w)]
  BY DEF Goes
<1>4. \A w \in Bets : moved(w) = bets'[w]
  OBVIOUS
<1> HIDE DEF moved
<1>5. bets' \in [Bets -> BetRecords]
  BY <1>2, <1>3
<1>6. \A w \in Bets : Placed(bets[w])'
  BY <1>2
<1>7. DeadlinesClaimed'
  BY <1>2, <1>4 DEF DeadlinesClaimed, Goes
<1>8. ReportsDrawn'
  BY DEF ReportsDrawn, Goes
<1>9. TakenOnce'
  BY <1>2, <1>4 DEF TakenOnce, IInv
<1> QED
  BY <1>5, <1>6, <1>7, <1>8, <1>9 DEF IInv, Goes

-----------------------------------------------------------------------------
(* Settlements                                                             *)

CardsStill == UNCHANGED <<offer, control, row, edited>>

LEMMA StillCards ==
  ASSUME IInv, CardsStill
  PROVE  Cards' /\ OffersKeep
<1>1. offer' = offer /\ control' = control /\ row' = row /\ edited' = edited
  BY DEF CardsStill
<1>2. OffersKeep
  BY <1>1 DEF OffersKeep
<1>3. CardsTyped'
  BY <1>1 DEF IInv, Cards, CardsTyped
<1>4. ASSUME NEW o \in Offers PROVE Card(o)'
  <2>1. Card(o)
    BY DEF IInv, Cards
  <2> QED
    BY <1>1, <2>1 DEF Card
<1> QED
  BY <1>2, <1>3, <1>4 DEF Cards

(* Jobs of which no more are held, or with a deadline that has passed. *)
JobsFollow ==
  /\ job' \in [Jobs -> JobRows]
  /\ \A w \in Bets : job'[w].state = "claimed" =>
                       job[w].state = "claimed" \/ bets[w].due <= 0

LEMMA Settling ==
  ASSUME IInv, CardsStill, UNCHANGED weekly, observing' \subseteq observing, JobsFollow,
         bets' = [w \in Bets |-> bets'[w]],
         \A w \in Bets : bets'[w] = bets[w] \/ Ends(w) \/ IsCleaned(w)
  PROVE  IInv'
<1>1. Cards' /\ OffersKeep
  BY StillCards
<1>2. RestTyped'
  BY DEF IInv, RestTyped, JobsFollow
<1>3. \A w \in Bets : job'[w].state = "claimed" => bets[w].due <= 0
  BY DEF JobsFollow, IInv, DeadlinesClaimed
<1>4. \A w \in Bets : Moves(w)
  BY DEF Moves
<1>5. CardsTyped'
  BY <1>1 DEF Cards
<1>6. \A w \in Bets : bets[w].drawn => bets'[w].drawn
  BY <1>1, <1>4, <1>5, MovesOn
<1>7. \A hit \in observing' : \A w \in hit : bets'[w].drawn
  BY <1>6 DEF IInv, ReportsDrawn, RestTyped
<1> QED
  BY <1>1, <1>2, <1>3, <1>4, <1>7, GoesOn DEF Goes

LEMMA DrawEarned ==
  ASSUME IInv, NEW w \in Bets, IsOpen(w), bets[w].drawn = TRUE
  PROVE  /\ DrawOutcome(w) \in Results
         /\ Earned(SettledBet(bets[w], DrawOutcome(w), "draw"))
<1> DEFINE r == DrawOutcome(w)
           s == SettledBet(bets[w], r, "draw")
<1>1. bets[w] \in BetRecords /\ Placed(bets[w]) /\ bets[w].state = "open"
  BY DEF IInv, IsOpen
<1>2. r \in {"win", "loss"}
      /\ (r = "win") = ~(Authority[bets[w].template] = "public_draw"
                           /\ bets[w].choice = "no")
  BY DEF DrawOutcome
<1>3. r \in Results /\ "draw" \in Causes /\ Cooldown[bets[w].template] \in Nat
  BY <1>1, <1>2, HouseAssumption DEF HouseAssumption, Results, Causes, Placed
<1> HIDE DEF r
<1>4. /\ s.result = r /\ s.cause = "draw" /\ s.template = bets[w].template
      /\ s.choice = bets[w].choice /\ s.drawn = bets[w].drawn /\ s.due = bets[w].due
  BY <1>1, <1>3, SettledFields
<1> HIDE DEF s
<1>5. Earned(s)
  BY <1>1, <1>2, <1>4, BetFields DEF Earned
<1> QED
  BY <1>3, <1>5 DEF s, r

LEMMA DeadlineEarned ==
  ASSUME IInv, NEW w \in Bets, IsOpen(w), bets[w].due <= 0
  PROVE  /\ DeadlineOutcome(w) \in Results /\ DeadlineCause(w) \in Causes
         /\ Earned(SettledBet(bets[w], DeadlineOutcome(w), DeadlineCause(w)))
<1>1. bets[w] \in BetRecords /\ Placed(bets[w]) /\ bets[w].state = "open"
  BY DEF IInv, IsOpen
<1>2. CASE bets[w].drawn
  BY <1>1, <1>2, DrawEarned, BetFields DEF DeadlineOutcome, DeadlineCause, Causes
<1>3. CASE ~bets[w].drawn
  <2> DEFINE r == DeadlineOutcome(w)
             s == SettledBet(bets[w], r, "deadline")
             undecided == \/ bets[w].template \in Recovers
                          \/ Authority[bets[w].template] = "owner"
             refused == /\ Authority[bets[w].template] = "public_draw"
                        /\ bets[w].choice = "no"
  <2>1. r = IF undecided THEN "void" ELSE IF refused THEN "win" ELSE "loss"
    BY <1>3 DEF DeadlineOutcome
  <2>2. DeadlineCause(w) = "deadline"
    BY <1>3 DEF DeadlineCause
  <2>3. r \in Results /\ "deadline" \in Causes /\ Cooldown[bets[w].template] \in Nat
    BY <1>1, <2>1, HouseAssumption DEF HouseAssumption, Results, Causes, Placed
  <2> HIDE DEF r
  <2>4. /\ s.result = r /\ s.cause = "deadline" /\ s.template = bets[w].template
        /\ s.choice = bets[w].choice /\ s.drawn = bets[w].drawn /\ s.due = bets[w].due
    BY <1>1, <2>3, SettledFields
  <2> HIDE DEF s
  <2>5. Earned(s)
    BY <1>1, <1>3, <2>1, <2>4, BetFields DEF Earned
  <2> QED
    BY <2>2, <2>3, <2>5 DEF s, r
<1> QED
  BY <1>2, <1>3

LEMMA OwnerEarned ==
  ASSUME IInv, NEW w \in Bets, IsOpen(w), NEW outcome \in {"yes", "no", "void"},
         NEW lag \in Stamps, OwnerMay(w, outcome, lag)
  PROVE  LET r == IF outcome = "void" THEN "void"
                  ELSE IF bets[w].choice = outcome THEN "win" ELSE "loss"
         IN  r \in Results /\ Earned(SettledBet(bets[w], r, "owner"))
<1> DEFINE r == IF outcome = "void" THEN "void"
                ELSE IF bets[w].choice = outcome THEN "win" ELSE "loss"
           s == SettledBet(bets[w], r, "owner")
<1>1. bets[w] \in BetRecords /\ Placed(bets[w]) /\ bets[w].state = "open"
  BY DEF IInv, IsOpen
<1>2. /\ Authority[bets[w].template] = "owner" /\ bets[w].due + lag >= 0
      /\ \/ outcome = "void" \/ Tested(bets[w].user)
         \/ offer[bets[w].offer].left + lag <= 0
  BY DEF OwnerMay
<1>3. lag \in Nat /\ lag <= Lag /\ Lag \in Nat
  BY LagFacts DEF Stamps
<1>4. bets[w].due >= -Lag
  BY <1>1, <1>2, <1>3, BetFields
<1>5. /\ bets[w].template \notin Recovers /\ ~bets[w].drawn
      /\ bets[w].offer \in Offers /\ Cooldown[bets[w].template] \in Nat
  BY <1>1, <1>2, HouseAssumption, BetFields DEF HouseAssumption, Placed
<1>6. offer[bets[w].offer].left \in Int
  BY <1>5 DEF IInv, Cards, CardsTyped, OfferRows
<1>7. \/ outcome = "void" \/ Tested(bets[w].user) \/ offer[bets[w].offer].left <= 0
  BY <1>2, <1>3, <1>6
<1>8. r \in Results /\ "owner" \in Causes /\ (outcome = "void" => r = "void")
  BY DEF Results, Causes
<1> HIDE DEF r
<1>9. /\ s.result = r /\ s.cause = "owner" /\ s.template = bets[w].template
      /\ s.user = bets[w].user /\ s.drawn = bets[w].drawn /\ s.due = bets[w].due
      /\ s.offer = bets[w].offer
  BY <1>1, <1>5, <1>8, SettledFields
<1> HIDE DEF s
<1>10. Earned(s)
  BY <1>2, <1>4, <1>5, <1>7, <1>8, <1>9 DEF Earned
<1> QED
  BY <1>8, <1>10 DEF s, r

LEMMA ObserveDrawKeeps ==
  ASSUME IInv, NEW hit \in observing, ObserveDraw(hit) \/ ObserveFails(hit)
  PROVE  IInv'
<1>1. /\ CardsStill /\ UNCHANGED weekly /\ observing' \subseteq observing /\ JobsFollow
  BY DEF ObserveDraw, ObserveFails, CardsStill, offerVars, JobsFollow, IInv, RestTyped
<1>2. CASE ObserveFails(hit)
  <2>1. bets' = bets /\ bets = [w \in Bets |-> bets[w]]
    BY <1>2 DEF ObserveFails, IInv
  <2> QED
    BY <1>1, <2>1, Settling
<1>3. CASE ObserveDraw(hit)
  <2>1. bets' = [w \in Bets |-> IF w \in {v \in hit : IsOpen(v)}
                  THEN SettledBet(bets[w], DrawOutcome(w), "draw") ELSE bets[w]]
    BY <1>3, Zenon DEF ObserveDraw, Settle, DrawCause
  <2>2. bets' = [w \in Bets |-> bets'[w]]
    BY <2>1
  <2>3. ASSUME NEW w \in Bets PROVE bets'[w] = bets[w] \/ Ends(w)
    <3>1. CASE w \in hit /\ IsOpen(w)
      <4>1. bets[w].drawn = TRUE
        BY <3>1, BetFields DEF IInv, ReportsDrawn
      <4>2. DrawOutcome(w) \in Results /\ Earned(SettledBet(bets[w], DrawOutcome(w), "draw"))
        BY <3>1, <4>1, DrawEarned
      <4>3. bets'[w] = SettledBet(bets[w], DrawOutcome(w), "draw") /\ "draw" \in Causes
        BY <2>1, <3>1 DEF Causes
      <4> QED
        BY <3>1, <4>2, <4>3 DEF Ends
    <3>2. CASE ~(w \in hit /\ IsOpen(w))
      BY <2>1, <3>2
    <3> QED
      BY <3>1, <3>2
  <2> QED
    BY <1>1, <2>2, <2>3, Settling
<1> QED
  BY <1>2, <1>3

LEMMA ReconcileDrawsKeeps == IInv /\ ReconcileDraws => IInv'
<1> SUFFICES ASSUME IInv, ReconcileDraws PROVE IInv'
  OBVIOUS
<1>1. /\ CardsStill /\ UNCHANGED weekly /\ observing' \subseteq observing /\ JobsFollow
  BY DEF ReconcileDraws, CardsStill, offerVars, JobsFollow, IInv, RestTyped
<1>2. bets' = [w \in Bets |-> IF w \in {v \in {x \in Bets : bets[x].drawn} : IsOpen(v)}
                THEN SettledBet(bets[w], DrawOutcome(w), "draw") ELSE bets[w]]
  BY Zenon DEF ReconcileDraws, Settle, DrawCause
<1>3. bets' = [w \in Bets |-> bets'[w]]
  BY <1>2
<1>4. ASSUME NEW w \in Bets PROVE bets'[w] = bets[w] \/ Ends(w)
  <2>1. CASE bets[w].drawn /\ IsOpen(w)
    <3>1. bets[w].drawn = TRUE
      BY <2>1, BetFields DEF IInv
    <3>2. DrawOutcome(w) \in Results /\ Earned(SettledBet(bets[w], DrawOutcome(w), "draw"))
      BY <2>1, <3>1, DrawEarned
    <3>3. bets'[w] = SettledBet(bets[w], DrawOutcome(w), "draw") /\ "draw" \in Causes
      BY <1>2, <2>1 DEF Causes
    <3> QED
      BY <2>1, <3>2, <3>3 DEF Ends
  <2>2. CASE ~(bets[w].drawn /\ IsOpen(w))
    BY <1>2, <2>2
  <2> QED
    BY <2>1, <2>2
<1> QED
  BY <1>1, <1>3, <1>4, Settling

LEMMA ResolveDueKeeps == IInv /\ ResolveDue => IInv'
<1> SUFFICES ASSUME IInv, ResolveDue PROVE IInv'
  OBVIOUS
<1> DEFINE due == {w \in Bets : bets[w].due <= 0 /\ Tested(bets[w].user)}
<1>1. /\ CardsStill /\ UNCHANGED weekly /\ observing' \subseteq observing /\ JobsFollow
  BY DEF ResolveDue, CardsStill, offerVars, JobsFollow, IInv, RestTyped
<1>2. bets' = [w \in Bets |-> IF w \in {v \in due : IsOpen(v)}
         THEN SettledBet(bets[w], DeadlineOutcome(w), DeadlineCause(w)) ELSE bets[w]]
  BY Zenon DEF ResolveDue, Settle
<1>3. bets' = [w \in Bets |-> bets'[w]]
  BY <1>2
<1>4. ASSUME NEW w \in Bets PROVE bets'[w] = bets[w] \/ Ends(w)
  <2>1. CASE w \in due /\ IsOpen(w)
    <3>1. bets'[w] = SettledBet(bets[w], DeadlineOutcome(w), DeadlineCause(w))
      BY <1>2, <2>1
    <3> QED
      BY <2>1, <3>1, DeadlineEarned DEF Ends
  <2>2. CASE ~(w \in due /\ IsOpen(w))
    BY <1>2, <2>2
  <2> QED
    BY <2>1, <2>2
<1> QED
  BY <1>1, <1>3, <1>4, Settling

LEMMA HandleDeadlineKeeps ==
  ASSUME IInv, NEW w \in Bets, HandleDeadline(w)
  PROVE  IInv'
<1>1. /\ CardsStill /\ UNCHANGED weekly /\ observing' \subseteq observing
  BY DEF HandleDeadline, CardsStill, offerVars
<1>2. JobsFollow
  <2>1. job' = [job EXCEPT ![w].state = "completed"] /\ job \in [Jobs -> JobRows]
    BY DEF HandleDeadline, IInv, RestTyped
  <2> QED
    BY <2>1 DEF JobsFollow, JobRows, Jobs
<1>3. bets[w].due <= 0
  BY DEF HandleDeadline, IInv, DeadlinesClaimed
<1>4. bets' = [v \in Bets |-> IF v \in {x \in {w} : IsOpen(x)}
         THEN SettledBet(bets[v], DeadlineOutcome(v), DeadlineCause(v)) ELSE bets[v]]
  BY Zenon DEF HandleDeadline, Settle
<1>5. bets' = [v \in Bets |-> bets'[v]]
  BY <1>4
<1>6. ASSUME NEW v \in Bets PROVE bets'[v] = bets[v] \/ Ends(v)
  <2>1. CASE v = w /\ IsOpen(v)
    <3>1. bets'[v] = SettledBet(bets[v], DeadlineOutcome(v), DeadlineCause(v))
      BY <1>4, <2>1
    <3> QED
      BY <1>3, <2>1, <3>1, DeadlineEarned DEF Ends
  <2>2. CASE ~(v = w /\ IsOpen(v))
    BY <1>4, <2>2
  <2> QED
    BY <2>1, <2>2
<1> QED
  BY <1>1, <1>2, <1>5, <1>6, Settling

LEMMA ResolveOwnerKeeps ==
  ASSUME IInv, NEW w \in Bets, NEW outcome \in {"yes", "no", "void"},
         NEW lag \in Stamps, ResolveOwner(w, outcome, lag)
  PROVE  IInv'
<1> DEFINE result(x) == IF outcome = "void" THEN "void"
                        ELSE IF bets[x].choice = outcome THEN "win" ELSE "loss"
<1>1. /\ CardsStill /\ UNCHANGED weekly /\ observing' \subseteq observing /\ JobsFollow
  BY DEF ResolveOwner, CardsStill, offerVars, JobsFollow, IInv, RestTyped
<1>2. bets' = [v \in Bets |-> IF v \in {x \in {w} : IsOpen(x)}
                THEN SettledBet(bets[v], result(v), "owner") ELSE bets[v]]
  BY Zenon DEF ResolveOwner, Settle
<1>3. bets' = [v \in Bets |-> bets'[v]]
  BY <1>2
<1>4. result(w) \in Results /\ Earned(SettledBet(bets[w], result(w), "owner")) /\ IsOpen(w)
  BY OwnerEarned DEF ResolveOwner
<1>5. ASSUME NEW v \in Bets PROVE bets'[v] = bets[v] \/ Ends(v)
  <2>1. CASE v = w
    <3>1. bets'[w] = SettledBet(bets[w], result(w), "owner") /\ "owner" \in Causes
      BY <1>2, <1>4 DEF Causes
    <3> HIDE DEF result
    <3> QED
      BY <1>4, <2>1, <3>1 DEF Ends
  <2>2. CASE v # w
    BY <1>2, <2>2
  <2> QED
    BY <2>1, <2>2
<1> QED
  BY <1>1, <1>3, <1>5, Settling

LEMMA CleanupTestKeeps ==
  ASSUME IInv, NEW w \in Bets, CleanupTest(w)
  PROVE  IInv'
<1>1. /\ CardsStill /\ UNCHANGED weekly /\ observing' \subseteq observing /\ JobsFollow
  BY DEF CleanupTest, CardsStill, offerVars, JobsFollow, IInv, RestTyped
<1>2. bets[w].state = "settled" /\ bets' = [bets EXCEPT ![w].cleaned = TRUE]
  BY DEF CleanupTest
<1>3. bets' = [v \in Bets |-> bets'[v]]
  BY <1>2 DEF IInv
<1>4. ASSUME NEW v \in Bets PROVE bets'[v] = bets[v] \/ IsCleaned(v)
  BY <1>2 DEF IInv, IsCleaned
<1> QED
  BY <1>1, <1>3, <1>4, Settling

-----------------------------------------------------------------------------
(* Jobs, the process and time                                              *)

LEMMA WithoutBets ==
  ASSUME IInv, UNCHANGED bets, Cards', OffersKeep, RestTyped',
         observing' \subseteq observing,
         \A w \in Bets : job'[w].state = "claimed" =>
                           job[w].state = "claimed" \/ bets[w].due <= 0
  PROVE  IInv'
<1>1. bets' = [w \in Bets |-> bets'[w]] /\ \A w \in Bets : Moves(w)
  BY DEF IInv, Moves
<1>2. \A w \in Bets : job'[w].state = "claimed" => bets[w].due <= 0
  BY DEF IInv, DeadlinesClaimed
<1>3. \A hit \in observing' : \A w \in hit : bets'[w].drawn
  BY DEF IInv, ReportsDrawn
<1> QED
  BY <1>1, <1>2, <1>3, GoesOn DEF Goes

LEMMA JobFields ==
  ASSUME NEW r \in JobRows
  PROVE  /\ r.state \in {"none", "pending", "claimed", "lapsed", "completed",
                         "cancelled", "dead"}
         /\ r.attempts \in Int /\ r = [state |-> r.state, attempts |-> r.attempts]
  BY DEF JobRows

(* Every row of a job after a step, given the row before. *)
LEMMA JobsOnly ==
  ASSUME IInv, CardsStill, UNCHANGED <<bets, observing>>,
         weekly' \in [slot : Offers \cup {NoOffer}, due : Int], JobsFollow
  PROVE  IInv'
<1>1. RestTyped'
  BY DEF RestTyped, IInv, JobsFollow
<1> QED
  BY <1>1, StillCards, WithoutBets DEF JobsFollow

LEMMA ClaimJobKeeps ==
  ASSUME IInv, NEW j \in Jobs, ClaimJob(j)
  PROVE  IInv'
<1>1. /\ CardsStill /\ UNCHANGED <<bets, observing>>
      /\ weekly' \in [slot : Offers \cup {NoOffer}, due : Int]
  BY DEF ClaimJob, CardsStill, offerVars, betVars, IInv, RestTyped
<1>2. job \in [Jobs -> JobRows]
  BY DEF IInv, RestTyped
<1> DEFINE new == IF job[j].attempts >= MaxAttempts THEN [job[j] EXCEPT !.state = "dead"]
                  ELSE [state |-> "claimed", attempts |-> job[j].attempts + 1]
<1>3. job' = [job EXCEPT ![j] = new]
  BY DEF ClaimJob
<1>4. new \in JobRows
  <2>1. job[j] \in JobRows /\ job[j].attempts + 1 \in Int
    BY <1>2, JobFields
  <2>2. [job[j] EXCEPT !.state = "dead"] \in JobRows
    BY <2>1 DEF JobRows
  <2>3. [state |-> "claimed", attempts |-> job[j].attempts + 1] \in JobRows
    BY <2>1 DEF JobRows
  <2> HIDE DEF JobRows
  <2> QED
    BY <2>2, <2>3
<1> HIDE DEF new
<1>5. j \in Bets => bets[j].due <= 0
  BY HouseAssumption DEF HouseAssumption, ClaimJob, Due
<1>6. JobsFollow
  BY <1>2, <1>3, <1>4, <1>5 DEF JobsFollow
<1> QED
  BY <1>1, <1>6, JobsOnly

LEMMA FailJobKeeps ==
  ASSUME IInv, NEW j \in Jobs, FailJob(j)
  PROVE  IInv'
<1>1. /\ CardsStill /\ UNCHANGED <<bets, observing>>
      /\ weekly' \in [slot : Offers \cup {NoOffer}, due : Int]
  BY DEF FailJob, CardsStill, offerVars, betVars, IInv, RestTyped
<1>2. job \in [Jobs -> JobRows]
  BY DEF IInv, RestTyped
<1> DEFINE state == IF job[j].attempts < MaxAttempts THEN "pending" ELSE "dead"
<1>3. job' = [job EXCEPT ![j].state = state]
  BY DEF FailJob
<1>4. state \in {"pending", "dead"}
  OBVIOUS
<1> HIDE DEF state
<1>5. JobsFollow
  BY <1>2, <1>3, <1>4 DEF JobsFollow, JobRows
<1> QED
  BY <1>1, <1>5, JobsOnly

LEMMA NextSlotTyped ==
  ASSUME IInv, NEW o \in Offers \cup {NoOffer}, NextSlot(o)
  PROVE  weekly' \in [slot : Offers \cup {NoOffer}, due : Int]
  BY HouseAssumption DEF HouseAssumption, NextSlot, IInv, RestTyped

LEMMA RescheduleWeeklyKeeps ==
  ASSUME IInv, NEW o \in Offers \cup {NoOffer}, RescheduleWeekly(o)
  PROVE  IInv'
<1>1. /\ CardsStill /\ UNCHANGED <<bets, observing>>
      /\ weekly' \in [slot : Offers \cup {NoOffer}, due : Int]
  BY NextSlotTyped DEF RescheduleWeekly, CardsStill, betVars
<1>2. job \in [Jobs -> JobRows] /\ Weekly \in Jobs
  BY DEF IInv, RestTyped, Jobs
<1> DEFINE new == [state |-> "pending", attempts |-> job[Weekly].attempts - 1]
<1>3. job' = [job EXCEPT ![Weekly] = new]
  BY DEF RescheduleWeekly
<1>4. new \in JobRows /\ new.state = "pending"
  <2>1. job[Weekly].attempts - 1 \in Int
    BY <1>2, JobFields
  <2> QED
    BY <2>1 DEF JobRows
<1> HIDE DEF new
<1>5. JobsFollow
  BY <1>2, <1>3, <1>4 DEF JobsFollow
<1> QED
  BY <1>1, <1>5, JobsOnly

LEMMA RestartKeeps ==
  ASSUME IInv, NEW enabled \in BOOLEAN, Restart(enabled)
  PROVE  IInv'
<1>1. CardsStill /\ UNCHANGED <<bets, observing>>
  BY DEF Restart, CardsStill, betVars
<1>2. job \in [Jobs -> JobRows] /\ Weekly \in Jobs
  BY DEF IInv, RestTyped, Jobs
<1>3. NewJob \in JobRows /\ NewJob.state = "pending"
  BY DEF JobRows, NewJob
<1>4. CASE job' = [job EXCEPT ![Weekly] = NewJob] /\ \E o \in Offers \cup {NoOffer} : NextSlot(o)
  <2>1. JobsFollow
    BY <1>2, <1>3, <1>4 DEF JobsFollow
  <2> QED
    BY <1>1, <1>4, <2>1, NextSlotTyped, JobsOnly
<1>5. CASE UNCHANGED <<job, weekly>>
  BY <1>1, <1>2, <1>5, JobsOnly DEF JobsFollow, IInv, RestTyped
<1> QED
  BY <1>4, <1>5 DEF Restart

LEMMA DrawKeeps ==
  ASSUME IInv, NEW u \in Users, NEW public \in BOOLEAN, NEW test \in BOOLEAN,
         NEW lag \in Stamps, Draw(u, public, test, lag)
  PROVE  IInv'
<1> DEFINE hit == {w \in Bets : Qualifies(w, u, public, test, lag)}
<1>1. CardsStill /\ UNCHANGED <<weekly, job>>
  BY DEF Draw, CardsStill, offerVars
<1>2. bets' = [w \in Bets |-> IF w \in hit THEN [bets[w] EXCEPT !.drawn = TRUE]
                              ELSE bets[w]]
  BY DEF Draw
<1>3. observing' = observing \cup ({hit} \ {{}})
  BY DEF Draw
<1>4. ASSUME NEW w \in Bets PROVE Moves(w)
  <2>1. CASE w \in hit
    BY <1>2, <2>1 DEF Qualifies, Moves, CountsDraw, IsOpen
  <2>2. CASE w \notin hit
    BY <1>2, <2>2 DEF Moves
  <2> QED
    BY <2>1, <2>2
<1>5. Cards' /\ OffersKeep /\ CardsTyped'
  BY <1>1, StillCards DEF Cards
<1>6. \A w \in Bets : bets[w].drawn => bets'[w].drawn
  BY <1>4, <1>5, MovesOn
<1>7. \A w \in hit : bets'[w].drawn
  BY <1>2, DrawnFields DEF IInv
<1>8. hit \subseteq Bets
  OBVIOUS
<1>9. bets' = [w \in Bets |-> bets'[w]]
  BY <1>2
<1> HIDE DEF hit
<1>10. \A h \in observing' : \A w \in h : bets'[w].drawn
  BY <1>3, <1>6, <1>7 DEF IInv, ReportsDrawn, RestTyped
<1>11. RestTyped'
  BY <1>1, <1>3, <1>8 DEF IInv, RestTyped
<1>12. \A w \in Bets : job'[w].state = "claimed" => bets[w].due <= 0
  BY <1>1 DEF IInv, DeadlinesClaimed
<1> QED
  BY <1>4, <1>5, <1>9, <1>10, <1>11, <1>12, GoesOn DEF Goes

-----------------------------------------------------------------------------
(* Offers and their cards                                                  *)

(* One offer and its card move; the others are as they were. *)
LEMMA OneCard ==
  ASSUME IInv, CardsTyped', NEW o \in Offers, Card(o)',
         offer[o].state = "closed" => /\ offer'[o].state = "closed"
                                      /\ offer'[o].left = offer[o].left,
         \A p \in Offers \ {o} : /\ offer'[p] = offer[p] /\ control'[p] = control[p]
                                 /\ row'[p] = row[p] /\ (p \in edited <=> p \in edited')
  PROVE  Cards' /\ OffersKeep
<1>1. ASSUME NEW p \in Offers, p # o PROVE Card(p)'
  <2>1. Card(p)
    BY DEF IInv, Cards
  <2> QED
    BY <1>1, <2>1 DEF Card
<1>2. OffersKeep
  BY DEF OffersKeep
<1> QED
  BY <1>1, <1>2 DEF Cards

LEMMA CardTypes ==
  ASSUME IInv, NEW o \in Offers
  PROVE  /\ offer[o] \in OfferRows /\ control[o] \in {"none", "active", "cancelled"}
         /\ row[o] \in [Kinds -> RowStates] /\ Card(o)
         /\ row[o]["create"] \in RowStates /\ row[o]["reminder"] \in RowStates
         /\ CardsTyped
  BY DEF IInv, Cards, CardsTyped, Kinds

(* The jobs and reports of a step that makes at most new jobs of offers. *)
CardStep == /\ UNCHANGED <<bets, observing, weekly>> /\ JobsFollow

LEMMA CardStepKeeps ==
  ASSUME IInv, Cards', OffersKeep, CardStep
  PROVE  IInv'
<1>1. RestTyped'
  BY DEF RestTyped, IInv, CardStep, JobsFollow
<1> QED
  BY <1>1, WithoutBets DEF CardStep, JobsFollow

(* CloseOffer withdraws what was not handed to Discord and edits the rest. *)
LEMMA CloseOfferKeeps ==
  ASSUME IInv, NEW o \in Offers, CloseOffer(o), offer[o].state = "open"
  PROVE  Cards' /\ OffersKeep /\ offer'[o].state = "closed"
<1>1. /\ offer[o] \in OfferRows /\ row[o] \in [Kinds -> RowStates] /\ Card(o) /\ CardsTyped
      /\ row[o]["create"] \in RowStates /\ row[o]["reminder"] \in RowStates
  BY CardTypes
<1> DEFINE create == Cancelled(row[o]["create"])
           reminder == Cancelled(row[o]["reminder"])
<1>2. /\ create \in RowStates \ {"none", "pending", "claimed"}
      /\ reminder \in RowStates \ {"pending", "claimed"}
      /\ create = "gone" \/ row[o]["create"] \in {"delivered", "submitted"}
  BY <1>1 DEF Cancelled, Withdrawable, RowStates, Card
<1>3. row' = [row EXCEPT ![o]["create"] = create, ![o]["reminder"] = reminder]
  BY DEF CloseOffer, RetiredRows
<1> HIDE DEF create, reminder
<1>4. row' \in [Offers -> [Kinds -> RowStates]]
  BY <1>1, <1>2, <1>3 DEF CardsTyped, Kinds
<1>5. row'[o]["create"] = create /\ row'[o]["reminder"] = reminder
  BY <1>1, <1>3 DEF CardsTyped, Kinds
<1>6. offer' \in [Offers -> OfferRows] /\ offer'[o].state = "closed"
  BY <1>1 DEF CloseOffer, CardsTyped, OfferRows
<1>7. control' \in [Offers -> {"none", "active", "cancelled"}] /\ control'[o] = "cancelled"
  BY <1>1 DEF CloseOffer, CardsTyped
<1>8. /\ edited' \subseteq Offers /\ edited \subseteq edited' /\ edited' \subseteq edited \cup {o}
      /\ create = "gone" \/ o \in edited'
  BY <1>1, <1>2 DEF CloseOffer, NowEdited, CardsTyped
<1>9. CardsTyped'
  BY <1>4, <1>6, <1>7, <1>8 DEF CardsTyped
<1>10. Card(o)'
  BY <1>2, <1>5, <1>6, <1>7, <1>8 DEF Card
<1>11. \A p \in Offers \ {o} : /\ offer'[p] = offer[p] /\ control'[p] = control[p]
                               /\ row'[p] = row[p] /\ (p \in edited <=> p \in edited')
  BY <1>1, <1>3, <1>8 DEF CloseOffer, CardsTyped
<1> QED
  BY <1>6, <1>9, <1>10, <1>11, OneCard

LEMMA HandleOfferExpiryKeeps ==
  ASSUME IInv, NEW o \in Offers, HandleOfferExpiry(o)
  PROVE  IInv'
<1>1. UNCHANGED <<bets, observing, weekly>>
  BY DEF HandleOfferExpiry, betVars
<1>2. job \in [Jobs -> JobRows] /\ o \in Jobs
  BY DEF IInv, RestTyped, Jobs
<1>3. CASE ~run.enabled
  <2> DEFINE new == [state |-> "pending", attempts |-> job[o].attempts - 1]
  <2>1. job' = [job EXCEPT ![o] = new] /\ CardsStill
    BY <1>3 DEF HandleOfferExpiry, CardsStill
  <2>2. new \in JobRows /\ new.state = "pending"
    <3>1. job[o].attempts - 1 \in Int
      BY <1>2, JobFields
    <3> QED
      BY <3>1 DEF JobRows
  <2> HIDE DEF new
  <2>3. JobsFollow
    BY <1>2, <2>1, <2>2 DEF JobsFollow
  <2> QED
    BY <1>1, <2>1, <2>3, StillCards, CardStepKeeps DEF CardStep
<1>4. CASE run.enabled
  <2>1. job' = [job EXCEPT ![o].state = "completed"]
    BY <1>4 DEF HandleOfferExpiry
  <2>2. JobsFollow
    BY <1>2, <2>1 DEF JobsFollow, JobRows
  <2>3. CASE offer[o].state = "open"
    BY <1>1, <1>4, <2>2, <2>3, CloseOfferKeeps, CardStepKeeps DEF HandleOfferExpiry, CardStep
  <2>4. CASE offer[o].state # "open"
    <3>1. CardsStill
      BY <1>4, <2>4 DEF HandleOfferExpiry, CardsStill
    <3> QED
      BY <1>1, <2>2, <3>1, StillCards, CardStepKeeps DEF CardStep
  <2> QED
    BY <2>3, <2>4
<1> QED
  BY <1>3, <1>4

(* A slot that had no offer gets one, or is skipped. *)
LEMMA OpenOfferKeeps ==
  ASSUME IInv, NEW o \in Offers, NEW test \in BOOLEAN, NEW left \in Int,
         offer[o].state = "none", OpenOffer(o, test, left)
  PROVE  Cards' /\ OffersKeep
<1>1. CardsTyped /\ offer[o] \in OfferRows /\ row[o] \in [Kinds -> RowStates]
  BY CardTypes
<1> DEFINE reserved == MaxProfit(OfferTemplate)
           new == [state |-> "open", left |-> left, test |-> test, reserved |-> reserved]
<1>2. [OpenedOffer(test) EXCEPT !.left = left] = new
  BY DEF OpenedOffer
<1>3. new \in OfferRows /\ new.state = "open"
  BY DEF OfferRows
<1> HIDE DEF new
<1>4. offer' = [offer EXCEPT ![o] = new]
  BY <1>2 DEF OpenOffer
<1>5. /\ control' = [control EXCEPT ![o] = "active"]
      /\ row' = [row EXCEPT ![o]["create"] = "pending", ![o]["reminder"] = "pending"]
      /\ edited' = edited
  BY DEF OpenOffer
<1>6. CardsTyped'
  BY <1>1, <1>3, <1>4, <1>5 DEF CardsTyped, RowStates, Kinds
<1>7. row'[o]["create"] = "pending" /\ row'[o]["reminder"] = "pending" /\ offer'[o] = new
  BY <1>1, <1>4, <1>5 DEF CardsTyped, Kinds
<1>8. Card(o)'
  BY <1>3, <1>7 DEF Card
<1>9. \A p \in Offers \ {o} : /\ offer'[p] = offer[p] /\ control'[p] = control[p]
                              /\ row'[p] = row[p] /\ (p \in edited <=> p \in edited')
  BY <1>1, <1>4, <1>5 DEF CardsTyped
<1> QED
  BY <1>6, <1>8, <1>9, OneCard

LEMMA SkippedKeeps ==
  ASSUME IInv, NEW o \in Offers, offer[o].state = "none",
         \/ offer' = [offer EXCEPT ![o].state = "skipped"]
         \/ offer' = [offer EXCEPT ![o].state = "skipped", ![o].test = TRUE],
         UNCHANGED <<control, row, edited>>
  PROVE  Cards' /\ OffersKeep
<1>1. CardsTyped /\ Card(o) /\ offer[o] \in OfferRows
  BY CardTypes
<1>2. offer' \in [Offers -> OfferRows] /\ offer'[o].state = "skipped"
  BY <1>1 DEF CardsTyped, OfferRows
<1>3. CardsTyped'
  BY <1>1, <1>2 DEF CardsTyped
<1>4. Card(o)'
  BY <1>1, <1>2 DEF Card
<1>5. \A p \in Offers \ {o} : /\ offer'[p] = offer[p] /\ control'[p] = control[p]
                              /\ row'[p] = row[p] /\ (p \in edited <=> p \in edited')
  BY <1>1 DEF CardsTyped
<1> QED
  BY <1>3, <1>4, <1>5, OneCard

LEMMA NewOfferJob ==
  ASSUME IInv, NEW o \in Offers, job' = [job EXCEPT ![o] = NewJob] \/ UNCHANGED job
  PROVE  JobsFollow
<1>1. NewJob \in JobRows /\ NewJob.state = "pending"
  BY DEF JobRows, NewJob
<1>2. job \in [Jobs -> JobRows] /\ Bets \subseteq Jobs
  BY DEF IInv, RestTyped, Jobs
<1>3. CASE job' = [job EXCEPT ![o] = NewJob]
  <2>1. job' \in [Jobs -> JobRows]
    BY <1>1, <1>2, <1>3
  <2>2. \A w \in Bets : job'[w] = NewJob \/ job'[w] = job[w]
    BY <1>2, <1>3
  <2> QED
    BY <1>1, <2>1, <2>2 DEF JobsFollow
<1>4. CASE UNCHANGED job
  BY <1>2, <1>4 DEF JobsFollow
<1> QED
  BY <1>3, <1>4

LEMMA HandleWeeklyKeeps ==
  ASSUME IInv, NEW o \in Offers, NEW operational \in BOOLEAN, NEW quiet \in BOOLEAN,
         HandleWeekly(o, operational, quiet)
  PROVE  IInv'
<1>1. /\ UNCHANGED <<bets, observing, weekly>> /\ offer[o].state = "none"
      /\ job' = [job EXCEPT ![o] = NewJob] \/ UNCHANGED job
  BY DEF HandleWeekly, OpenOffer, betVars
<1>2. CardStep
  BY <1>1, NewOfferJob DEF CardStep
<1>3. OfferLife + weekly.due \in Int
  BY HouseAssumption DEF HouseAssumption, IInv, RestTyped
<1>4. CASE OpenOffer(o, FALSE, OfferLife + weekly.due)
  BY <1>1, <1>2, <1>3, <1>4, OpenOfferKeeps, CardStepKeeps
<1>5. CASE /\ offer' = [offer EXCEPT ![o].state = "skipped"]
           /\ UNCHANGED <<control, row, edited>>
  BY <1>1, <1>2, <1>5, SkippedKeeps, CardStepKeeps
<1> QED
  BY <1>4, <1>5 DEF HandleWeekly

LEMMA OfferTestKeeps ==
  ASSUME IInv, NEW o \in Offers, NEW quiet \in BOOLEAN, OfferTest(o, quiet)
  PROVE  IInv'
<1>1. /\ UNCHANGED <<bets, observing, weekly>> /\ offer[o].state = "none"
      /\ job' = [job EXCEPT ![o] = NewJob] \/ UNCHANGED job
  BY DEF OfferTest, OpenOffer, betVars, Unused
<1>2. CardStep
  BY <1>1, NewOfferJob DEF CardStep
<1>3. OfferLife \in Int
  BY HouseAssumption DEF HouseAssumption
<1>4. CASE OpenOffer(o, TRUE, OfferLife)
  BY <1>1, <1>2, <1>3, <1>4, OpenOfferKeeps, CardStepKeeps
<1>5. CASE /\ offer' = [offer EXCEPT ![o].state = "skipped", ![o].test = TRUE]
           /\ UNCHANGED <<control, row, edited>>
  BY <1>1, <1>2, <1>5, SkippedKeeps, CardStepKeeps
<1> QED
  BY <1>4, <1>5 DEF OfferTest

LEMMA ClaimRowKeeps ==
  ASSUME IInv, NEW o \in Offers, NEW k \in Kinds, ClaimRow(o, k)
  PROVE  IInv'
<1>1. /\ CardStep
  BY DEF ClaimRow, CardStep, JobsFollow, betVars, IInv, RestTyped
<1>2. /\ offer[o] \in OfferRows /\ row[o] \in [Kinds -> RowStates] /\ Card(o) /\ CardsTyped
  BY CardTypes
<1> DEFINE new == IF row[o][k] = "retry" THEN "again" ELSE "claimed"
<1>3. row' = [row EXCEPT ![o][k] = new] /\ UNCHANGED <<offer, control, edited>>
  BY DEF ClaimRow
<1>4. new \in {"again", "claimed"} /\ row[o][k] \in {"pending", "retry"}
      /\ (new = "claimed" => row[o][k] = "pending") /\ RowDue(o, k)
  BY DEF ClaimRow
<1> HIDE DEF new
<1>5. row' \in [Offers -> [Kinds -> RowStates]]
  BY <1>2, <1>3, <1>4 DEF CardsTyped, RowStates
<1>6. row'[o][k] = new /\ \A l \in Kinds \ {k} : row'[o][l] = row[o][l]
  BY <1>2, <1>3 DEF CardsTyped
<1>7. Card(o)'
  <2>1. CASE k = "create"
    <3>1. row'[o]["create"] = new /\ row'[o]["reminder"] = row[o]["reminder"]
      BY <1>6, <2>1 DEF Kinds
    <3> QED
      BY <1>2, <1>3, <1>4, <2>1, <3>1 DEF Card
  <2>2. CASE k = "reminder"
    <3>1. row'[o]["create"] = row[o]["create"] /\ row'[o]["reminder"] = new
      BY <1>6, <2>2 DEF Kinds
    <3>2. row[o]["create"] = "delivered"
      BY <1>4, <2>2 DEF RowDue
    <3> QED
      BY <1>2, <1>3, <1>4, <2>2, <3>1, <3>2 DEF Card
  <2> QED
    BY <2>1, <2>2 DEF Kinds
<1>8. CardsTyped'
  BY <1>2, <1>3, <1>5 DEF CardsTyped
<1>9. \A p \in Offers \ {o} : /\ offer'[p] = offer[p] /\ control'[p] = control[p]
                              /\ row'[p] = row[p] /\ (p \in edited <=> p \in edited')
  BY <1>2, <1>3 DEF CardsTyped
<1>10. Cards' /\ OffersKeep
  BY <1>3, <1>7, <1>8, <1>9, OneCard
<1> QED
  BY <1>1, <1>10, CardStepKeeps

(* A row that was claimed goes on; it is not claimed after. *)
LEMMA RowMoves ==
  ASSUME IInv, NEW o \in Offers, NEW k \in Kinds, CardStep,
         NEW new \in {"submitted", "delivered", "retry", "gone"},
         row[o][k] \in {"claimed", "again", "submitted"},
         row' = [row EXCEPT ![o][k] = new], UNCHANGED <<offer, control, edited>>
  PROVE  IInv'
<1>1. /\ offer[o] \in OfferRows /\ row[o] \in [Kinds -> RowStates] /\ Card(o) /\ CardsTyped
  BY CardTypes
<1>2. row' \in [Offers -> [Kinds -> RowStates]]
  BY <1>1 DEF CardsTyped, RowStates
<1>3. row'[o][k] = new /\ \A l \in Kinds \ {k} : row'[o][l] = row[o][l]
  BY <1>1 DEF CardsTyped
<1>4. Card(o)'
  <2>1. CASE k = "create"
    <3>1. row'[o]["create"] = new /\ row'[o]["reminder"] = row[o]["reminder"]
      BY <1>3, <2>1 DEF Kinds
    <3> QED
      BY <1>1, <2>1, <3>1 DEF Card
  <2>2. CASE k = "reminder"
    <3>1. row'[o]["create"] = row[o]["create"] /\ row'[o]["reminder"] = new
      BY <1>3, <2>2 DEF Kinds
    <3> QED
      BY <1>1, <2>2, <3>1 DEF Card
  <2> QED
    BY <2>1, <2>2 DEF Kinds
<1>5. CardsTyped'
  BY <1>1, <1>2 DEF CardsTyped
<1>6. \A p \in Offers \ {o} : /\ offer'[p] = offer[p] /\ control'[p] = control[p]
                              /\ row'[p] = row[p] /\ (p \in edited <=> p \in edited')
  BY <1>1 DEF CardsTyped
<1>7. Cards' /\ OffersKeep
  BY <1>4, <1>5, <1>6, OneCard
<1> QED
  BY <1>7, CardStepKeeps

LEMMA CloseUndeliverableKeeps ==
  ASSUME IInv, NEW o \in Offers, CloseUndeliverable(o)
  PROVE  IInv'
<1>1. /\ CardStep
  BY DEF CloseUndeliverable, CardStep, JobsFollow, betVars, IInv, RestTyped
<1>2. /\ offer[o] \in OfferRows /\ row[o] \in [Kinds -> RowStates] /\ Card(o) /\ CardsTyped
      /\ row[o]["reminder"] \in RowStates
  BY CardTypes
<1> DEFINE old == row[o]["reminder"]
           new == IF old \in {"pending", "retry"} THEN "gone" ELSE old
<1>3. /\ row' = [row EXCEPT ![o]["reminder"] = new] /\ row[o]["create"] = "gone"
      /\ edited' = edited /\ offer[o].state = "open"
  BY DEF CloseUndeliverable
<1>4. new \in RowStates \ {"pending", "claimed"}
  BY <1>2, <1>3 DEF Card, RowStates
<1> HIDE DEF new
<1>5. row' \in [Offers -> [Kinds -> RowStates]]
  BY <1>2, <1>3, <1>4 DEF CardsTyped, Kinds
<1>6. row'[o]["create"] = "gone" /\ row'[o]["reminder"] = new
  BY <1>2, <1>3 DEF CardsTyped, Kinds
<1>7. offer' \in [Offers -> OfferRows] /\ offer'[o].state = "closed"
  BY <1>2 DEF CloseUndeliverable, CardsTyped, OfferRows
<1>8. control' \in [Offers -> {"none", "active", "cancelled"}] /\ control'[o] = "cancelled"
  BY <1>2 DEF CloseUndeliverable, CardsTyped
<1>9. CardsTyped'
  BY <1>2, <1>3, <1>5, <1>7, <1>8 DEF CardsTyped
<1>10. Card(o)'
  BY <1>4, <1>6, <1>7, <1>8 DEF Card
<1>11. \A p \in Offers \ {o} : /\ offer'[p] = offer[p] /\ control'[p] = control[p]
                               /\ row'[p] = row[p] /\ (p \in edited <=> p \in edited')
  BY <1>2, <1>3 DEF CloseUndeliverable, CardsTyped
<1>12. Cards' /\ OffersKeep
  BY <1>3, <1>9, <1>10, <1>11, OneCard
<1> QED
  BY <1>1, <1>12, CardStepKeeps

LEMMA InspectControlKeeps ==
  ASSUME IInv, NEW o \in Offers, InspectControl(o)
  PROVE  IInv'
<1>1. /\ CardStep
  BY DEF InspectControl, CardStep, JobsFollow, betVars, IInv, RestTyped
<1>2. /\ Card(o) /\ CardsTyped
  BY CardTypes
<1>3. /\ control' = [control EXCEPT ![o] = "cancelled"]
      /\ UNCHANGED <<offer, row, edited>>
  BY DEF InspectControl
<1>4. CardsTyped'
  BY <1>2, <1>3 DEF CardsTyped
<1>5. Card(o)'
  BY <1>2, <1>3 DEF Card, CardsTyped
<1>6. \A p \in Offers \ {o} : /\ offer'[p] = offer[p] /\ control'[p] = control[p]
                              /\ row'[p] = row[p] /\ (p \in edited <=> p \in edited')
  BY <1>2, <1>3 DEF CardsTyped
<1>7. Cards' /\ OffersKeep
  BY <1>3, <1>4, <1>5, <1>6, OneCard
<1> QED
  BY <1>1, <1>7, CardStepKeeps

-----------------------------------------------------------------------------
(* Crashes and time                                                        *)

LEMMA CrashKeeps == IInv /\ Crash => IInv'
<1> SUFFICES ASSUME IInv, Crash PROVE IInv'
  OBVIOUS
<1>1. /\ UNCHANGED <<bets, offer, control, edited, weekly>> /\ observing' = {}
      /\ job' = [j \in Jobs |-> Lapsed(job[j])]
  BY DEF Crash
<1> DEFINE again(r) == IF r = "claimed" THEN "pending"
                       ELSE IF r \in {"submitted", "again"} THEN "retry" ELSE r
<1>2. row' = [o \in Offers |-> [k \in Kinds |-> again(row[o][k])]]
  BY DEF Crash, Kinds
<1>3. CardsTyped
  BY DEF IInv, Cards
<1>4. row' \in [Offers -> [Kinds -> RowStates]]
  BY <1>2, <1>3 DEF CardsTyped, RowStates
<1>5. CardsTyped'
  BY <1>1, <1>3, <1>4 DEF CardsTyped
<1>6. ASSUME NEW o \in Offers PROVE Card(o)'
  <2>1. /\ Card(o) /\ row[o]["create"] \in RowStates /\ row[o]["reminder"] \in RowStates
    BY CardTypes
  <2>2. /\ row'[o]["create"] = again(row[o]["create"])
        /\ row'[o]["reminder"] = again(row[o]["reminder"])
    BY <1>2 DEF Kinds
  <2> QED
    BY <1>1, <2>1, <2>2 DEF Card, RowStates
<1>7. Cards' /\ OffersKeep
  BY <1>1, <1>5, <1>6 DEF Cards, OffersKeep
<1>8. ASSUME NEW j \in Jobs PROVE Lapsed(job[j]) \in JobRows /\ Lapsed(job[j]).state # "claimed"
  <2>1. job[j] \in JobRows
    BY DEF IInv, RestTyped
  <2> QED
    BY <2>1 DEF Lapsed, JobRows
<1>9. JobsFollow
  BY <1>1, <1>8 DEF JobsFollow, Jobs
<1>10. RestTyped'
  BY <1>1, <1>9 DEF JobsFollow, IInv, RestTyped
<1> QED
  BY <1>1, <1>7, <1>9, <1>10, WithoutBets DEF JobsFollow

LEMMA TickKeeps == IInv /\ Tick => IInv'
<1> SUFFICES ASSUME IInv, Tick PROVE IInv'
  OBVIOUS
<1>1. UNCHANGED <<observing, control, row, edited, job>>
  BY DEF Tick
<1>2. bets' = [w \in Bets |->
        IF bets[w].state = "open" THEN [bets[w] EXCEPT !.due = Down(@, DueFloor)]
        ELSE IF bets[w].state = "settled" THEN [bets[w] EXCEPT !.cool = Down(@, 0)]
        ELSE bets[w]]
  BY DEF Tick
<1>3. bets' = [w \in Bets |-> bets'[w]]
  BY <1>2
<1>4. ASSUME NEW w \in Bets PROVE Moves(w)
  BY <1>2 DEF Moves, Ages, IsOpen
<1>5. /\ offer' = [o \in Offers |-> IF offer[o].state \in {"open", "closed"}
           THEN [offer[o] EXCEPT !.left = Down(@, DueFloor)] ELSE offer[o]]
      /\ weekly' = [weekly EXCEPT !.due = Down(@, -(MissedAfter + 1))]
  BY DEF Tick, DueFloor
<1>6. ASSUME NEW o \in Offers
      PROVE  /\ offer'[o] \in OfferRows /\ offer'[o].state = offer[o].state
             /\ offer[o].left <= 0 => offer'[o].left <= 0
  <2>1. offer[o] \in OfferRows
    BY CardTypes
  <2> DEFINE left == Down(offer[o].left, DueFloor)
  <2>2. offer[o].left \in Int
    BY <2>1 DEF OfferRows
  <2>3. left \in Int /\ (offer[o].left <= 0 => left <= 0)
    BY <2>2, LagFacts, DownFacts
  <2>4. \/ offer'[o] = offer[o]
        \/ offer'[o] = [offer[o] EXCEPT !.left = left]
    BY <1>5
  <2> HIDE DEF left
  <2> QED
    BY <2>1, <2>3, <2>4 DEF OfferRows
<1>7. CardsTyped'
  BY <1>1, <1>5, <1>6 DEF IInv, Cards, CardsTyped
<1>8. ASSUME NEW o \in Offers PROVE Card(o)'
  BY <1>1, <1>6, CardTypes DEF Card
<1>9. Cards' /\ OffersKeep
  BY <1>6, <1>7, <1>8 DEF Cards, OffersKeep
<1>10. weekly' \in [slot : Offers \cup {NoOffer}, due : Int]
  <2> DEFINE due == Down(weekly.due, -(MissedAfter + 1))
  <2>1. weekly \in [slot : Offers \cup {NoOffer}, due : Int] /\ -(MissedAfter + 1) \in Int
    BY HouseAssumption DEF HouseAssumption, IInv, RestTyped
  <2>2. due \in Int
    BY <2>1 DEF Down
  <2>3. weekly' = [weekly EXCEPT !.due = due]
    BY <1>5
  <2> HIDE DEF due
  <2> QED
    BY <2>1, <2>2, <2>3
<1>11. RestTyped'
  BY <1>1, <1>10 DEF IInv, RestTyped
<1>12. \A w \in Bets : bets[w].drawn => bets'[w].drawn
  BY <1>4, <1>7, <1>9, MovesOn
<1>13. \A hit \in observing' : \A w \in hit : bets'[w].drawn
  BY <1>1, <1>12 DEF IInv, ReportsDrawn, RestTyped
<1>14. \A w \in Bets : job'[w].state = "claimed" => bets[w].due <= 0
  BY <1>1 DEF IInv, DeadlinesClaimed
<1> QED
  BY <1>3, <1>4, <1>9, <1>11, <1>13, <1>14, GoesOn DEF Goes

-----------------------------------------------------------------------------
(* A play                                                                  *)

LEMMA PlayKeeps ==
  ASSUME IInv, NEW w \in Bets, NEW u \in Users, NEW t \in Templates,
         NEW c \in DOMAIN Profit[t], NEW o \in PlayChoices(t), Play(w, u, t, c, o)
  PROVE  IInv'
<1> DEFINE due == IF t \in Offered THEN offer[o].left + ResolveFor ELSE Window[t]
           taken == IF t \in Offered THEN o ELSE NoOffer
           b == [NoBet EXCEPT !.state = "open", !.template = t, !.user = u,
                              !.choice = c, !.due = due, !.offer = taken]
<1>1. /\ bets[w].state = "none" /\ ~Refused(u, t, c, o)
      /\ bets' = [bets EXCEPT ![w] = b]
      /\ UNCHANGED <<observing, weekly>>
  BY DEF Play
<1>2. ASSUME t \in Offered PROVE o \in Offers /\ offer[o].state = "open"
  BY <1>1, <1>2 DEF PlayChoices, Refused, Takeable
<1>3. due \in Int /\ taken \in Offers \cup {NoOffer}
  <2>1. CASE t \in Offered
    <3>1. offer[o].left \in Int
      BY <1>2, <2>1, CardTypes DEF OfferRows
    <3> QED
      BY <1>2, <2>1, <3>1, HouseAssumption DEF HouseAssumption
  <2>2. CASE t \notin Offered
    BY <2>2, HouseAssumption DEF HouseAssumption
  <2> QED
    BY <2>1, <2>2
<1>4. Cards' /\ OffersKeep /\ (t \in Offered => offer'[o].state = "closed")
  <2>1. CASE t \in Offered
    BY <1>2, <2>1, CloseOfferKeeps DEF Play
  <2>2. CASE t \notin Offered
    <3>1. CardsStill
      BY <2>2 DEF Play, CardsStill
    <3> QED
      BY <2>2, <3>1, StillCards
  <2> QED
    BY <2>1, <2>2
<1>5. JobsFollow /\ job'[w].state # "claimed"
  <2>1. job \in [Jobs -> JobRows] /\ Bets \subseteq Jobs /\ Offers \subseteq Jobs
    BY DEF IInv, RestTyped, Jobs
  <2>2. NewJob \in JobRows /\ NewJob.state = "pending"
    BY DEF JobRows, NewJob
  <2> DEFINE placed == [job EXCEPT ![w] = NewJob]
  <2>3. placed \in [Jobs -> JobRows] /\ placed[w].state = "pending"
        /\ \A v \in Bets : placed[v].state = "claimed" => job[v].state = "claimed"
    BY <2>1, <2>2
  <2>4. CASE t \in Offered
    <3> DEFINE state == IF placed[o].state \in {"pending", "claimed", "lapsed"}
                        THEN "cancelled" ELSE placed[o].state
    <3>1. job' = [placed EXCEPT ![o].state = state]
      BY <2>4 DEF Play
    <3>2. o \in Jobs /\ placed[o] \in JobRows
      BY <1>2, <2>1, <2>3, <2>4
    <3>3. state \in {"none", "completed", "cancelled", "dead"}
      BY <3>2 DEF JobRows
    <3> HIDE DEF placed, state
    <3>4. job' \in [Jobs -> JobRows]
      BY <2>3, <3>1, <3>2, <3>3 DEF JobRows
    <3>5. job'[o].state = state /\ \A v \in Bets : v # o => job'[v] = placed[v]
      BY <2>1, <2>3, <3>1, <3>2 DEF JobRows
    <3> QED
      BY <2>3, <3>3, <3>4, <3>5 DEF JobsFollow
  <2>5. CASE t \notin Offered
    BY <2>3, <2>5 DEF Play, JobsFollow
  <2> QED
    BY <2>4, <2>5
<1>6. NoBet \in BetRecords /\ NoBet.drawn = FALSE
  BY DEF NoBet, BetRecords, Results
<1>7. c \in ChoiceSlugs
  BY DEF ChoiceSlugs
<1> HIDE DEF due, taken
<1>8. /\ b \in BetRecords /\ b.state = "open" /\ b.template = t /\ b.drawn = FALSE
      /\ b.due = due /\ b.offer = taken
  BY <1>3, <1>6, <1>7 DEF BetRecords
<1> HIDE DEF b
<1>9. CardsTyped' /\ RestTyped'
  BY <1>1, <1>4, <1>5 DEF Cards, IInv, RestTyped, JobsFollow
<1>10. bets \in [Bets -> BetRecords] /\ bets' \in [Bets -> BetRecords]
  BY <1>1, <1>8 DEF IInv
<1>11. bets'[w] = b /\ \A v \in Bets \ {w} : bets'[v] = bets[v]
  BY <1>1, <1>10
<1>12. ASSUME NEW v \in Bets, v # w PROVE Placed(bets[v])'
  <2>1. Moves(v)
    BY <1>11, <1>12 DEF Moves
  <2> QED
    BY <1>4, <1>9, <2>1, MovesOn
<1>13. Placed(bets[w])'
  <2>1. t \notin Offered => taken \notin Offers
    BY HouseAssumption DEF HouseAssumption, taken
  <2>2. t \in Offered => taken = o
    BY DEF taken
  <2> QED
    BY <1>2, <1>4, <1>8, <1>11, <2>1, <2>2 DEF Placed
<1>14. DeadlinesClaimed'
  BY <1>5, <1>11 DEF DeadlinesClaimed, JobsFollow, IInv
<1>15. ReportsDrawn'
  <2>1. ~bets[w].drawn
    BY <1>1 DEF IInv, Placed
  <2> QED
    BY <1>1, <1>11, <2>1 DEF ReportsDrawn, IInv, RestTyped
<1>16. TakenOnce'
  <2>1. ASSUME NEW v \in Bets, v # w PROVE ~(taken \in Offers /\ bets[v].offer = taken)
    <3>1. ASSUME taken \in Offers PROVE offer[taken].state = "open"
      BY <1>2, <3>1, HouseAssumption DEF HouseAssumption, taken
    <3>2. bets[v].offer \in Offers => offer[bets[v].offer].state = "closed"
      BY DEF IInv, Placed
    <3> QED
      BY <3>1, <3>2
  <2> QED
    BY <1>8, <1>11, <2>1 DEF TakenOnce, IInv
<1> QED
  BY <1>4, <1>9, <1>10, <1>12, <1>13, <1>14, <1>15, <1>16 DEF IInv

-----------------------------------------------------------------------------
(* The invariant, and what it says                                         *)

LEMMA PlayOrDraw == IInv /\ (PlayStep \/ DrawStep) => IInv'
<1> SUFFICES ASSUME IInv, PlayStep \/ DrawStep PROVE IInv'
  OBVIOUS
<1>1. CASE PlayStep
  BY <1>1, PlayKeeps DEF PlayStep
<1>2. CASE DrawStep
  <2>1. CASE \E u \in Users, public \in BOOLEAN, test \in BOOLEAN, lag \in Stamps :
               Draw(u, public, test, lag)
    BY <2>1, DrawKeeps
  <2>2. CASE \E hit \in observing : ObserveDraw(hit) \/ ObserveFails(hit)
    BY <2>2, ObserveDrawKeeps
  <2>3. CASE ReconcileDraws
    BY <2>3, ReconcileDrawsKeeps
  <2> QED
    BY <1>2, <2>1, <2>2, <2>3 DEF DrawStep
<1> QED
  BY <1>1, <1>2

LEMMA SettleKeeps == IInv /\ SettleStep => IInv'
<1> SUFFICES ASSUME IInv, SettleStep PROVE IInv'
  OBVIOUS
<1>1. CASE ResolveDue
  BY <1>1, ResolveDueKeeps
<1>2. CASE \E w \in Bets : HandleDeadline(w) \/ CleanupTest(w)
  BY <1>2, HandleDeadlineKeeps, CleanupTestKeeps
<1>3. CASE \E w \in Bets, outcome \in {"yes", "no", "void"}, lag \in Stamps :
             ResolveOwner(w, outcome, lag)
  BY <1>3, ResolveOwnerKeeps
<1> QED
  BY <1>1, <1>2, <1>3 DEF SettleStep

LEMMA RowStepKeeps ==
  ASSUME IInv, NEW o \in Offers, NEW k \in Kinds,
         SubmitRow(o, k) \/ \E answer \in {"delivered", "retry", "gone"} :
                              AnswerRow(o, k, answer)
  PROVE  IInv'
<1>1. CardStep
  BY DEF SubmitRow, AnswerRow, CardStep, JobsFollow, betVars, IInv, RestTyped
<1>2. CASE SubmitRow(o, k)
  BY <1>1, <1>2, RowMoves DEF SubmitRow
<1>3. CASE \E answer \in {"delivered", "retry", "gone"} : AnswerRow(o, k, answer)
  BY <1>1, <1>3, RowMoves DEF AnswerRow
<1> QED
  BY <1>2, <1>3

LEMMA OfferKeeps == IInv /\ OfferStep => IInv'
<1> SUFFICES ASSUME IInv, NEW o \in Offers,
        \/ HandleOfferExpiry(o) \/ CloseUndeliverable(o) \/ InspectControl(o)
        \/ \E operational, quiet \in BOOLEAN : HandleWeekly(o, operational, quiet)
        \/ \E quiet \in BOOLEAN : OfferTest(o, quiet)
        \/ \E k \in Kinds :
             \/ ClaimRow(o, k) \/ SubmitRow(o, k)
             \/ \E answer \in {"delivered", "retry", "gone"} : AnswerRow(o, k, answer)
      PROVE  IInv'
  BY DEF OfferStep, Kinds
<1>1. CASE HandleOfferExpiry(o) \/ CloseUndeliverable(o) \/ InspectControl(o)
  BY <1>1, HandleOfferExpiryKeeps, CloseUndeliverableKeeps, InspectControlKeeps
<1>2. CASE \E operational, quiet \in BOOLEAN : HandleWeekly(o, operational, quiet)
  BY <1>2, HandleWeeklyKeeps
<1>3. CASE \E quiet \in BOOLEAN : OfferTest(o, quiet)
  BY <1>3, OfferTestKeeps
<1>4. CASE \E k \in Kinds :
             \/ ClaimRow(o, k) \/ SubmitRow(o, k)
             \/ \E answer \in {"delivered", "retry", "gone"} : AnswerRow(o, k, answer)
  BY <1>4, ClaimRowKeeps, RowStepKeeps
<1> QED
  BY <1>1, <1>2, <1>3, <1>4

LEMMA JobKeeps == IInv /\ JobStep => IInv'
  BY ClaimJobKeeps, FailJobKeeps, RescheduleWeeklyKeeps DEF JobStep

LEMMA StutterKeeps == IInv /\ UNCHANGED vars => IInv'
<1> SUFFICES ASSUME IInv, UNCHANGED vars PROVE IInv'
  OBVIOUS
<1>1. UNCHANGED <<bets, observing, job, weekly>> /\ CardsStill
  BY DEF vars, betVars, offerVars, CardsStill
<1> QED
  BY <1>1, JobsOnly DEF JobsFollow, IInv, RestTyped

LEMMA NextKeeps == IInv /\ [Next]_vars => IInv'
<1> SUFFICES ASSUME IInv, [Next]_vars PROVE IInv'
  OBVIOUS
<1>1. CASE PlayStep \/ DrawStep
  BY <1>1, PlayOrDraw
<1>2. CASE SettleStep
  BY <1>2, SettleKeeps
<1>3. CASE OfferStep
  BY <1>3, OfferKeeps
<1>4. CASE JobStep
  BY <1>4, JobKeeps
<1>5. CASE Crash
  BY <1>5, CrashKeeps
<1>6. CASE \E enabled \in BOOLEAN : Restart(enabled)
  BY <1>6, RestartKeeps
<1>7. CASE Tick
  BY <1>7, TickKeeps
<1>8. CASE UNCHANGED vars
  BY <1>8, StutterKeeps
<1> QED
  BY <1>1, <1>2, <1>3, <1>4, <1>5, <1>6, <1>7, <1>8 DEF Next, Steps

LEMMA Promises == IInv => OfferTakenOnce /\ ResultIsEarned
<1> SUFFICES ASSUME IInv PROVE OfferTakenOnce /\ ResultIsEarned
  OBVIOUS
<1>1. OfferTakenOnce
  <2>1. ASSUME NEW o \in Offers, NEW v \in Bets, NEW w \in Bets,
               bets[v].offer = o, bets[w].offer = o
        PROVE  v = w
    BY <2>1 DEF IInv, TakenOnce
  <2>2. ASSUME NEW o \in Offers, offer[o].state = "open", NEW w \in Bets
        PROVE  bets[w].offer # o
    BY <2>2 DEF IInv, Placed
  <2>3. ASSUME NEW o \in Offers PROVE Card(o)
    BY DEF IInv, Cards
  <2> QED
    BY <2>1, <2>2, <2>3 DEF OfferTakenOnce, Card
<1>2. ASSUME NEW w \in Bets, bets[w].state = "settled" PROVE Earned(bets[w])
  BY <1>2 DEF IInv, Placed
<1>3. ResultIsEarned
  BY <1>2 DEF ResultIsEarned, Earned
<1> QED
  BY <1>1, <1>3

(* One wager at most takes an offer, whether plays, the expiry job, the     *)
(* undeliverable card or a press closes it, and a closed offer's card,      *)
(* button and reminder are retired: play and retire_public_offer_card.      *)
THEOREM OffersAreTakenOnce == Spec => []OfferTakenOnce
<1>1. Init => IInv
  BY InitPlaced DEF Init
<1>2. IInv /\ [Next]_vars => IInv'
  BY NextKeeps
<1>3. IInv => OfferTakenOnce
  BY Promises
<1> QED
  BY <1>1, <1>2, <1>3, PTL DEF Spec

(* The result of a wager is what its terms promise, whichever of the        *)
(* observer, the reconciliation, the deadline job, the owner and the test   *)
(* command settles it, and whatever crash loses the report of a draw:       *)
(* observed_draw_outcome, deadline_outcome and resolve.                     *)
THEOREM ResultsAreEarned == Spec => []ResultIsEarned
<1>1. Init => IInv
  BY InitPlaced DEF Init
<1>2. IInv /\ [Next]_vars => IInv'
  BY NextKeeps
<1>3. IInv => ResultIsEarned
  BY Promises
<1> QED
  BY <1>1, <1>2, <1>3, PTL DEF Spec

LEMMA IInvStays == IInv /\ [FateNext]_fateVars => IInv'
<1> SUFFICES ASSUME IInv, [FateNext]_fateVars PROVE IInv'
  OBVIOUS
<1>1. CASE HouseStep \/ Pass
  BY <1>1, NextKeeps DEF HouseStep, Pass, Next
<1>2. CASE RecoveryStep
  <2>1. UNCHANGED <<bets, observing, job, weekly>> /\ CardsStill
    BY <1>2 DEF RecoveryStep, betVars, offerVars, CardsStill
  <2> QED
    BY <2>1, JobsOnly DEF JobsFollow, IInv, RestTyped
<1>3. CASE UNCHANGED fateVars
  BY <1>3, StutterKeeps DEF fateVars
<1> QED
  BY <1>1, <1>2, <1>3 DEF FateNext

(* Recoveries, adjustments and new members move Fate and nothing else the   *)
(* wagers and offers depend on: what the House promises holds as well where *)
(* the ways back to solvency run beside it on one ledger.                   *)
THEOREM HoldsBesideRecoveries == FateSpec => [](OfferTakenOnce /\ ResultIsEarned)
<1>1. FateInit => IInv
  BY InitPlaced DEF FateInit
<1>2. IInv /\ [FateNext]_fateVars => IInv'
  BY IInvStays
<1>3. IInv => OfferTakenOnce /\ ResultIsEarned
  BY Promises
<1> QED
  BY <1>1, <1>2, <1>3, PTL DEF FateSpec

-----------------------------------------------------------------------------
(* The ways back to solvency, their rewards left out                       *)

ClaimStates == {"none", "pending", "completed", "expired", "abandoned"}

(* Rows of tarot_recovery_claim whose rewards are in X: rewards are drawn   *)
(* from the balance, and nothing here depends on them.                     *)
RowsOf(X) == [state : ClaimStates, user : Users \cup {"none"},
              kind : R!Kinds \cup {"none"}, left : Nat, rest : Nat, reward : X]

Owned(r) == r.state \in {"pending", "completed"} => r.user \in Users /\ r.kind \in R!Kinds

(* What keeps a member from the next reward for as long as it takes.       *)
Bars(c, u, k) ==
  /\ claims[c].user = u /\ claims[c].kind = k /\ claims[c].state = "completed"
  /\ claims[c].rest + rested[u][k] >= RecoveryRest[k]

ClaimsTyped ==
  /\ \E X : claims \in [ClaimIds -> RowsOf(X)]
  /\ \A c \in ClaimIds : Owned(claims[c])
  /\ rested \in [Users -> [R!Kinds -> Nat]]

Barred ==
  \A u \in Users, k \in R!Kinds :
    rested[u][k] >= RecoveryRest[k] \/ \E c \in ClaimIds : Bars(c, u, k)

RInv == ClaimsTyped /\ Barred

LEMMA ClaimsBegin ==
  ASSUME R!NoClaims
  PROVE  RInv
<1>1. ClaimsTyped
  <2>1. claims \in [ClaimIds -> RowsOf({0})]
    BY DEF R!NoClaims, R!NoClaim, RowsOf, ClaimStates
  <2>2. \A c \in ClaimIds : Owned(claims[c])
    BY DEF R!NoClaims, R!NoClaim, Owned
  <2>3. rested \in [Users -> [R!Kinds -> Nat]]
    BY FateAssumption DEF R!RecoveryAssumption, R!NoClaims
  <2> QED
    BY <2>1, <2>2, <2>3 DEF ClaimsTyped
<1>2. Barred
  BY FateAssumption DEF R!RecoveryAssumption, R!NoClaims, Barred
<1> QED
  BY <1>1, <1>2 DEF RInv

(* A claim that is not completed, before or after, bars nobody.            *)
LEMMA BarsStay ==
  ASSUME RInv, UNCHANGED rested, ClaimsTyped',
         \A c \in ClaimIds : claims[c].state = "completed" => claims'[c] = claims[c]
  PROVE  RInv'
<1>1. ASSUME NEW u \in Users, NEW k \in R!Kinds, NEW c \in ClaimIds, Bars(c, u, k)
      PROVE  Bars(c, u, k)'
  BY <1>1 DEF Bars
<1> QED
  BY <1>1 DEF RInv, Barred

LEMMA StartKeepsBars ==
  ASSUME RInv, NEW c \in ClaimIds, NEW u \in Users, NEW k \in R!Kinds, NEW reward,
         R!StartRecovery(c, u, k, reward)
  PROVE  RInv' /\ \A d \in ClaimIds : ~R!Pays(d)
<1> DEFINE old == R!Pending(u, k)
           C == R!Closed(old)
<1>1. PICK X : claims \in [ClaimIds -> RowsOf(X)]
  BY DEF RInv, ClaimsTyped
<1>2. old = {d \in old : claims[d].state = "pending"} /\ old \subseteq ClaimIds
  BY DEF R!Pending
<1>3. C \in [ClaimIds -> RowsOf(X)]
  BY <1>1, <1>2 DEF R!Closed, RowsOf, ClaimStates
<1>4. ASSUME NEW d \in ClaimIds
      PROVE  /\ Owned(C[d])
             /\ claims[d].state = "completed" => C[d] = claims[d]
             /\ claims[d].state = "pending" => C[d].state # "completed"
  <2>1. Owned(claims[d])
    BY DEF RInv, ClaimsTyped
  <2>2. CASE d \in old
    BY <1>1, <1>2, <2>2 DEF R!Closed, RowsOf, Owned
  <2>3. CASE d \notin old
    BY <2>1, <2>3 DEF R!Closed
  <2> QED
    BY <2>2, <2>3
<1>5. UNCHANGED rested /\ claims[c].state = "none" /\ rested \in [Users -> [R!Kinds -> Nat]]
  BY DEF R!StartRecovery, RInv, ClaimsTyped
<1>6. CASE claims' = C
  <2>1. ClaimsTyped'
    BY <1>3, <1>4, <1>5, <1>6 DEF ClaimsTyped
  <2> QED
    BY <1>4, <1>5, <1>6, <2>1, BarsStay DEF R!Pays
<1>7. ASSUME NEW x, claims' = [C EXCEPT ![c] =
               [R!NoClaim EXCEPT !.state = "pending", !.user = u, !.kind = k,
                                 !.left = Lifetime, !.reward = x]]
      PROVE  RInv' /\ \A d \in ClaimIds : ~R!Pays(d)
  <2> DEFINE r == [R!NoClaim EXCEPT !.state = "pending", !.user = u, !.kind = k,
                                    !.left = Lifetime, !.reward = x]
             Y == X \cup {x}
  <2>1. r \in RowsOf(Y) /\ r.state = "pending" /\ Owned(r)
    BY FateAssumption DEF R!RecoveryAssumption, R!NoClaim, RowsOf, ClaimStates, Owned
  <2>2. C \in [ClaimIds -> RowsOf(Y)]
    BY <1>3 DEF RowsOf
  <2> HIDE DEF r, C, Y
  <2>3. claims' = [C EXCEPT ![c] = r]
    BY <1>7 DEF r
  <2>4. claims' \in [ClaimIds -> RowsOf(Y)] /\ claims'[c] = r
        /\ \A d \in ClaimIds : d # c => claims'[d] = C[d]
    BY <2>1, <2>2, <2>3
  <2>5. \A d \in ClaimIds : Owned(claims'[d])
    BY <1>4, <2>1, <2>4
  <2>6. ClaimsTyped'
    BY <1>5, <2>4, <2>5 DEF ClaimsTyped
  <2> QED
    BY <1>4, <1>5, <2>1, <2>4, <2>6, BarsStay DEF R!Pays
<1> QED
  BY <1>6, <1>7 DEF R!StartRecovery

LEMMA EndKeepsBars ==
  ASSUME RInv, NEW c \in ClaimIds, NEW s \in {"expired", "abandoned"},
         claims[c].state = "pending", claims' = [claims EXCEPT ![c].state = s], UNCHANGED rested
  PROVE  RInv' /\ \A d \in ClaimIds : ~R!Pays(d)
<1>1. PICK X : claims \in [ClaimIds -> RowsOf(X)]
  BY DEF RInv, ClaimsTyped
<1>2. claims' \in [ClaimIds -> RowsOf(X)] /\ claims'[c].state = s
      /\ \A d \in ClaimIds : d # c => claims'[d] = claims[d]
  BY <1>1 DEF RowsOf, ClaimStates
<1>3. \A d \in ClaimIds : Owned(claims'[d])
  BY <1>2 DEF RInv, ClaimsTyped, Owned
<1>4. ClaimsTyped'
  BY <1>2, <1>3 DEF RInv, ClaimsTyped
<1> QED
  BY <1>2, <1>4, BarsStay DEF R!Pays

(* A reward bars the next one, and was itself not barred.                  *)
LEMMA RewardIsScarce ==
  ASSUME RInv, NEW c \in ClaimIds, claims[c].state = "pending", R!StillEligible(c),
         claims' = [claims EXCEPT ![c] = R!Completed(c)],
         rested' = [rested EXCEPT ![claims[c].user][claims[c].kind] = 0]
  PROVE  /\ RInv'
         /\ \A d \in ClaimIds : R!Pays(d) =>
              rested[claims[d].user][claims[d].kind] >= RecoveryRest[claims[d].kind]
<1>0. PICK X : claims \in [ClaimIds -> RowsOf(X)]
  BY DEF RInv, ClaimsTyped
<1> DEFINE u == claims[c].user
           k == claims[c].kind
           r == R!Completed(c)
           Y == X \cup {R!Reward(c)}
<1>1. ClaimsTyped /\ RecoveryRest \in [R!Kinds -> Nat]
  BY FateAssumption DEF RInv, R!RecoveryAssumption
<1>2. u \in Users /\ k \in R!Kinds
  BY <1>1 DEF ClaimsTyped, Owned
<1>3. /\ r \in RowsOf(Y) /\ r.state = "completed" /\ r.user = u /\ r.kind = k
      /\ r.rest = RecoveryRest[k]
  BY <1>0, <1>1, <1>2 DEF RowsOf, ClaimStates, R!Completed
<1>4. rested[u][k] >= RecoveryRest[k]
  <2>1. SUFFICES ASSUME NEW d \in ClaimIds, Bars(d, u, k), ~(rested[u][k] >= RecoveryRest[k])
                 PROVE  FALSE
    BY <1>2 DEF RInv, Barred
  <2>2. rested[u][k] \in Nat /\ RecoveryRest[k] \in Nat /\ claims[d].rest \in Nat
    BY <1>0, <1>1, <1>2 DEF ClaimsTyped, RowsOf
  <2>3. claims[d].rest > 0
    BY <2>1, <2>2 DEF Bars
  <2> QED
    BY <2>1, <2>3 DEF Bars, R!StillEligible, R!Eligible, R!Resting, R!Same
<1>5. claims' \in [ClaimIds -> RowsOf(Y)] /\ claims'[c] = r
      /\ \A d \in ClaimIds : d # c => claims'[d] = claims[d]
  <2>1. claims \in [ClaimIds -> RowsOf(Y)]
    BY <1>0 DEF RowsOf
  <2> HIDE DEF r, Y
  <2> QED
    BY <1>3, <2>1 DEF r
<1>6. /\ rested' \in [Users -> [R!Kinds -> Nat]] /\ rested'[u][k] = 0
      /\ \A v \in Users, j \in R!Kinds : v # u \/ j # k => rested'[v][j] = rested[v][j]
  BY <1>1, <1>2 DEF ClaimsTyped
<1> HIDE DEF r
<1>7. ClaimsTyped'
  <2>1. \A d \in ClaimIds : Owned(claims'[d])
    BY <1>1, <1>2, <1>3, <1>5 DEF ClaimsTyped, Owned
  <2> QED
    BY <1>5, <1>6, <2>1 DEF ClaimsTyped
<1>8. ASSUME NEW v \in Users, NEW j \in R!Kinds
      PROVE  rested'[v][j] >= RecoveryRest[j] \/ \E d \in ClaimIds : Bars(d, v, j)'
  <2>1. CASE v = u /\ j = k
    <3>1. Bars(c, v, j)'
      BY <1>1, <1>2, <1>3, <1>5, <1>6, <2>1 DEF Bars
    <3> QED
      BY <3>1
  <2>2. CASE ~(v = u /\ j = k)
    <3>1. ASSUME NEW d \in ClaimIds, Bars(d, v, j)
          PROVE  Bars(d, v, j)'
      BY <1>5, <1>6, <2>2, <3>1 DEF Bars
    <3> QED
      BY <1>6, <2>2, <3>1 DEF RInv, Barred
  <2> QED
    BY <2>1, <2>2
<1>9. \A d \in ClaimIds : R!Pays(d) => d = c
  BY <1>5 DEF R!Pays
<1> QED
  BY <1>4, <1>7, <1>8, <1>9 DEF RInv, Barred

LEMMA TimeKeepsBars ==
  ASSUME RInv, R!Tick
  PROVE  RInv' /\ \A d \in ClaimIds : ~R!Pays(d)
<1>1. ClaimsTyped /\ RecoveryRest \in [R!Kinds -> Nat]
  BY FateAssumption DEF RInv, R!RecoveryAssumption
<1>0. PICK X : claims \in [ClaimIds -> RowsOf(X)]
  BY DEF RInv, ClaimsTyped
<1>2. ASSUME NEW c \in ClaimIds
      PROVE  /\ claims'[c] \in RowsOf(X)
             /\ claims'[c].state = claims[c].state /\ claims'[c].user = claims[c].user
             /\ claims'[c].kind = claims[c].kind /\ claims'[c].rest = R!Down(claims[c].rest)
  <2>1. claims'[c] = [claims[c] EXCEPT !.left = R!Down(claims[c].left),
                                       !.rest = R!Down(claims[c].rest)]
    BY DEF R!Tick
  <2>2. claims[c] \in RowsOf(X)
    BY <1>0
  <2>3. R!Down(claims[c].left) \in Nat /\ R!Down(claims[c].rest) \in Nat
    BY <2>2 DEF RowsOf, R!Down
  <2> QED
    BY <2>1, <2>2, <2>3 DEF RowsOf
<1>3. claims' \in [ClaimIds -> RowsOf(X)]
  BY <1>2 DEF R!Tick
<1>4. /\ rested' \in [Users -> [R!Kinds -> Nat]]
      /\ \A u \in Users, k \in R!Kinds :
           rested'[u][k] = IF rested[u][k] < RecoveryRest[k] THEN rested[u][k] + 1 ELSE rested[u][k]
  <2>1. \A u \in Users, k \in R!Kinds :
           rested'[u][k] = IF rested[u][k] < RecoveryRest[k] THEN rested[u][k] + 1 ELSE rested[u][k]
    BY DEF R!Tick
  <2>2. rested \in [Users -> [R!Kinds -> Nat]]
    BY <1>1 DEF ClaimsTyped
  <2>3. \A u \in Users : rested'[u] \in [R!Kinds -> Nat]
    <3>1. ASSUME NEW u \in Users, NEW k \in R!Kinds
          PROVE  (IF rested[u][k] < RecoveryRest[k] THEN rested[u][k] + 1 ELSE rested[u][k]) \in Nat
      BY <2>2
    <3> QED
      BY <3>1 DEF R!Tick
  <2> QED
    BY <2>1, <2>3 DEF R!Tick
<1>5. ClaimsTyped'
  BY <1>1, <1>2, <1>3, <1>4 DEF ClaimsTyped, Owned
<1>6. ASSUME NEW u \in Users, NEW k \in R!Kinds
      PROVE  rested'[u][k] >= RecoveryRest[k] \/ \E c \in ClaimIds : Bars(c, u, k)'
  <2>1. rested[u][k] \in Nat /\ RecoveryRest[k] \in Nat
    BY <1>1 DEF ClaimsTyped
  <2>2. CASE rested[u][k] >= RecoveryRest[k]
    BY <1>4, <2>1, <2>2
  <2>3. ASSUME NEW c \in ClaimIds, Bars(c, u, k), ~(rested[u][k] >= RecoveryRest[k])
        PROVE  Bars(c, u, k)'
    <3>1. claims[c].rest \in Nat /\ claims[c].rest + rested[u][k] >= RecoveryRest[k]
      BY <1>0, <2>3 DEF RowsOf, Bars
    <3>2. claims'[c].rest = claims[c].rest - 1 /\ rested'[u][k] = rested[u][k] + 1
      BY <1>2, <1>4, <2>1, <2>3, <3>1 DEF R!Down
    <3> QED
      BY <1>2, <2>1, <2>3, <3>1, <3>2 DEF Bars
  <2> QED
    BY <2>2, <2>3 DEF RInv, Barred
<1> QED
  BY <1>2, <1>5, <1>6 DEF RInv, Barred, R!Pays

Scarce == \A c \in ClaimIds : R!Pays(c) =>
            rested[claims[c].user][claims[c].kind] >= RecoveryRest[claims[c].kind]

LEMMA StillKeepsBars ==
  ASSUME RInv, UNCHANGED <<claims, rested>>
  PROVE  RInv' /\ \A d \in ClaimIds : ~R!Pays(d)
BY DEF RInv, ClaimsTyped, Barred, Bars, R!Pays

LEMMA RecoveriesKeepBars ==
  ASSUME RInv, R!Steps
  PROVE  RInv' /\ Scarce
<1>1. ASSUME NEW c \in ClaimIds, R!CompleteRecovery(c)
      PROVE  RInv' /\ Scarce
  <2>1. claims[c].state = "pending"
    BY <1>1 DEF R!CompleteRecovery
  <2>2. CASE \E s \in {"expired", "abandoned"} :
               claims' = [claims EXCEPT ![c].state = s] /\ UNCHANGED rested
    BY <2>1, <2>2, EndKeepsBars DEF Scarce
  <2>3. CASE /\ R!StillEligible(c) /\ claims' = [claims EXCEPT ![c] = R!Completed(c)]
             /\ rested' = [rested EXCEPT ![claims[c].user][claims[c].kind] = 0]
    BY <2>1, <2>3, RewardIsScarce DEF Scarce
  <2> QED
    BY <1>1, <2>2, <2>3 DEF R!CompleteRecovery
<1>2. ASSUME NEW c \in ClaimIds, R!Abandon(c)
      PROVE  RInv' /\ Scarce
  BY <1>2, EndKeepsBars DEF R!Abandon, Scarce
<1>3. ASSUME NEW c \in ClaimIds, NEW u \in Users, NEW k \in R!Kinds, NEW reward,
             R!StartRecovery(c, u, k, reward)
      PROVE  RInv' /\ Scarce
  BY <1>3, StartKeepsBars DEF Scarce
<1>4. CASE UNCHANGED <<claims, rested>>
  BY <1>4, StillKeepsBars DEF Scarce
<1> QED
  BY <1>1, <1>2, <1>3, <1>4 DEF R!Steps, R!EnsureAccount, R!Adjust, R!Reverse

(* For every policy: two rewards of one kind to one member are a cooldown  *)
(* apart, whichever claims they come from, however long a claim was open   *)
(* and whatever the House does to balances in between.                     *)
THEOREM RewardsAreScarce == FateSpec => RecoveryIsScarce
<1>1. ASSUME FateInit
      PROVE  RInv
  BY <1>1, ClaimsBegin DEF FateInit, R!Init
<1>2. ASSUME RInv, [FateNext]_fateVars
      PROVE  RInv' /\ Scarce
  <2>1. CASE UNCHANGED <<claims, rested>>
    BY <1>2, <2>1, StillKeepsBars DEF Scarce
  <2>2. CASE R!Steps
    BY <1>2, <2>2, RecoveriesKeepBars
  <2>3. CASE R!Tick
    BY <1>2, <2>3, TimeKeepsBars DEF Scarce
  <2> QED
    BY <1>2, <2>1, <2>2, <2>3 DEF FateNext, HouseStep, RecoveryStep, Pass, fateVars
<1> QED
  BY <1>1, <1>2, PTL DEF FateSpec, RecoveryIsScarce, R!RecoveryIsScarce, Scarce


-----------------------------------------------------------------------------
(* The ways back to solvency on a ledger of their own                      *)

(* A pending claim is a member's, and a trial's reward is one the policy   *)
(* allows; nobody is in debt.                                              *)
Priced ==
  \A c \in ClaimIds : claims[c].state = "pending" =>
    /\ claims[c].user \in Users /\ claims[c].kind \in R!Kinds
    /\ claims[c].kind = "trial" => claims[c].reward \in R!TrialRewards

Solvent == \A u \in Users : fate[u] >= 0

PInv == R!TypeOK /\ Priced /\ Solvent

LEMMA TransferMoves ==
  ASSUME fate \in [R!Accounts -> Int], NEW from \in R!Accounts, NEW to \in R!Accounts,
         from # to, NEW amount \in Int, fate' = R!Transfer(fate, from, to, amount)
  PROVE  /\ fate' \in [R!Accounts -> Int]
         /\ fate'[from] = fate[from] - amount /\ fate'[to] = fate[to] + amount
         /\ \A a \in R!Accounts : a # from /\ a # to => fate'[a] = fate[a]
BY DEF R!Transfer

LEMMA MembersAreNoBanks ==
  /\ \A u \in Users : u \in R!Accounts /\ u # "MINT" /\ u # "BURN"
  /\ "MINT" \in R!Accounts /\ "BURN" \in R!Accounts
BY FateAssumption DEF R!RecoveryAssumption, R!Accounts

LEMMA StartKeepsPrices ==
  ASSUME PInv, NEW c \in ClaimIds, NEW u \in Users, NEW k \in R!Kinds,
         NEW reward \in R!TrialRewards, R!StartRecovery(c, u, k, reward)
  PROVE  PInv' /\ \A d \in ClaimIds : ~R!Pays(d)
<1> DEFINE old == R!Pending(u, k)
           C == R!Closed(old)
           r == [R!NoClaim EXCEPT !.state = "pending", !.user = u, !.kind = k,
                   !.left = Lifetime, !.reward = IF k = "trial" THEN reward ELSE 0]
<1>1. UNCHANGED <<fate, known, adjusts, rested>> /\ claims[c].state = "none"
      /\ (claims' = C \/ claims' = [C EXCEPT ![c] = r])
  BY DEF R!StartRecovery
<1>2. claims \in [ClaimIds -> [state : ClaimStates, user : Users \cup {"none"},
                    kind : R!Kinds \cup {"none"}, left : Nat, rest : Nat, reward : Int]]
  BY DEF PInv, R!TypeOK, ClaimStates
<1>3. C \in [ClaimIds -> RowsOf(Int)]
  BY <1>2 DEF R!Closed, RowsOf, ClaimStates
<1>4. ASSUME NEW d \in ClaimIds
      PROVE  /\ C[d].state = "pending" => C[d] = claims[d]
             /\ claims[d].state = "pending" => C[d].state # "completed"
  BY <1>2 DEF R!Closed
<1>5. R!TrialRewards \subseteq Int
  BY FateAssumption DEF R!RecoveryAssumption, R!TrialRewards
<1>6. r \in RowsOf(Int) /\ r.state = "pending" /\ r.user = u /\ r.kind = k
      /\ (k = "trial" => r.reward = reward)
  <2>1. ASSUME NEW x \in Int
        PROVE  LET q == [R!NoClaim EXCEPT !.state = "pending", !.user = u, !.kind = k,
                                          !.left = Lifetime, !.reward = x]
               IN q \in RowsOf(Int) /\ q.state = "pending" /\ q.user = u /\ q.kind = k
                  /\ q.reward = x
    BY FateAssumption DEF R!RecoveryAssumption, R!NoClaim, RowsOf, ClaimStates
  <2>2. (IF k = "trial" THEN reward ELSE 0) \in Int
    BY <1>5
  <2> QED
    BY <2>1, <2>2
<1> HIDE DEF r, C
<1>7. claims' \in [ClaimIds -> RowsOf(Int)]
      /\ \A d \in ClaimIds : claims'[d] = C[d] \/ (d = c /\ claims'[d] = r)
  BY <1>1, <1>3, <1>6
<1>8. R!TypeOK'
  BY <1>1, <1>7 DEF PInv, R!TypeOK, RowsOf, ClaimStates
<1>9. Priced'
  <2> SUFFICES ASSUME NEW d \in ClaimIds, claims'[d].state = "pending"
               PROVE  /\ claims'[d].user \in Users /\ claims'[d].kind \in R!Kinds
                      /\ claims'[d].kind = "trial" => claims'[d].reward \in R!TrialRewards
    BY DEF Priced
  <2> QED
    BY <1>4, <1>6, <1>7 DEF PInv, Priced
<1>10. Solvent' /\ \A d \in ClaimIds : ~R!Pays(d)
  BY <1>1, <1>4, <1>6, <1>7 DEF PInv, Solvent, R!Pays
<1> QED
  BY <1>8, <1>9, <1>10 DEF PInv

LEMMA EndKeepsPrices ==
  ASSUME PInv, NEW c \in ClaimIds, NEW s \in {"expired", "abandoned"},
         claims' = [claims EXCEPT ![c].state = s], UNCHANGED <<fate, known, adjusts, rested>>
  PROVE  PInv' /\ \A d \in ClaimIds : ~R!Pays(d)
<1>1. claims \in [ClaimIds -> RowsOf(Int)]
  BY DEF PInv, R!TypeOK, RowsOf, ClaimStates
<1>2. claims' \in [ClaimIds -> RowsOf(Int)] /\ claims'[c].state = s
      /\ \A d \in ClaimIds : d # c => claims'[d] = claims[d]
  BY <1>1 DEF RowsOf, ClaimStates
<1>3. R!TypeOK' /\ Priced' /\ Solvent'
  BY <1>2 DEF PInv, R!TypeOK, RowsOf, ClaimStates, Priced, Solvent
<1> QED
  BY <1>2, <1>3 DEF PInv, R!Pays

Lifts(c) == LET u == claims[c].user k == claims[c].kind IN
  /\ fate[u] < Threshold[k] /\ fate'[u] > fate[u] /\ fate'[u] <= R!Ceiling(k)

LEMMA RewardLifts ==
  ASSUME PInv, NEW c \in ClaimIds, claims[c].state = "pending", R!StillEligible(c),
         claims' = [claims EXCEPT ![c] = R!Completed(c)],
         fate' = R!Transfer(fate, "MINT", claims[c].user, R!Reward(c)),
         rested' = [rested EXCEPT ![claims[c].user][claims[c].kind] = 0],
         UNCHANGED <<known, adjusts>>
  PROVE  PInv' /\ \A d \in ClaimIds : R!Pays(d) => Lifts(d)
<1> DEFINE u == claims[c].user
           k == claims[c].kind
           r == R!Completed(c)
<1>1. claims \in [ClaimIds -> RowsOf(Int)] /\ fate \in [R!Accounts -> Int]
      /\ rested \in [Users -> [R!Kinds -> Nat]]
  BY DEF PInv, R!TypeOK, RowsOf, ClaimStates
<1>2. u \in Users /\ k \in R!Kinds /\ fate[u] < Threshold[k] /\ fate[u] >= 0 /\ fate[u] \in Int
  BY <1>1, MembersAreNoBanks DEF PInv, Priced, Solvent, R!StillEligible, R!Eligible
<1>3. /\ Threshold[k] \in Nat /\ GraceTarget \in Nat /\ TrialRewardMin \in Nat \ {0}
      /\ TrialRewardMax \in Nat /\ Threshold["grace"] < GraceTarget
      /\ RecoveryRest[k] \in Nat
  BY <1>2, FateAssumption DEF R!RecoveryAssumption
<1>4. /\ R!Reward(c) \in Int /\ R!Reward(c) > 0
      /\ fate[u] + R!Reward(c) <= R!Ceiling(k)
  <2>1. CASE k = "grace"
    BY <1>2, <1>3, <2>1 DEF R!Reward, R!Ceiling
  <2>2. CASE k = "trial"
    <3>1. claims[c].reward \in TrialRewardMin..TrialRewardMax
      BY <2>2 DEF PInv, Priced, R!TrialRewards
    <3> QED
      BY <1>2, <1>3, <2>2, <3>1 DEF R!Reward, R!Ceiling
  <2> QED
    BY <1>2, <2>1, <2>2 DEF R!Kinds
<1>5. r \in RowsOf(Int) /\ r.state = "completed"
  <2> HIDE DEF u
  <2> QED
    BY <1>1, <1>3, <1>4 DEF RowsOf, ClaimStates, R!Completed
<1>6. claims' \in [ClaimIds -> RowsOf(Int)] /\ claims'[c].state = "completed"
      /\ \A d \in ClaimIds : d # c => claims'[d] = claims[d]
  <2> HIDE DEF r
  <2> QED
    BY <1>1, <1>5 DEF r
<1>7. /\ fate' \in [R!Accounts -> Int] /\ fate'[u] = fate[u] + R!Reward(c)
      /\ \A v \in Users : v # u => fate'[v] = fate[v]
  BY <1>1, <1>2, <1>4, MembersAreNoBanks, TransferMoves
<1>8. rested' \in [Users -> [R!Kinds -> Nat]]
  BY <1>1, <1>2
<1>9. R!TypeOK'
  BY <1>6, <1>7, <1>8 DEF PInv, R!TypeOK, RowsOf, ClaimStates
<1>10. Priced'
  BY <1>6 DEF PInv, Priced
<1>11. Solvent'
  BY <1>2, <1>4, <1>7 DEF PInv, Solvent
<1>12. Lifts(c)
  BY <1>2, <1>4, <1>7 DEF Lifts
<1> QED
  BY <1>6, <1>9, <1>10, <1>11, <1>12 DEF PInv, R!Pays

LEMMA LedgerStepsKeepPrices ==
  ASSUME PInv, UNCHANGED <<claims, rested>>,
         \/ \E u \in Users : R!EnsureAccount(u)
         \/ \E x \in Adjustments, amount \in Amounts : R!Adjust(x, amount)
         \/ \E x \in Adjustments : R!Reverse(x)
  PROVE  PInv' /\ \A d \in ClaimIds : ~R!Pays(d)
<1>1. /\ fate \in [R!Accounts -> Int] /\ known \subseteq Users
      /\ adjusts \in [Adjustments -> [state : {"none", "applied", "reversed"},
                                      user : Users \cup {"none"}, amount : Int]]
  BY DEF PInv, R!TypeOK
<1>2. Amounts \subseteq Int /\ Opening \in Nat /\ Owner \in Users
  BY FateAssumption DEF R!RecoveryAssumption
<1>3. ASSUME NEW u \in Users, R!EnsureAccount(u)
      PROVE  R!TypeOK' /\ Solvent'
  <2>1. fate' \in [R!Accounts -> Int] /\ \A v \in Users : fate'[v] >= fate[v]
    BY <1>1, <1>2, <1>3, MembersAreNoBanks, TransferMoves DEF R!EnsureAccount
  <2> QED
    BY <1>1, <1>3, <2>1, MembersAreNoBanks DEF R!EnsureAccount, PInv, R!TypeOK, Solvent
<1>4. ASSUME NEW x \in Adjustments, NEW amount \in Amounts, R!Adjust(x, amount)
      PROVE  R!TypeOK' /\ Solvent'
  <2>1. /\ fate' \in [R!Accounts -> Int] /\ fate'[Owner] = fate[Owner] + amount
        /\ \A v \in Users : v # Owner => fate'[v] = fate[v]
    BY <1>1, <1>2, <1>4, MembersAreNoBanks, TransferMoves DEF R!Adjust
  <2>2. adjusts' \in [Adjustments -> [state : {"none", "applied", "reversed"},
                                      user : Users \cup {"none"}, amount : Int]]
    BY <1>1, <1>2, <1>4 DEF R!Adjust
  <2> QED
    BY <1>1, <1>4, <2>1, <2>2 DEF R!Adjust, PInv, R!TypeOK, Solvent
<1>5. ASSUME NEW x \in Adjustments, R!Reverse(x)
      PROVE  R!TypeOK' /\ Solvent'
  <2>0. adjusts[x].amount \in Int
    BY <1>1
  <2>1. /\ fate' \in [R!Accounts -> Int] /\ fate'[Owner] = fate[Owner] - adjusts[x].amount
        /\ \A v \in Users : v # Owner => fate'[v] = fate[v]
    BY <1>1, <1>2, <1>5, <2>0, MembersAreNoBanks, TransferMoves DEF R!Reverse
  <2>2. adjusts' \in [Adjustments -> [state : {"none", "applied", "reversed"},
                                      user : Users \cup {"none"}, amount : Int]]
    BY <1>1, <1>5 DEF R!Reverse
  <2>3. R!TypeOK'
    BY <1>5, <2>1, <2>2 DEF R!Reverse, PInv, R!TypeOK
  <2>4. fate'[Owner] >= 0
    BY <1>2, <1>5, <2>1 DEF R!Reverse, R!Reversible
  <2> QED
    BY <2>1, <2>3, <2>4 DEF PInv, Solvent
<1> QED
  BY <1>3, <1>4, <1>5 DEF PInv, Priced, R!Pays

LEMMA RecoveriesKeepPrices ==
  ASSUME PInv, [R!Next]_R!vars
  PROVE  PInv' /\ \A d \in ClaimIds : R!Pays(d) => Lifts(d)
<1>1. ASSUME NEW c \in ClaimIds, R!CompleteRecovery(c)
      PROVE  PInv' /\ \A d \in ClaimIds : R!Pays(d) => Lifts(d)
  <2>1. claims[c].state = "pending" /\ UNCHANGED <<known, adjusts>>
    BY <1>1 DEF R!CompleteRecovery
  <2>2. CASE \E s \in {"expired", "abandoned"} :
               claims' = [claims EXCEPT ![c].state = s] /\ UNCHANGED <<fate, rested>>
    BY <2>1, <2>2, EndKeepsPrices
  <2>3. CASE /\ R!StillEligible(c) /\ claims' = [claims EXCEPT ![c] = R!Completed(c)]
             /\ fate' = R!Transfer(fate, "MINT", claims[c].user, R!Reward(c))
             /\ rested' = [rested EXCEPT ![claims[c].user][claims[c].kind] = 0]
    BY <2>1, <2>3, RewardLifts
  <2> QED
    BY <1>1, <2>2, <2>3 DEF R!CompleteRecovery
<1>2. ASSUME NEW c \in ClaimIds, R!Abandon(c)
      PROVE  PInv' /\ \A d \in ClaimIds : R!Pays(d) => Lifts(d)
  BY <1>2, EndKeepsPrices DEF R!Abandon
<1>3. ASSUME NEW c \in ClaimIds, NEW u \in Users, NEW k \in R!Kinds,
             NEW reward \in R!TrialRewards, R!StartRecovery(c, u, k, reward)
      PROVE  PInv' /\ \A d \in ClaimIds : R!Pays(d) => Lifts(d)
  BY <1>3, StartKeepsPrices
<1>4. CASE \/ \E u \in Users : R!EnsureAccount(u)
           \/ \E x \in Adjustments, amount \in Amounts : R!Adjust(x, amount)
           \/ \E x \in Adjustments : R!Reverse(x)
  <2>1. UNCHANGED <<claims, rested>>
    BY <1>4 DEF R!EnsureAccount, R!Adjust, R!Reverse
  <2> QED
    BY <1>4, <2>1, LedgerStepsKeepPrices
<1>5. CASE R!Tick
  <2>1. /\ claims' \in [ClaimIds -> RowsOf(Int)]
        /\ \A c \in ClaimIds : /\ claims'[c].state = claims[c].state
                               /\ claims'[c].user = claims[c].user
                               /\ claims'[c].kind = claims[c].kind
                               /\ claims'[c].reward = claims[c].reward
    <3>1. claims \in [ClaimIds -> RowsOf(Int)]
      BY DEF PInv, R!TypeOK, RowsOf, ClaimStates
    <3>2. ASSUME NEW c \in ClaimIds
          PROVE  /\ claims'[c] \in RowsOf(Int)
                 /\ claims'[c].state = claims[c].state /\ claims'[c].user = claims[c].user
                 /\ claims'[c].kind = claims[c].kind /\ claims'[c].reward = claims[c].reward
      <4>1. claims'[c] = [claims[c] EXCEPT !.left = R!Down(claims[c].left),
                                           !.rest = R!Down(claims[c].rest)]
        BY <1>5 DEF R!Tick
      <4>2. claims[c] \in RowsOf(Int)
        BY <3>1
      <4>3. R!Down(claims[c].left) \in Nat /\ R!Down(claims[c].rest) \in Nat
        BY <4>2 DEF RowsOf, R!Down
      <4> QED
        BY <4>1, <4>2, <4>3 DEF RowsOf
    <3> QED
      BY <1>5, <3>2 DEF R!Tick
  <2>2. rested' \in [Users -> [R!Kinds -> Nat]]
    <3>1. rested \in [Users -> [R!Kinds -> Nat]]
      BY DEF PInv, R!TypeOK
    <3>2. \A u \in Users, k \in R!Kinds :
            (IF rested[u][k] < RecoveryRest[k] THEN rested[u][k] + 1 ELSE rested[u][k]) \in Nat
      BY <3>1
    <3> QED
      BY <1>5, <3>2 DEF R!Tick
  <2>3. UNCHANGED <<fate, known, adjusts>>
    BY <1>5 DEF R!Tick
  <2>4. R!TypeOK' /\ Priced' /\ Solvent'
    BY <2>1, <2>2, <2>3 DEF PInv, R!TypeOK, RowsOf, ClaimStates, Priced, Solvent
  <2> QED
    BY <2>1, <2>4 DEF PInv, R!Pays
<1>6. CASE UNCHANGED R!vars
  BY <1>6 DEF R!vars, R!recoveryVars, PInv, R!TypeOK, Priced, Solvent, R!Pays
<1> QED
  BY <1>1, <1>2, <1>3, <1>4, <1>5, <1>6 DEF R!Next, R!Steps

LEMMA PricesBegin ==
  ASSUME R!Init
  PROVE  PInv
<1>1. claims \in [ClaimIds -> RowsOf({0})] /\ \A c \in ClaimIds : claims[c].state = "none"
  BY DEF R!Init, R!NoClaims, R!NoClaim, RowsOf, ClaimStates
<1>2. adjusts \in [Adjustments -> [state : {"none", "applied", "reversed"},
                                   user : Users \cup {"none"}, amount : Int]]
  BY DEF R!Init, R!NoClaims, R!NoAdjust
<1>3. rested \in [Users -> [R!Kinds -> Nat]] /\ fate \in [R!Accounts -> Int]
      /\ known \subseteq Users
  BY FateAssumption DEF R!RecoveryAssumption, R!Init, R!NoClaims
<1>4. Solvent
  BY MembersAreNoBanks DEF R!Init, Solvent
<1> QED
  BY <1>1, <1>2, <1>3, <1>4 DEF PInv, R!TypeOK, Priced, RowsOf, ClaimStates

(* For every policy, on a ledger of their own: Grace and the Trial lift    *)
(* only a member who is poor when the reward is paid, never above what the *)
(* policy promises, and with the owner's adjustments and their reversals   *)
(* leave nobody in debt.                                                   *)
THEOREM OnlyThePoorAreLifted == R!Spec => [](R!TypeOK /\ Solvent) /\ LiftsOnlyThePoor
<1>1. R!Init => PInv
  BY PricesBegin
<1>2. ASSUME PInv, [R!Next]_R!vars
      PROVE  PInv' /\ \A c \in ClaimIds : R!Pays(c) =>
                        LET u == claims[c].user k == claims[c].kind IN
                        /\ fate[u] < Threshold[k]
                        /\ fate'[u] > fate[u] /\ fate'[u] <= R!Ceiling(k)
  BY <1>2, RecoveriesKeepPrices DEF Lifts
<1>3. PInv => R!TypeOK /\ Solvent
  BY DEF PInv
<1> QED
  BY <1>1, <1>2, <1>3, PTL DEF R!Spec, LiftsOnlyThePoor, R!LiftsOnlyThePoor

-----------------------------------------------------------------------------
(* Sums over finite tables.  A fold chooses its elements in an order that  *)
(* nothing else fixes; that it exists and computes a sum is shown by the   *)
(* least number of elements for which it would not.                        *)

(* The element a fold takes out of a set. *)
Pick(s) == CHOOSE y \in s : TRUE

(* What a fold computes, one element at a time. *)
Unfolds(g, S, base, H) ==
  \A s \in SUBSET S : g[s] = IF s = {} THEN base
                             ELSE H[<<Pick(s), g[s \ {Pick(s)}]>>]

(* Every set of numbers that is not empty has a least. *)
LEMMA Least ==
  ASSUME NEW N \in SUBSET Nat, N # {}
  PROVE  \E n \in N : \A k \in N : n <= k
<1> DEFINE Lt == OpToRel(<, Nat)
<1>1. IsWellFoundedOn(Lt, Nat)
  BY NatLessThanWellFounded
<1> HIDE DEF Lt
<1>2. PICK n \in N : \A k \in N : ~ (<<k, n>> \in Lt)
  BY <1>1, WFMin
<1>3. \A k \in N : ~ (k < n)
  BY <1>2 DEF OpToRel, Lt
<1> QED BY <1>3

LEMMA FiniteInduction ==
  ASSUME NEW S, IsFiniteSet(S), NEW Q, {} \in Q,
         \A T \in SUBSET S : T # {} /\ (\A x \in T : T \ {x} \in Q) => T \in Q
  PROVE  \A T \in SUBSET S : T \in Q
<1> DEFINE N == {n \in Nat : \E T \in SUBSET S : T \notin Q /\ Cardinality(T) = n}
<1>1. ASSUME N # {} PROVE FALSE
  <2>1. PICK n \in N : \A k \in N : n <= k
    BY <1>1, Least
  <2>2. PICK T \in SUBSET S : T \notin Q /\ Cardinality(T) = n
    BY <2>1
  <2>3. IsFiniteSet(T) /\ T # {}
    BY <2>2, FS_Subset
  <2>4. ASSUME NEW x \in T PROVE T \ {x} \in Q
    <3>1. IsFiniteSet(T \ {x}) /\ Cardinality(T \ {x}) = n - 1 /\ Cardinality(T \ {x}) \in Nat
      BY <2>2, <2>3, FS_RemoveElement, FS_CardinalityType
    <3>2. n - 1 \notin N
      BY <2>1
    <3> QED BY <3>1, <3>2
  <2> QED BY <2>2, <2>3, <2>4
<1>2. ASSUME NEW T \in SUBSET S PROVE Cardinality(T) \in Nat
  BY FS_Subset, FS_CardinalityType
<1> QED BY <1>1, <1>2

(* The function a fold computes exists. *)
LEMMA FoldExists ==
  ASSUME NEW S, IsFiniteSet(S), NEW V, NEW base \in V, NEW H \in [S \X V -> V]
  PROVE  \E g \in [SUBSET S -> V] : Unfolds(g, S, base, H)
<1> DEFINE Upto(n) == {s \in SUBSET S : Cardinality(s) <= n}
           Body(g, s) == IF s = {} THEN base ELSE H[<<Pick(s), g[s \ {Pick(s)}]>>]
           Good(n) == \E g \in [Upto(n) -> V] : \A s \in Upto(n) : g[s] = Body(g, s)
           N == {n \in Nat : ~Good(n)}
<1>0. ASSUME NEW T \in SUBSET S
      PROVE  /\ IsFiniteSet(T) /\ Cardinality(T) \in Nat /\ (Cardinality(T) = 0 <=> T = {})
             /\ T # {} => /\ Pick(T) \in T /\ Pick(T) \in S /\ T \ {Pick(T)} \in SUBSET S
                          /\ Cardinality(T \ {Pick(T)}) = Cardinality(T) - 1
  <2>1. IsFiniteSet(T) /\ Cardinality(T) \in Nat /\ (Cardinality(T) = 0 <=> T = {})
    BY FS_Subset, FS_CardinalityType, FS_EmptySet
  <2>2. T # {} => Pick(T) \in T
    BY DEF Pick
  <2> QED BY <2>1, <2>2, FS_RemoveElement
<1>1. Good(0)
  <2>1. ASSUME NEW s \in Upto(0) PROVE s = {}
    <3>1. s \in SUBSET S /\ Cardinality(s) <= 0
      OBVIOUS
    <3>2. Cardinality(s) \in Nat /\ (Cardinality(s) = 0 <=> s = {})
      BY <1>0, <3>1
    <3> QED BY <3>1, <3>2
  <2> DEFINE g == [s \in Upto(0) |-> base]
  <2> HIDE DEF Upto
  <2>2. g \in [Upto(0) -> V] /\ \A s \in Upto(0) : g[s] = base
    OBVIOUS
  <2> HIDE DEF g
  <2>3. \A s \in Upto(0) : g[s] = Body(g, s)
    BY <2>1, <2>2
  <2> HIDE DEF Body
  <2> QED BY <2>2, <2>3
<1>2. ASSUME NEW n \in Nat \ {0}, Good(n - 1)
      PROVE  Good(n)
  <2>1. PICK g \in [Upto(n - 1) -> V] : \A s \in Upto(n - 1) : g[s] = Body(g, s)
    BY <1>2
  <2> DEFINE h == [s \in Upto(n) |-> Body(g, s)]
  <2>2. ASSUME NEW s \in Upto(n), s # {}
        PROVE  s \ {Pick(s)} \in Upto(n - 1) /\ Pick(s) \in S
    BY <1>0, <2>2
  <2>3. ASSUME NEW s \in Upto(n) PROVE h[s] = Body(g, s) /\ Body(g, s) \in V
    <3>1. s # {} => <<Pick(s), g[s \ {Pick(s)}]>> \in S \X V
      BY <2>2
    <3> QED BY <3>1
  <2>4. h \in [Upto(n) -> V]
    BY <2>3
  <2>5. ASSUME NEW s \in Upto(n - 1) PROVE h[s] = g[s]
    <3>0. s \in SUBSET S /\ Cardinality(s) \in Nat /\ Cardinality(s) <= n - 1
      BY <1>0
    <3>1. s \in Upto(n)
      BY <3>0
    <3>2. h[s] = Body(g, s)
      BY <2>3, <3>1
    <3> QED BY <2>1, <3>2
  <2> HIDE DEF h
  <2>6. ASSUME NEW s \in Upto(n) PROVE h[s] = Body(h, s)
    <3>1. s # {} => h[s \ {Pick(s)}] = g[s \ {Pick(s)}]
      BY <2>2, <2>5
    <3>2. h[s] = Body(g, s)
      BY <2>3
    <3> HIDE DEF Upto
    <3> QED BY <3>1, <3>2
  <2> HIDE DEF Body, Upto
  <2> QED BY <2>4, <2>6
<1> HIDE DEF Good
<1>3. N = {}
  <2> SUFFICES ASSUME N # {} PROVE FALSE
    OBVIOUS
  <2>1. PICK n \in N : \A k \in N : n <= k
    BY Least
  <2>2. n # 0 /\ n - 1 \in Nat
    BY <1>1
  <2>3. n - 1 \notin N
    BY <2>1, <2>2
  <2> QED BY <1>2, <2>2, <2>3
<1>4. Cardinality(S) \in Nat /\ Upto(Cardinality(S)) = SUBSET S
  BY FS_CardinalityType, FS_Subset
<1>5. Good(Cardinality(S))
  BY <1>3, <1>4
<1>6. PICK g \in [Upto(Cardinality(S)) -> V] : \A s \in Upto(Cardinality(S)) : g[s] = Body(g, s)
  BY <1>5 DEF Good
<1> QED BY <1>4, <1>6 DEF Unfolds

(* g sums up F over the subsets of S. *)
Sums(g, F, S) ==
  /\ g \in [SUBSET S -> Int]
  /\ \A s \in SUBSET S : g[s] = IF s = {} THEN 0 ELSE F[Pick(s)] + g[s \ {Pick(s)}]

LEMMA SumExists ==
  ASSUME NEW S, IsFiniteSet(S), NEW F \in [S -> Int]
  PROVE  \E g : Sums(g, F, S)
<1> DEFINE H == [p \in S \X Int |-> F[p[1]] + p[2]]
<1>1. H \in [S \X Int -> Int]
  OBVIOUS
<1>2. \A x \in S, n \in Int : H[<<x, n>>] = F[x] + n
  OBVIOUS
<1> DEFINE V == Int  z == 0
<1>a. z \in V /\ H \in [S \X V -> V]
  BY <1>1
<1> HIDE DEF H, V, z
<1>b. \E g \in [SUBSET S -> V] : Unfolds(g, S, z, H)
  BY <1>a, FoldExists
<1>3. PICK g \in [SUBSET S -> Int] : Unfolds(g, S, 0, H)
  BY <1>b DEF V, z
<1>4. ASSUME NEW s \in SUBSET S, s # {}
      PROVE  Pick(s) \in S /\ g[s \ {Pick(s)}] \in Int
  BY <1>4 DEF Pick
<1>5. \A s \in SUBSET S : g[s] = IF s = {} THEN 0 ELSE F[Pick(s)] + g[s \ {Pick(s)}]
  BY <1>2, <1>3, <1>4 DEF Unfolds
<1>6. Sums(g, F, S)
  BY <1>3, <1>5 DEF Sums
<1> QED BY <1>6

LEMMA SumNothing ==
  ASSUME NEW S, NEW F, NEW g, Sums(g, F, S)
  PROVE  g[{}] = 0
<1>1. {} \in SUBSET S
  OBVIOUS
<1> QED BY <1>1 DEF Sums

(* One element set apart, whichever it is. *)
LEMMA SumRemove ==
  ASSUME NEW S, IsFiniteSet(S), NEW F \in [S -> Int], NEW g, Sums(g, F, S),
         NEW T \in SUBSET S, NEW x \in T
  PROVE  g[T] = F[x] + g[T \ {x}]
<1> DEFINE Q == {U \in SUBSET S : \A y \in U : g[U] = F[y] + g[U \ {y}]}
<1>1. ASSUME NEW U \in SUBSET S, U # {}, \A y \in U : U \ {y} \in Q
      PROVE  U \in Q
  <2>1. ASSUME NEW y \in U PROVE g[U] = F[y] + g[U \ {y}]
    <3> DEFINE p == Pick(U)
    <3>1. p \in U /\ g[U] = F[p] + g[U \ {p}]
      BY <1>1 DEF Pick, Sums
    <3> HIDE DEF p
    <3>2. CASE y = p
      BY <3>1, <3>2
    <3>3. CASE y # p
      <4>1. y \in U \ {p} /\ p \in U \ {y}
        BY <3>1, <3>3
      <4>2. U \ {p} \in Q /\ U \ {y} \in Q
        BY <1>1, <3>1
      <4> DEFINE W == (U \ {y}) \ {p}
      <4>3. (U \ {p}) \ {y} = W
        OBVIOUS
      <4>4. g[U \ {p}] = F[y] + g[W] /\ g[U \ {y}] = F[p] + g[W]
        BY <4>1, <4>2, <4>3
      <4>5. F[y] \in Int /\ F[p] \in Int /\ g[W] \in Int
        BY <3>1 DEF Sums
      <4> HIDE DEF W, Q
      <4>6. g[U] = F[p] + (F[y] + g[W])
        BY <3>1, <4>4
      <4>7. F[y] + g[U \ {y}] = F[y] + (F[p] + g[W])
        BY <4>4
      <4> QED BY <4>5, <4>6, <4>7
    <3> QED BY <3>2, <3>3
  <2> QED BY <2>1
<1>2. {} \in Q
  OBVIOUS
<1> HIDE DEF Q
<1>3. T \in Q
  BY <1>1, <1>2, FiniteInduction
<1> QED BY <1>3 DEF Q

(* Terms that agree on a set have one sum over it. *)
LEMMA SumAgrees ==
  ASSUME NEW S, IsFiniteSet(S), NEW F, NEW g, Sums(g, F, S),
         NEW D, NEW G, NEW h, Sums(h, G, D),
         NEW T \in SUBSET S, T \subseteq D, \A x \in T : F[x] = G[x]
  PROVE  g[T] = h[T]
<1> DEFINE Q == {U \in SUBSET S : U \subseteq T => g[U] = h[U]}
<1>1. ASSUME NEW U \in SUBSET S, U # {}, \A y \in U : U \ {y} \in Q
      PROVE  U \in Q
  <2> SUFFICES ASSUME U \subseteq T PROVE g[U] = h[U]
    OBVIOUS
  <2> DEFINE p == Pick(U)
  <2>1. p \in U /\ U \in SUBSET D
    BY <1>1 DEF Pick
  <2>2. g[U] = F[p] + g[U \ {p}] /\ h[U] = G[p] + h[U \ {p}]
    BY <1>1, <2>1 DEF Sums
  <2>3. U \ {p} \in Q /\ U \ {p} \subseteq T
    BY <1>1, <2>1
  <2> QED BY <2>1, <2>2, <2>3
<1>2. {} \in Q
  BY SumNothing
<1> HIDE DEF Q
<1>3. T \in Q
  BY <1>1, <1>2, FiniteInduction
<1> QED BY <1>3 DEF Q

LEMMA SumPlus ==
  ASSUME NEW S, IsFiniteSet(S), NEW F \in [S -> Int], NEW G \in [S -> Int],
         NEW H \in [S -> Int], \A x \in S : H[x] = F[x] + G[x],
         NEW f, Sums(f, F, S), NEW g, Sums(g, G, S), NEW h, Sums(h, H, S)
  PROVE  h[S] = f[S] + g[S]
<1> DEFINE Q == {U \in SUBSET S : h[U] = f[U] + g[U]}
<1>1. ASSUME NEW U \in SUBSET S, U # {}, \A y \in U : U \ {y} \in Q
      PROVE  U \in Q
  <2> DEFINE p == Pick(U)
  <2>1. p \in U /\ U \ {p} \in SUBSET S
    BY <1>1 DEF Pick
  <2>2. /\ f[U] = F[p] + f[U \ {p}] /\ g[U] = G[p] + g[U \ {p}] /\ h[U] = H[p] + h[U \ {p}]
        /\ f[U \ {p}] \in Int /\ g[U \ {p}] \in Int
    BY <1>1, <2>1 DEF Sums
  <2>3. U \ {p} \in Q
    BY <1>1, <2>1
  <2>4. p \in S /\ F[p] \in Int /\ G[p] \in Int /\ H[p] = F[p] + G[p]
    BY <2>1
  <2> HIDE DEF p
  <2>5. h[U \ {p}] = f[U \ {p}] + g[U \ {p}]
    BY <2>3
  <2> QED BY <2>2, <2>4, <2>5
<1>2. {} \in Q
  <2>1. f[{}] = 0 /\ g[{}] = 0 /\ h[{}] = 0
    BY SumNothing
  <2> QED BY <2>1
<1> HIDE DEF Q
<1>3. S \in Q
  BY <1>1, <1>2, FiniteInduction
<1> QED BY <1>3 DEF Q

LEMMA SumZero ==
  ASSUME NEW S, IsFiniteSet(S), NEW F \in [S -> Int], NEW g, Sums(g, F, S),
         NEW T \in SUBSET S, \A x \in T : F[x] = 0
  PROVE  g[T] = 0
<1> DEFINE Q == {U \in SUBSET S : U \subseteq T => g[U] = 0}
<1>1. ASSUME NEW U \in SUBSET S, U # {}, \A y \in U : U \ {y} \in Q
      PROVE  U \in Q
  <2> SUFFICES ASSUME U \subseteq T PROVE g[U] = 0
    OBVIOUS
  <2> DEFINE p == Pick(U)
  <2>1. p \in U
    BY <1>1 DEF Pick
  <2>2. g[U] = F[p] + g[U \ {p}] /\ F[p] = 0
    BY <1>1, <2>1 DEF Sums
  <2>3. U \ {p} \in Q /\ U \ {p} \subseteq T
    BY <1>1, <2>1
  <2> QED BY <2>2, <2>3
<1>2. {} \in Q
  BY SumNothing
<1> HIDE DEF Q
<1>3. T \in Q
  BY <1>1, <1>2, FiniteInduction
<1> QED BY <1>3 DEF Q

LEMMA SumMonotone ==
  ASSUME NEW S, IsFiniteSet(S), NEW F \in [S -> Int], NEW G \in [S -> Int],
         \A x \in S : F[x] <= G[x], NEW f, Sums(f, F, S), NEW g, Sums(g, G, S)
  PROVE  f[S] <= g[S]
<1> DEFINE Q == {U \in SUBSET S : f[U] <= g[U]}
<1>1. ASSUME NEW U \in SUBSET S, U # {}, \A y \in U : U \ {y} \in Q
      PROVE  U \in Q
  <2> DEFINE p == Pick(U)
  <2>1. p \in U /\ U \ {p} \in SUBSET S
    BY <1>1 DEF Pick
  <2>2. /\ f[U] = F[p] + f[U \ {p}] /\ g[U] = G[p] + g[U \ {p}]
        /\ f[U \ {p}] \in Int /\ g[U \ {p}] \in Int
    BY <1>1, <2>1 DEF Sums
  <2>3. U \ {p} \in Q
    BY <1>1, <2>1
  <2>4. p \in S /\ F[p] \in Int /\ G[p] \in Int /\ F[p] <= G[p]
    BY <2>1
  <2> HIDE DEF p
  <2>5. f[U \ {p}] <= g[U \ {p}]
    BY <2>3
  <2> QED BY <2>2, <2>4, <2>5
<1>2. {} \in Q
  <2>1. f[{}] = 0 /\ g[{}] = 0
    BY SumNothing
  <2> QED BY <2>1
<1> HIDE DEF Q
<1>3. S \in Q
  BY <1>1, <1>2, FiniteInduction
<1> QED BY <1>3 DEF Q

(* One term changed. *)
LEMMA SumChange ==
  ASSUME NEW S, IsFiniteSet(S), NEW F \in [S -> Int], NEW G \in [S -> Int],
         NEW x \in S, \A y \in S \ {x} : F[y] = G[y],
         NEW f, Sums(f, F, S), NEW g, Sums(g, G, S)
  PROVE  g[S] = f[S] - F[x] + G[x]
<1>1. S \in SUBSET S /\ S \ {x} \in SUBSET S
  OBVIOUS
<1>2. f[S] = F[x] + f[S \ {x}] /\ g[S] = G[x] + g[S \ {x}]
  BY <1>1, SumRemove
<1>3. f[S \ {x}] = g[S \ {x}]
  BY <1>1, SumAgrees
<1>4. f[S \ {x}] \in Int /\ F[x] \in Int /\ G[x] \in Int
  BY <1>1 DEF Sums
<1> QED BY <1>2, <1>3, <1>4

(* The sum of all values of a function with a finite domain. *)
Total(F) == (CHOOSE g : Sums(g, F, DOMAIN F))[DOMAIN F]

LEMMA TotalIs ==
  ASSUME NEW S, IsFiniteSet(S), NEW F \in [S -> Int], NEW g, Sums(g, F, S)
  PROVE  Total(F) = g[S] /\ Total(F) \in Int
<1> DEFINE h == CHOOSE x : Sums(x, F, S)
<1>1. Sums(h, F, S)
  OBVIOUS
<1>2. Total(F) = h[S]
  BY DEF Total
<1> HIDE DEF h
<1>3. S \in SUBSET S /\ \A x \in S : F[x] = F[x]
  OBVIOUS
<1>4. h[S] = g[S]
  BY <1>1, <1>3, SumAgrees
<1>5. g[S] \in Int
  BY <1>3 DEF Sums
<1> QED BY <1>2, <1>4, <1>5

LEMMA TotalInt ==
  ASSUME NEW S, IsFiniteSet(S), NEW F \in [S -> Int]
  PROVE  Total(F) \in Int
<1>1. PICK g : Sums(g, F, S)
  BY SumExists
<1> QED BY <1>1, TotalIs

LEMMA TotalZero ==
  ASSUME NEW S, IsFiniteSet(S), NEW F \in [S -> Int], \A x \in S : F[x] = 0
  PROVE  Total(F) = 0
<1>1. PICK g : Sums(g, F, S)
  BY SumExists
<1>2. S \in SUBSET S
  OBVIOUS
<1>3. g[S] = 0
  BY <1>1, <1>2, SumZero
<1> QED BY <1>1, <1>3, TotalIs

LEMMA TotalPlus ==
  ASSUME NEW S, IsFiniteSet(S), NEW F \in [S -> Int], NEW G \in [S -> Int],
         NEW H \in [S -> Int], \A x \in S : H[x] = F[x] + G[x]
  PROVE  Total(H) = Total(F) + Total(G)
<1>1. PICK f : Sums(f, F, S)
  BY SumExists
<1>2. PICK g : Sums(g, G, S)
  BY SumExists
<1>3. PICK h : Sums(h, H, S)
  BY SumExists
<1>4. h[S] = f[S] + g[S]
  BY <1>1, <1>2, <1>3, SumPlus
<1>5. Total(F) = f[S] /\ Total(G) = g[S] /\ Total(H) = h[S]
  BY <1>1, <1>2, <1>3, TotalIs
<1> QED BY <1>4, <1>5

LEMMA TotalChange ==
  ASSUME NEW S, IsFiniteSet(S), NEW F \in [S -> Int], NEW G \in [S -> Int],
         NEW x \in S, \A y \in S \ {x} : F[y] = G[y]
  PROVE  Total(G) = Total(F) - F[x] + G[x]
<1>1. PICK f : Sums(f, F, S)
  BY SumExists
<1>2. PICK g : Sums(g, G, S)
  BY SumExists
<1>3. g[S] = f[S] - F[x] + G[x]
  BY <1>1, <1>2, SumChange
<1>4. Total(F) = f[S] /\ Total(G) = g[S]
  BY <1>1, <1>2, TotalIs
<1> QED BY <1>3, <1>4

LEMMA TotalGrows ==
  ASSUME NEW S, IsFiniteSet(S), NEW F \in [S -> Int], NEW G \in [S -> Int],
         \A x \in S : F[x] <= G[x]
  PROVE  Total(F) <= Total(G)
<1>1. PICK f : Sums(f, F, S)
  BY SumExists
<1>2. PICK g : Sums(g, G, S)
  BY SumExists
<1>3. f[S] <= g[S]
  BY <1>1, <1>2, SumMonotone
<1>4. Total(F) = f[S] /\ Total(G) = g[S]
  BY <1>1, <1>2, TotalIs
<1> QED BY <1>3, <1>4

(* What is zero need not be summed up. *)
LEMMA TotalOver ==
  ASSUME NEW S, IsFiniteSet(S), NEW F \in [S -> Int], NEW T \in SUBSET S,
         NEW G \in [T -> Int], \A x \in T : F[x] = G[x], \A x \in S \ T : F[x] = 0
  PROVE  Total(F) = Total(G)
<1>1. PICK f : Sums(f, F, S)
  BY SumExists
<1>2. IsFiniteSet(T)
  BY FS_Subset
<1>3. PICK g : Sums(g, G, T)
  BY <1>2, SumExists
<1> DEFINE Q == {U \in SUBSET S : f[U] = f[U \cap T]}
<1>4. ASSUME NEW U \in SUBSET S, U # {}, \A y \in U : U \ {y} \in Q
      PROVE  U \in Q
  <2>1. CASE U \subseteq T
    <3>1. U \cap T = U
      BY <2>1
    <3> QED BY <3>1
  <2>2. CASE ~(U \subseteq T)
    <3>1. PICK y \in U : y \notin T
      BY <2>2
    <3>2. f[U] = F[y] + f[U \ {y}]
      <4> HIDE DEF Q
      <4> QED BY <1>1, <3>1, SumRemove
    <3>3. F[y] = 0 /\ U \ {y} \in SUBSET S
      BY <3>1
    <3>4. f[U \ {y}] \in Int
      BY <1>1, <3>3 DEF Sums
    <3>5. f[U \ {y}] = f[(U \ {y}) \cap T]
      BY <1>4
    <3>6. (U \ {y}) \cap T = U \cap T
      BY <3>1
    <3> QED BY <3>2, <3>3, <3>4, <3>5, <3>6
  <2> QED BY <2>1, <2>2
<1>5. {} \in Q
  BY SumNothing
<1> HIDE DEF Q
<1>6. S \in Q
  BY <1>4, <1>5, FiniteInduction
<1>7. f[S] = f[T]
  <2>1. S \cap T = T
    OBVIOUS
  <2> QED BY <1>6, <2>1 DEF Q
<1>8. f[T] = g[T]
  BY <1>1, <1>3, SumAgrees
<1>9. Total(F) = f[S] /\ Total(G) = g[T]
  BY <1>1, <1>2, <1>3, TotalIs
<1> QED BY <1>7, <1>8, <1>9

(* What a fold of the library computes that adds up F. *)
LEMMA FoldIsTotal ==
  ASSUME NEW S, IsFiniteSet(S), NEW F \in [S -> Int], NEW it,
         it = [s \in SUBSET S |-> IF s = {} THEN 0 ELSE F[Pick(s)] + it[s \ {Pick(s)}]]
  PROVE  it[S] = Total(F)
<1>1. ASSUME NEW s \in SUBSET S
      PROVE  it[s] = IF s = {} THEN 0 ELSE F[Pick(s)] + it[s \ {Pick(s)}]
  OBVIOUS
<1>2. DOMAIN it = SUBSET S /\ it = [s \in SUBSET S |-> it[s]]
  OBVIOUS
<1> DEFINE Q == {s \in SUBSET S : it[s] \in Int}
<1>3. ASSUME NEW T \in SUBSET S, T # {}, \A y \in T : T \ {y} \in Q
      PROVE  T \in Q
  <2> DEFINE p == Pick(T)
  <2>1. p \in T /\ p \in S
    BY <1>3 DEF Pick
  <2>2. it[T] = F[p] + it[T \ {p}]
    BY <1>1, <1>3
  <2> HIDE DEF p
  <2>3. F[p] \in Int /\ it[T \ {p}] \in Int
    BY <1>3, <2>1
  <2> QED BY <2>2, <2>3
<1>4. {} \in Q
  BY <1>1
<1> HIDE DEF Q
<1>5. \A s \in SUBSET S : s \in Q
  BY <1>3, <1>4, FiniteInduction
<1>6. it \in [SUBSET S -> Int]
  BY <1>2, <1>5 DEF Q
<1>7. Sums(it, F, S)
  BY <1>1, <1>6 DEF Sums
<1> QED BY <1>7, TotalIs

(* Four different accounts hold everything. *)
LEMMA TotalOfFour ==
  ASSUME NEW S, IsFiniteSet(S), NEW F \in [S -> Int],
         NEW w \in S, NEW x \in S, NEW y \in S, NEW z \in S,
         w # x, w # y, w # z, x # y, x # z, y # z,
         \A a \in S \ {w, x, y, z} : F[a] = 0
  PROVE  Total(F) = F[w] + F[x] + F[y] + F[z]
<1>1. PICK f : Sums(f, F, S)
  BY SumExists
<1> DEFINE A == S \ {w}  B == A \ {x}  C == B \ {y}  D == C \ {z}
<1>2. /\ S \in SUBSET S /\ A \in SUBSET S /\ B \in SUBSET S /\ C \in SUBSET S
      /\ D \in SUBSET S /\ x \in A /\ y \in B /\ z \in C
  OBVIOUS
<1>3. \A a \in D : F[a] = 0
  OBVIOUS
<1>4. f[S] = F[w] + f[A]
  BY <1>1, <1>2, SumRemove
<1>5. f[A] = F[x] + f[B]
  BY <1>1, <1>2, SumRemove
<1>6. f[B] = F[y] + f[C]
  BY <1>1, <1>2, SumRemove
<1>7. f[C] = F[z] + f[D]
  BY <1>1, <1>2, SumRemove
<1>8. f[D] = 0
  BY <1>1, <1>2, <1>3, SumZero
<1> HIDE DEF A, B, C, D
<1>9. Total(F) = f[S] /\ F[w] \in Int /\ F[x] \in Int /\ F[y] \in Int /\ F[z] \in Int
  BY <1>1, TotalIs
<1> QED BY <1>4, <1>5, <1>6, <1>7, <1>8, <1>9

-----------------------------------------------------------------------------
(* The sums of the specification, as functions of its tables               *)

(* The sums of OneLedger, written as the definitions of Fate unfold to. *)
Whole == FoldSet(LAMBDA a, sum : fate[a] + sum, 0, Accounts)
Won(u) == {c \in ClaimIds : claims[c].user = u /\ claims[c].state = "completed"}
Applied(u) == {x \in Adjustments : adjusts[x].user = u /\ adjusts[x].state = "applied"}

(* What a wager's record says that it has moved. *)
BetMoves(b) ==
  IF b.state = "open" THEN FundEffect(b)
  ELSE IF b.state = "settled" /\ ~b.cleaned THEN Plus(FundEffect(b), PayEffect(b, b.result))
  ELSE Effect(<<>>)

LEMMA AccountsAreFinite == IsFiniteSet(Accounts)
<1> DEFINE A == Users \cup {"MINT"}
           B == A \cup {"BURN"}
           C == B \cup {"HOUSE"}
           D == C \cup {"ESCROW"}
<1>1. IsFiniteSet(A)
  BY FS_AddElement, HouseAssumption DEF HouseAssumption
<1>2. IsFiniteSet(B)
  BY <1>1, FS_AddElement
<1>3. IsFiniteSet(C)
  BY <1>2, FS_AddElement
<1>4. IsFiniteSet(D)
  BY <1>3, FS_AddElement
<1>5. Accounts = D
  BY DEF Accounts
<1> QED BY <1>4, <1>5

LEMMA RecordsAreFinite == IsFiniteSet(ClaimIds) /\ IsFiniteSet(Adjustments)
  BY FateAssumption DEF R!RecoveryAssumption, R!IsFiniteSet, IsFiniteSet

(* What the records of the House say of an account, summed up.             *)
Nets == (\A w \in Bets : BetMoves(bets[w]) \in [Accounts -> Int]) =>
          \A a \in Accounts : HouseNet(a) = Total([w \in Bets |-> BetMoves(bets[w])[a]])

LEMMA NetsKnown == Nets
<1> SUFFICES ASSUME NEW a \in Accounts, \A w \in Bets : BetMoves(bets[w]) \in [Accounts -> Int]
             PROVE  HouseNet(a) = Total([w \in Bets |-> BetMoves(bets[w])[a]])
  BY DEF Nets
<1> DEFINE S == Bets
           F == [w \in S |-> BetMoves(bets[w])[a]]
           P(g) == g = [s \in SUBSET S |-> IF s = {} THEN 0
                        ELSE Moved((CHOOSE y \in s : TRUE))[a] + g[s \ {CHOOSE y \in s : TRUE}]]
           it == CHOOSE h : P(h)
<1>0. F \in [S -> Int] /\ \A w \in S : F[w] = Moved(w)[a]
  BY DEF Moved, BetMoves
<1>1. IsFiniteSet(S)
  BY HouseAssumption DEF HouseAssumption
<1>2. HouseNet(a) = it[S]
  BY DEF HouseNet, MapThenSumSet, MapThenFoldSet
<1> HIDE DEF F, S
<1>3. PICK g : Sums(g, F, S)
  BY <1>0, <1>1, SumExists
<1>4. \A s \in SUBSET S : s # {} => F[Pick(s)] = Moved((CHOOSE y \in s : TRUE))[a]
  BY <1>0 DEF Pick
<1>5. P(g)
  <2>1. g = [s \in SUBSET S |-> g[s]]
    BY <1>3 DEF Sums
  <2>2. \A s \in SUBSET S : g[s] = IF s = {} THEN 0
          ELSE Moved((CHOOSE y \in s : TRUE))[a] + g[s \ {CHOOSE y \in s : TRUE}]
    BY <1>3, <1>4 DEF Sums, Pick
  <2> QED BY <2>1, <2>2
<1>6. P(it)
  BY <1>5
<1> HIDE DEF it
<1>7. it = [s \in SUBSET S |-> IF s = {} THEN 0 ELSE F[Pick(s)] + it[s \ {Pick(s)}]]
  <2>1. it = [s \in SUBSET S |-> it[s]]
    BY <1>6
  <2>2. \A s \in SUBSET S : it[s] = IF s = {} THEN 0 ELSE F[Pick(s)] + it[s \ {Pick(s)}]
    BY <1>4, <1>6 DEF Pick
  <2> QED BY <2>1, <2>2
<1>8. it[S] = Total(F)
  BY <1>0, <1>1, <1>7, FoldIsTotal
<1> QED BY <1>2, <1>8 DEF F, S

(* The whole ledger.                                                       *)
Ledgers == fate \in [Accounts -> Int] => Whole = Total([a \in Accounts |-> fate[a]])

LEMMA LedgersKnown == Ledgers
<1> SUFFICES ASSUME fate \in [Accounts -> Int]
             PROVE  Whole = Total([a \in Accounts |-> fate[a]])
  BY DEF Ledgers
<1> DEFINE S == Accounts
           F == [a \in S |-> fate[a]]
           P(g) == g = [s \in SUBSET S |-> IF s = {} THEN 0
                        ELSE fate[(CHOOSE y \in s : TRUE)] + g[s \ {CHOOSE y \in s : TRUE}]]
           it == CHOOSE h : P(h)
<1>0. F \in [S -> Int] /\ \A a \in S : F[a] = fate[a]
  OBVIOUS
<1>1. IsFiniteSet(S)
  BY AccountsAreFinite
<1>2. Whole = it[S]
  BY DEF Whole, FoldSet, MapThenFoldSet
<1> HIDE DEF F, S
<1>3. PICK g : Sums(g, F, S)
  BY <1>0, <1>1, SumExists
<1>4. \A s \in SUBSET S : s # {} => F[Pick(s)] = fate[(CHOOSE y \in s : TRUE)]
  BY <1>0 DEF Pick
<1>5. P(g)
  <2>1. g = [s \in SUBSET S |-> g[s]]
    BY <1>3 DEF Sums
  <2>2. \A s \in SUBSET S : g[s] = IF s = {} THEN 0
          ELSE fate[(CHOOSE y \in s : TRUE)] + g[s \ {CHOOSE y \in s : TRUE}]
    BY <1>3, <1>4 DEF Sums, Pick
  <2> QED BY <2>1, <2>2
<1>6. P(it)
  BY <1>5
<1> HIDE DEF it
<1>7. it = [s \in SUBSET S |-> IF s = {} THEN 0 ELSE F[Pick(s)] + it[s \ {Pick(s)}]]
  <2>1. it = [s \in SUBSET S |-> it[s]]
    BY <1>6
  <2>2. \A s \in SUBSET S : it[s] = IF s = {} THEN 0 ELSE F[Pick(s)] + it[s \ {Pick(s)}]
    BY <1>4, <1>6 DEF Pick
  <2> QED BY <2>1, <2>2
<1>8. it[S] = Total(F)
  BY <1>0, <1>1, <1>7, FoldIsTotal
<1> QED BY <1>2, <1>8 DEF F, S

(* The completed claims of a member.                                       *)
Gains == (\A c \in ClaimIds : claims[c].reward \in Int) =>
  \A u : R!Recovered(u) = Total([c \in Won(u) |-> claims[c].reward])

LEMMA GainsKnown == Gains
<1> SUFFICES ASSUME NEW u, \A c \in ClaimIds : claims[c].reward \in Int
             PROVE  R!Recovered(u) = Total([c \in Won(u) |-> claims[c].reward])
  BY DEF Gains
<1> DEFINE S == Won(u)
           F == [c \in S |-> claims[c].reward]
           P(g) == g = [s \in SUBSET S |-> IF s = {} THEN 0
                        ELSE claims[(CHOOSE y \in s : TRUE)].reward + g[s \ {CHOOSE y \in s : TRUE}]]
           it == CHOOSE h : P(h)
<1>0. F \in [S -> Int] /\ \A c \in S : F[c] = claims[c].reward
  BY DEF Won
<1>1. IsFiniteSet(S)
  BY FS_Subset, RecordsAreFinite DEF Won
<1>2. R!Recovered(u) = it[S]
  BY DEF R!Recovered, R!MapThenSumSet, R!MapThenFoldSet, Won
<1> HIDE DEF F, S
<1>3. PICK g : Sums(g, F, S)
  BY <1>0, <1>1, SumExists
<1>4. \A s \in SUBSET S : s # {} => F[Pick(s)] = claims[(CHOOSE y \in s : TRUE)].reward
  BY <1>0 DEF Pick
<1>5. P(g)
  <2>1. g = [s \in SUBSET S |-> g[s]]
    BY <1>3 DEF Sums
  <2>2. \A s \in SUBSET S : g[s] = IF s = {} THEN 0
          ELSE claims[(CHOOSE y \in s : TRUE)].reward + g[s \ {CHOOSE y \in s : TRUE}]
    BY <1>3, <1>4 DEF Sums, Pick
  <2> QED BY <2>1, <2>2
<1>6. P(it)
  BY <1>5
<1> HIDE DEF it
<1>7. it = [s \in SUBSET S |-> IF s = {} THEN 0 ELSE F[Pick(s)] + it[s \ {Pick(s)}]]
  <2>1. it = [s \in SUBSET S |-> it[s]]
    BY <1>6
  <2>2. \A s \in SUBSET S : it[s] = IF s = {} THEN 0 ELSE F[Pick(s)] + it[s \ {Pick(s)}]
    BY <1>4, <1>6 DEF Pick
  <2> QED BY <2>1, <2>2
<1>8. it[S] = Total(F)
  BY <1>0, <1>1, <1>7, FoldIsTotal
<1> QED BY <1>2, <1>8 DEF F, S

(* The adjustments of a member that stand.                                  *)
Changes == (\A x \in Adjustments : adjusts[x].amount \in Int) =>
  \A u : R!Adjusted(u) = Total([x \in Applied(u) |-> adjusts[x].amount])

LEMMA ChangesKnown == Changes
<1> SUFFICES ASSUME NEW u, \A x \in Adjustments : adjusts[x].amount \in Int
             PROVE  R!Adjusted(u) = Total([x \in Applied(u) |-> adjusts[x].amount])
  BY DEF Changes
<1> DEFINE S == Applied(u)
           F == [x \in S |-> adjusts[x].amount]
           P(g) == g = [s \in SUBSET S |-> IF s = {} THEN 0
                        ELSE adjusts[(CHOOSE y \in s : TRUE)].amount + g[s \ {CHOOSE y \in s : TRUE}]]
           it == CHOOSE h : P(h)
<1>0. F \in [S -> Int] /\ \A x \in S : F[x] = adjusts[x].amount
  BY DEF Applied
<1>1. IsFiniteSet(S)
  BY FS_Subset, RecordsAreFinite DEF Applied
<1>2. R!Adjusted(u) = it[S]
  BY DEF R!Adjusted, R!MapThenSumSet, R!MapThenFoldSet, Applied
<1> HIDE DEF F, S
<1>3. PICK g : Sums(g, F, S)
  BY <1>0, <1>1, SumExists
<1>4. \A s \in SUBSET S : s # {} => F[Pick(s)] = adjusts[(CHOOSE y \in s : TRUE)].amount
  BY <1>0 DEF Pick
<1>5. P(g)
  <2>1. g = [s \in SUBSET S |-> g[s]]
    BY <1>3 DEF Sums
  <2>2. \A s \in SUBSET S : g[s] = IF s = {} THEN 0
          ELSE adjusts[(CHOOSE y \in s : TRUE)].amount + g[s \ {CHOOSE y \in s : TRUE}]
    BY <1>3, <1>4 DEF Sums, Pick
  <2> QED BY <2>1, <2>2
<1>6. P(it)
  BY <1>5
<1> HIDE DEF it
<1>7. it = [s \in SUBSET S |-> IF s = {} THEN 0 ELSE F[Pick(s)] + it[s \ {Pick(s)}]]
  <2>1. it = [s \in SUBSET S |-> it[s]]
    BY <1>6
  <2>2. \A s \in SUBSET S : it[s] = IF s = {} THEN 0 ELSE F[Pick(s)] + it[s \ {Pick(s)}]
    BY <1>4, <1>6 DEF Pick
  <2> QED BY <2>1, <2>2
<1>8. it[S] = Total(F)
  BY <1>0, <1>1, <1>7, FoldIsTotal
<1> QED BY <1>2, <1>8 DEF F, S

(* The rows that Exposure adds up. *)
AtRisk(test) == {w \in Bets : /\ IsOpen(w) /\ Tested(bets[w].user) = test
                              /\ bets[w].template \notin Recovers}
SetAside(test) == {o \in Offers : offer[o].state = "open" /\ offer[o].test = test}
BetRisk(test)   == MapThenSumSet(LAMBDA w : ProfitOf(bets[w]), AtRisk(test))
OfferRisk(test) == MapThenSumSet(LAMBDA o : offer[o].reserved, SetAside(test))

(* What the House risks in open wagers.                                    *)
BetRisks == (\A w \in Bets : bets[w].state = "open" => ProfitOf(bets[w]) \in Int) =>
  \A test : BetRisk(test) = Total([w \in AtRisk(test) |-> ProfitOf(bets[w])])

LEMMA BetRisksKnown == BetRisks
<1> SUFFICES ASSUME NEW test, \A w \in Bets : bets[w].state = "open" => ProfitOf(bets[w]) \in Int
             PROVE  BetRisk(test) = Total([w \in AtRisk(test) |-> ProfitOf(bets[w])])
  BY DEF BetRisks
<1> DEFINE S == AtRisk(test)
           F == [w \in S |-> ProfitOf(bets[w])]
           P(g) == g = [s \in SUBSET S |-> IF s = {} THEN 0
                        ELSE ProfitOf(bets[(CHOOSE y \in s : TRUE)]) + g[s \ {CHOOSE y \in s : TRUE}]]
           it == CHOOSE h : P(h)
<1>0. F \in [S -> Int] /\ \A w \in S : F[w] = ProfitOf(bets[w])
  BY DEF AtRisk, IsOpen
<1>1. IsFiniteSet(S)
  BY FS_Subset, HouseAssumption DEF HouseAssumption, AtRisk
<1>2. BetRisk(test) = it[S]
  BY DEF BetRisk, MapThenSumSet, MapThenFoldSet, AtRisk
<1> HIDE DEF F, S
<1>3. PICK g : Sums(g, F, S)
  BY <1>0, <1>1, SumExists
<1>4. \A s \in SUBSET S : s # {} => F[Pick(s)] = ProfitOf(bets[(CHOOSE y \in s : TRUE)])
  BY <1>0 DEF Pick
<1>5. P(g)
  <2>1. g = [s \in SUBSET S |-> g[s]]
    BY <1>3 DEF Sums
  <2>2. \A s \in SUBSET S : g[s] = IF s = {} THEN 0
          ELSE ProfitOf(bets[(CHOOSE y \in s : TRUE)]) + g[s \ {CHOOSE y \in s : TRUE}]
    BY <1>3, <1>4 DEF Sums, Pick
  <2> QED BY <2>1, <2>2
<1>6. P(it)
  BY <1>5
<1> HIDE DEF it
<1>7. it = [s \in SUBSET S |-> IF s = {} THEN 0 ELSE F[Pick(s)] + it[s \ {Pick(s)}]]
  <2>1. it = [s \in SUBSET S |-> it[s]]
    BY <1>6
  <2>2. \A s \in SUBSET S : it[s] = IF s = {} THEN 0 ELSE F[Pick(s)] + it[s \ {Pick(s)}]
    BY <1>4, <1>6 DEF Pick
  <2> QED BY <2>1, <2>2
<1>8. it[S] = Total(F)
  BY <1>0, <1>1, <1>7, FoldIsTotal
<1> QED BY <1>2, <1>8 DEF F, S

(* What it has set aside for open offers.                                   *)
OfferRisks == (\A o \in Offers : offer[o].reserved \in Int) =>
  \A test : OfferRisk(test) = Total([o \in SetAside(test) |-> offer[o].reserved])

LEMMA OfferRisksKnown == OfferRisks
<1> SUFFICES ASSUME NEW test, \A o \in Offers : offer[o].reserved \in Int
             PROVE  OfferRisk(test) = Total([o \in SetAside(test) |-> offer[o].reserved])
  BY DEF OfferRisks
<1> DEFINE S == SetAside(test)
           F == [o \in S |-> offer[o].reserved]
           P(g) == g = [s \in SUBSET S |-> IF s = {} THEN 0
                        ELSE offer[(CHOOSE y \in s : TRUE)].reserved + g[s \ {CHOOSE y \in s : TRUE}]]
           it == CHOOSE h : P(h)
<1>0. F \in [S -> Int] /\ \A o \in S : F[o] = offer[o].reserved
  BY DEF SetAside
<1>1. IsFiniteSet(S)
  BY FS_Subset, HouseAssumption DEF HouseAssumption, SetAside
<1>2. OfferRisk(test) = it[S]
  BY DEF OfferRisk, MapThenSumSet, MapThenFoldSet, SetAside
<1> HIDE DEF F, S
<1>3. PICK g : Sums(g, F, S)
  BY <1>0, <1>1, SumExists
<1>4. \A s \in SUBSET S : s # {} => F[Pick(s)] = offer[(CHOOSE y \in s : TRUE)].reserved
  BY <1>0 DEF Pick
<1>5. P(g)
  <2>1. g = [s \in SUBSET S |-> g[s]]
    BY <1>3 DEF Sums
  <2>2. \A s \in SUBSET S : g[s] = IF s = {} THEN 0
          ELSE offer[(CHOOSE y \in s : TRUE)].reserved + g[s \ {CHOOSE y \in s : TRUE}]
    BY <1>3, <1>4 DEF Sums, Pick
  <2> QED BY <2>1, <2>2
<1>6. P(it)
  BY <1>5
<1> HIDE DEF it
<1>7. it = [s \in SUBSET S |-> IF s = {} THEN 0 ELSE F[Pick(s)] + it[s \ {Pick(s)}]]
  <2>1. it = [s \in SUBSET S |-> it[s]]
    BY <1>6
  <2>2. \A s \in SUBSET S : it[s] = IF s = {} THEN 0 ELSE F[Pick(s)] + it[s \ {Pick(s)}]
    BY <1>4, <1>6 DEF Pick
  <2> QED BY <2>1, <2>2
<1>8. it[S] = Total(F)
  BY <1>0, <1>1, <1>7, FoldIsTotal
<1> QED BY <1>2, <1>8 DEF F, S

LEMMA TablesAreFinite == IsFiniteSet(Users) /\ IsFiniteSet(Bets) /\ IsFiniteSet(Offers)
  BY HouseAssumption DEF HouseAssumption

-----------------------------------------------------------------------------
(* The sums as functions of the tables                                     *)

(* What wagers, claims and adjustments have moved, and what is at risk. *)
Net(B, a)   == Total([w \in Bets |-> BetMoves(B[w])[a]])
Gain(C, u)  == Total([c \in ClaimIds |-> IF C[c].user = u /\ C[c].state = "completed"
                                         THEN C[c].reward ELSE 0])
Change(X, u) == Total([x \in Adjustments |-> IF X[x].user = u /\ X[x].state = "applied"
                                             THEN X[x].amount ELSE 0])
Counts(b, test) == b.state = "open" /\ Tested(b.user) = test /\ b.template \notin Recovers
Risk(B, test)  == Total([w \in Bets |-> IF Counts(B[w], test) THEN ProfitOf(B[w]) ELSE 0])
Aside(O, test) == Total([o \in Offers |-> IF O[o].state = "open" /\ O[o].test = test
                                          THEN O[o].reserved ELSE 0])

AmountsTyped ==
  /\ fate \in [Accounts -> Int]
  /\ \A w \in Bets : BetMoves(bets[w]) \in [Accounts -> Int]
  /\ \A w \in Bets : bets[w].state = "open" => ProfitOf(bets[w]) \in Int
  /\ \A o \in Offers : offer[o].reserved \in Int
  /\ \A c \in ClaimIds : claims[c].reward \in Int
  /\ \A x \in Adjustments : adjusts[x].amount \in Int

Counted ==
  AmountsTyped =>
    /\ \A a \in Accounts : HouseNet(a) = Net(bets, a)
    /\ Whole = Total(fate)
    /\ \A u : R!Recovered(u) = Gain(claims, u) /\ R!Adjusted(u) = Change(adjusts, u)
    /\ \A test : Exposure(test) = Risk(bets, test) + Aside(offer, test)

(* The sums of the specification are these totals. *)
LEMMA CountedKnown == Counted
<1> SUFFICES ASSUME AmountsTyped
             PROVE  /\ \A a \in Accounts : HouseNet(a) = Net(bets, a)
                    /\ Whole = Total(fate)
                    /\ \A u : R!Recovered(u) = Gain(claims, u) /\ R!Adjusted(u) = Change(adjusts, u)
                    /\ \A test : Exposure(test) = Risk(bets, test) + Aside(offer, test)
  BY DEF Counted
<1>1. \A a \in Accounts : HouseNet(a) = Net(bets, a)
  BY NetsKnown DEF Nets, Net, AmountsTyped
<1>2. Whole = Total(fate)
  <2>1. fate = [a \in Accounts |-> fate[a]]
    BY DEF AmountsTyped
  <2> QED BY <2>1, LedgersKnown DEF Ledgers, AmountsTyped
<1>3. ASSUME NEW u PROVE R!Recovered(u) = Gain(claims, u)
  <2> DEFINE F == [c \in ClaimIds |-> IF claims[c].user = u /\ claims[c].state = "completed"
                                      THEN claims[c].reward ELSE 0]
             G == [c \in Won(u) |-> claims[c].reward]
  <2>1. F \in [ClaimIds -> Int] /\ G \in [Won(u) -> Int] /\ Won(u) \in SUBSET ClaimIds
    BY DEF AmountsTyped, Won
  <2>2. /\ \A x \in Won(u) : F[x] = G[x]
        /\ \A x \in ClaimIds \ Won(u) : F[x] = 0
    BY DEF Won
  <2>3. R!Recovered(u) = Total(G)
    BY GainsKnown DEF Gains, AmountsTyped
  <2> HIDE DEF F, G
  <2>4. Total(F) = Total(G)
    BY <2>1, <2>2, RecordsAreFinite, TotalOver
  <2> QED BY <2>3, <2>4 DEF Gain, F
<1>4. ASSUME NEW u PROVE R!Adjusted(u) = Change(adjusts, u)
  <2> DEFINE F == [x \in Adjustments |-> IF adjusts[x].user = u /\ adjusts[x].state = "applied"
                                         THEN adjusts[x].amount ELSE 0]
             G == [x \in Applied(u) |-> adjusts[x].amount]
  <2>1. F \in [Adjustments -> Int] /\ G \in [Applied(u) -> Int] /\ Applied(u) \in SUBSET Adjustments
    BY DEF AmountsTyped, Applied
  <2>2. /\ \A x \in Applied(u) : F[x] = G[x]
        /\ \A x \in Adjustments \ Applied(u) : F[x] = 0
    BY DEF Applied
  <2>3. R!Adjusted(u) = Total(G)
    BY ChangesKnown DEF Changes, AmountsTyped
  <2> HIDE DEF F, G
  <2>4. Total(F) = Total(G)
    BY <2>1, <2>2, RecordsAreFinite, TotalOver
  <2> QED BY <2>3, <2>4 DEF Change, F
<1>5. ASSUME NEW test PROVE Exposure(test) = Risk(bets, test) + Aside(offer, test)
  <2>1. Exposure(test) = BetRisk(test) + OfferRisk(test)
    BY DEF Exposure, BetRisk, OfferRisk, AtRisk, SetAside
  <2>2. BetRisk(test) = Risk(bets, test)
    <3> DEFINE F == [w \in Bets |-> IF Counts(bets[w], test) THEN ProfitOf(bets[w]) ELSE 0]
               G == [w \in AtRisk(test) |-> ProfitOf(bets[w])]
    <3>1. F \in [Bets -> Int] /\ G \in [AtRisk(test) -> Int] /\ AtRisk(test) \in SUBSET Bets
      BY DEF AmountsTyped, AtRisk, Counts, IsOpen
    <3>2. /\ \A x \in AtRisk(test) : F[x] = G[x]
          /\ \A x \in Bets \ AtRisk(test) : F[x] = 0
      BY DEF AtRisk, Counts, IsOpen
    <3>3. BetRisk(test) = Total(G)
      BY BetRisksKnown DEF BetRisks, AmountsTyped
    <3> HIDE DEF F, G
    <3>4. Total(F) = Total(G)
      BY <3>1, <3>2, TablesAreFinite, TotalOver
    <3> QED BY <3>3, <3>4 DEF Risk, F
  <2>3. OfferRisk(test) = Aside(offer, test)
    <3> DEFINE F == [o \in Offers |-> IF offer[o].state = "open" /\ offer[o].test = test
                                      THEN offer[o].reserved ELSE 0]
               G == [o \in SetAside(test) |-> offer[o].reserved]
    <3>1. F \in [Offers -> Int] /\ G \in [SetAside(test) -> Int] /\ SetAside(test) \in SUBSET Offers
      BY DEF AmountsTyped, SetAside
    <3>2. /\ \A x \in SetAside(test) : F[x] = G[x]
          /\ \A x \in Offers \ SetAside(test) : F[x] = 0
      BY DEF SetAside
    <3>3. OfferRisk(test) = Total(G)
      BY OfferRisksKnown DEF OfferRisks, AmountsTyped
    <3> HIDE DEF F, G
    <3>4. Total(F) = Total(G)
      BY <3>1, <3>2, TablesAreFinite, TotalOver
    <3> QED BY <3>3, <3>4 DEF Aside, F
  <2> QED BY <2>1, <2>2, <2>3
<1> QED BY <1>1, <1>2, <1>3, <1>4, <1>5

-----------------------------------------------------------------------------
(* What one wager moves                                                    *)

(* A wager that a member may have placed. *)
Placeable(b) == b.user \in Users /\ b.template \in Templates /\ b.choice \in DOMAIN Profit[b.template]

LEMMA BanksAreNobody == "MINT" \notin Users /\ "BURN" \notin Users /\ "HOUSE" \notin Users /\ "ESCROW" \notin Users
  BY FateAssumption DEF R!RecoveryAssumption

LEMMA AmountFacts ==
  ASSUME NEW b, Placeable(b)
  PROVE  /\ ProfitOf(b) \in Nat /\ Stake[b.template] \in Nat /\ PotOf(b) \in Nat
         /\ PotOf(b) = Stake[b.template] + ProfitOf(b)
         /\ b.template \in Recovers => Stake[b.template] = 0
<1>1. ProfitOf(b) \in Nat
  BY HouseAssumption DEF HouseAssumption, Placeable, ProfitOf
<1>2. Stake[b.template] \in Nat /\ (b.template \in Recovers => Stake[b.template] = 0)
  BY HouseAssumption DEF HouseAssumption, Placeable
<1> QED BY <1>1, <1>2 DEF PotOf

(* An effect on these four accounts alone. *)
LEMMA FourAccounts ==
  ASSUME NEW F \in [Accounts -> Int], NEW u \in Users,
         \A a \in Accounts : a \notin {u, "MINT", "HOUSE", "ESCROW"} => F[a] = 0
  PROVE  Total(F) = F[u] + F["MINT"] + F["HOUSE"] + F["ESCROW"]
<1>1. /\ u \in Accounts /\ "MINT" \in Accounts /\ "HOUSE" \in Accounts /\ "ESCROW" \in Accounts
      /\ u # "MINT" /\ u # "HOUSE" /\ u # "ESCROW"
  BY BanksAreNobody DEF Accounts
<1>2. \A a \in Accounts \ {u, "MINT", "HOUSE", "ESCROW"} : F[a] = 0
  OBVIOUS
<1>3. "MINT" # "HOUSE" /\ "MINT" # "ESCROW" /\ "HOUSE" # "ESCROW"
  OBVIOUS
<1> QED BY <1>1, <1>2, <1>3, AccountsAreFinite, TotalOfFour

(* Funding balances, and takes the stake of the member. *)
LEMMA FundFacts ==
  ASSUME NEW b, Placeable(b)
  PROVE  /\ FundEffect(b) \in [Accounts -> Int]
         /\ Total(FundEffect(b)) = 0
         /\ \A u \in Users : FundEffect(b)[u] = IF u = b.user THEN -Stake[b.template] ELSE 0
<1> DEFINE E == FundEffect(b)  s == Stake[b.template]  p == ProfitOf(b)  q == PotOf(b)
           t == b.template \in Recovers
           u == b.user
<1>1. s \in Nat /\ p \in Nat /\ q = s + p /\ (t => s = 0)
  BY AmountFacts
<1>2. u \in Users /\ t \in BOOLEAN
  BY DEF Placeable
<1>3. E = [a \in Accounts |-> IF a = "ESCROW" THEN q
             ELSE IF t THEN IF a = "MINT" THEN -p ELSE 0
             ELSE IF a = u THEN -s ELSE IF a = "HOUSE" THEN -p ELSE 0]
  BY DEF FundEffect
<1> HIDE DEF E, s, p, q, t, u
<1>4. E \in [Accounts -> Int]
  BY <1>1, <1>3
<1>5. /\ u \in Accounts /\ "MINT" \in Accounts /\ "HOUSE" \in Accounts /\ "ESCROW" \in Accounts
      /\ u # "MINT" /\ u # "HOUSE" /\ u # "ESCROW"
  BY <1>2, BanksAreNobody DEF Accounts
<1>6. /\ E["ESCROW"] = q
      /\ t => E["MINT"] = -p /\ E[u] = 0 /\ E["HOUSE"] = 0
      /\ ~t => E["MINT"] = 0 /\ E[u] = -s /\ E["HOUSE"] = -p
  BY <1>3, <1>5
<1>7. \A a \in Accounts : a \notin {u, "MINT", "HOUSE", "ESCROW"} => E[a] = 0
  BY <1>3
<1>8. Total(E) = 0
  <2>1. Total(E) = E[u] + E["MINT"] + E["HOUSE"] + E["ESCROW"]
    BY <1>2, <1>4, <1>7, FourAccounts
  <2> QED BY <1>1, <1>2, <1>6, <2>1
<1>9. ASSUME NEW v \in Users PROVE E[v] = IF v = u THEN -s ELSE 0
  <2>1. v \in Accounts /\ v # "MINT" /\ v # "HOUSE" /\ v # "ESCROW"
    BY BanksAreNobody DEF Accounts
  <2> QED BY <1>1, <1>2, <1>3, <2>1
<1> QED BY <1>4, <1>8, <1>9 DEF E, s, u

Paying == {"win", "loss", "void"}

(* Paying out balances, and takes from no member. *)
LEMMA PayFacts ==
  ASSUME NEW b, Placeable(b), NEW r \in Paying
  PROVE  /\ PayEffect(b, r) \in [Accounts -> Int]
         /\ Total(PayEffect(b, r)) = 0
         /\ \A u \in Users : PayEffect(b, r)[u] >= 0
<1> DEFINE E == PayEffect(b, r)  s == Stake[b.template]  p == ProfitOf(b)  q == PotOf(b)
           t == b.template \in Recovers
           u == b.user
<1>1. s \in Nat /\ p \in Nat /\ q = s + p /\ (t => s = 0)
  BY AmountFacts
<1>2. u \in Users /\ t \in BOOLEAN
  BY DEF Placeable
<1>3. E = [a \in Accounts |-> IF a = "ESCROW" THEN -q
             ELSE IF r = "win" THEN IF a = u THEN q ELSE 0
             ELSE IF r = "loss" THEN IF a = "HOUSE" THEN q ELSE 0
             ELSE IF t THEN IF a = "MINT" THEN q ELSE 0
             ELSE IF a = u THEN s ELSE IF a = "HOUSE" THEN p ELSE 0]
  BY DEF PayEffect, Paying
<1> HIDE DEF E, s, p, q, t, u
<1>4. E \in [Accounts -> Int]
  BY <1>1, <1>3
<1>5. /\ u \in Accounts /\ "MINT" \in Accounts /\ "HOUSE" \in Accounts /\ "ESCROW" \in Accounts
      /\ u # "MINT" /\ u # "HOUSE" /\ u # "ESCROW"
  BY <1>2, BanksAreNobody DEF Accounts
<1>6. /\ E["ESCROW"] = -q
      /\ r = "win" => E["MINT"] = 0 /\ E[u] = q /\ E["HOUSE"] = 0
      /\ r = "loss" => E["MINT"] = 0 /\ E[u] = 0 /\ E["HOUSE"] = q
      /\ r = "void" /\ t => E["MINT"] = q /\ E[u] = 0 /\ E["HOUSE"] = 0
      /\ r = "void" /\ ~t => E["MINT"] = 0 /\ E[u] = s /\ E["HOUSE"] = p
  BY <1>3, <1>5
<1>7. \A a \in Accounts : a \notin {u, "MINT", "HOUSE", "ESCROW"} => E[a] = 0
  BY <1>3
<1>8. Total(E) = 0
  <2>1. Total(E) = E[u] + E["MINT"] + E["HOUSE"] + E["ESCROW"]
    BY <1>2, <1>4, <1>7, FourAccounts
  <2> QED BY <1>1, <1>2, <1>6, <2>1 DEF Paying
<1>9. ASSUME NEW v \in Users PROVE E[v] >= 0
  <2>1. v \in Accounts /\ v # "MINT" /\ v # "HOUSE" /\ v # "ESCROW"
    BY BanksAreNobody DEF Accounts
  <2>2. E[v] \in {0, q, s}
    BY <1>3, <2>1
  <2> QED BY <1>1, <2>2
<1> QED BY <1>4, <1>8, <1>9 DEF E

(* Adding and taking away effects. *)
LEMMA PlusFacts ==
  ASSUME NEW f \in [Accounts -> Int], NEW e \in [Accounts -> Int]
  PROVE  /\ Plus(f, e) \in [Accounts -> Int] /\ Less(f, e) \in [Accounts -> Int]
         /\ \A a \in Accounts : Plus(f, e)[a] = f[a] + e[a] /\ Less(f, e)[a] = f[a] - e[a]
         /\ Total(Plus(f, e)) = Total(f) + Total(e)
         /\ Total(Less(f, e)) = Total(f) - Total(e)
<1>1. /\ Plus(f, e) \in [Accounts -> Int] /\ Less(f, e) \in [Accounts -> Int]
      /\ \A a \in Accounts : Plus(f, e)[a] = f[a] + e[a] /\ Less(f, e)[a] = f[a] - e[a]
  BY DEF Plus, Less
<1>2. Total(Plus(f, e)) = Total(f) + Total(e)
  BY <1>1, AccountsAreFinite, TotalPlus
<1>3. Total(f) = Total(Less(f, e)) + Total(e)
  <2>1. \A a \in Accounts : f[a] = Less(f, e)[a] + e[a]
    BY <1>1
  <2> DEFINE h == Less(f, e)
  <2>2. h \in [Accounts -> Int]
    BY <1>1
  <2> HIDE DEF h
  <2> QED BY <2>1, <2>2, AccountsAreFinite, TotalPlus DEF h
<1>4. Total(f) \in Int /\ Total(e) \in Int /\ Total(Less(f, e)) \in Int
  BY <1>1, AccountsAreFinite, TotalInt
<1> QED BY <1>1, <1>2, <1>3, <1>4

(* What a bet may look like once it is recorded. *)
Wagered(b) == /\ b.state # "none" => Placeable(b)
              /\ b.state = "settled" => b.result \in Paying

(* What a wager has moved is balanced, but for the member's side of it. *)
LEMMA MovesTyped ==
  ASSUME NEW b, Wagered(b)
  PROVE  BetMoves(b) \in [Accounts -> Int]
<1>1. CASE b.state = "open"
  BY <1>1, FundFacts DEF BetMoves, Wagered
<1>2. CASE b.state = "settled" /\ ~b.cleaned
  <2>1. FundEffect(b) \in [Accounts -> Int] /\ PayEffect(b, b.result) \in [Accounts -> Int]
    BY <1>2, FundFacts, PayFacts DEF Wagered
  <2> QED BY <1>2, <2>1, PlusFacts DEF BetMoves
<1>3. CASE ~(b.state = "open") /\ ~(b.state = "settled" /\ ~b.cleaned)
  BY <1>3 DEF BetMoves, Effect
<1> QED BY <1>1, <1>2, <1>3

-----------------------------------------------------------------------------
(* Effects that are added one after the other                              *)

(* it adds to f the effects E, one element after the other. *)
AddsUp(it, f, E, S) ==
  it = [s \in SUBSET S |-> IF s = {} THEN f ELSE Plus(it[s \ {Pick(s)}], E[Pick(s)])]

LEMMA AddingExists ==
  ASSUME NEW S, IsFiniteSet(S), NEW f \in [Accounts -> Int],
         NEW E \in [S -> [Accounts -> Int]]
  PROVE  \E it : AddsUp(it, f, E, S)
<1> DEFINE V == [Accounts -> Int]
           H == [p \in S \X V |-> Plus(p[2], E[p[1]])]
<1>1. \A x \in S, v \in V : Plus(v, E[x]) \in V
  BY PlusFacts
<1> HIDE DEF V
<1>2. H \in [S \X V -> V] /\ \A x \in S, v \in V : H[<<x, v>>] = Plus(v, E[x])
  <2>1. \A p \in S \X V : p[1] \in S /\ p[2] \in V
    OBVIOUS
  <2> QED BY <1>1, <2>1
<1>3. f \in V
  BY DEF V
<1> HIDE DEF H
<1>4. PICK g \in [SUBSET S -> V] : Unfolds(g, S, f, H)
  BY <1>2, <1>3, FoldExists
<1>5. ASSUME NEW s \in SUBSET S
      PROVE  g[s] = IF s = {} THEN f ELSE Plus(g[s \ {Pick(s)}], E[Pick(s)])
  <2>1. s # {} => Pick(s) \in S /\ g[s \ {Pick(s)}] \in V
    BY DEF Pick
  <2> QED BY <1>2, <1>4, <2>1 DEF Unfolds
<1>6. g = [s \in SUBSET S |-> g[s]]
  OBVIOUS
<1>7. AddsUp(g, f, E, S)
  BY <1>5, <1>6 DEF AddsUp
<1> QED BY <1>7

LEMMA AddedUp ==
  ASSUME NEW S, IsFiniteSet(S), NEW f \in [Accounts -> Int],
         NEW E \in [S -> [Accounts -> Int]], NEW it, AddsUp(it, f, E, S),
         \A x \in S : Total(E[x]) = 0
  PROVE  /\ it[S] \in [Accounts -> Int]
         /\ Total(it[S]) = Total(f)
         /\ \A a \in Accounts : it[S][a] = f[a] + Total([x \in S |-> E[x][a]])
<1>1. ASSUME NEW s \in SUBSET S
      PROVE  it[s] = IF s = {} THEN f ELSE Plus(it[s \ {Pick(s)}], E[Pick(s)])
  BY DEF AddsUp
<1> DEFINE Q == {s \in SUBSET S : it[s] \in [Accounts -> Int] /\ Total(it[s]) = Total(f)}
<1>2. ASSUME NEW T \in SUBSET S, T # {}, \A y \in T : T \ {y} \in Q
      PROVE  T \in Q
  <2> DEFINE p == Pick(T)  h == it[T \ {p}]  e == E[p]
  <2>1. p \in T /\ p \in S
    BY <1>2 DEF Pick
  <2>2. it[T] = Plus(h, e)
    BY <1>1, <1>2
  <2>3. h \in [Accounts -> Int] /\ Total(h) = Total(f)
    BY <1>2, <2>1
  <2>4. e \in [Accounts -> Int] /\ Total(e) = 0
    BY <2>1
  <2> HIDE DEF p, h, e
  <2>5. Plus(h, e) \in [Accounts -> Int] /\ Total(Plus(h, e)) = Total(h) + Total(e)
    BY <2>3, <2>4, PlusFacts
  <2>6. Total(h) \in Int
    BY <2>3, AccountsAreFinite, TotalInt
  <2> QED BY <2>2, <2>3, <2>4, <2>5, <2>6
<1>3. {} \in Q
  BY <1>1
<1>4. \A s \in SUBSET S : s \in Q
  <2> HIDE DEF Q
  <2> QED BY <1>2, <1>3, FiniteInduction
<1>5. ASSUME NEW a \in Accounts
      PROVE  it[S][a] = f[a] + Total([x \in S |-> E[x][a]])
  <2> DEFINE F == [x \in S |-> E[x][a]]
  <2>0. F \in [S -> Int] /\ \A x \in S : F[x] = E[x][a]
    OBVIOUS
  <2> HIDE DEF F
  <2>1. PICK g : Sums(g, F, S)
    BY <2>0, SumExists
  <2> DEFINE P == {s \in SUBSET S : it[s][a] = f[a] + g[s]}
  <2>2. ASSUME NEW T \in SUBSET S, T # {}, \A y \in T : T \ {y} \in P
        PROVE  T \in P
    <3> DEFINE p == Pick(T)  h == it[T \ {p}]  e == E[p]
    <3>1. p \in T /\ p \in S
      BY <2>2 DEF Pick
    <3>2. it[T] = Plus(h, e)
      BY <1>1, <2>2
    <3>3. h \in [Accounts -> Int] /\ e \in [Accounts -> Int]
      BY <1>4, <3>1
    <3>4. h[a] = f[a] + g[T \ {p}]
      BY <2>2, <3>1
    <3>5. g[T] = e[a] + g[T \ {p}] /\ g[T \ {p}] \in Int
      <4>1. T \ {p} \in SUBSET S
        OBVIOUS
      <4> QED BY <2>0, <2>1, <2>2, <3>1, <4>1 DEF Sums
    <3> HIDE DEF p, h, e
    <3>6. it[T][a] = h[a] + e[a]
      BY <3>2, <3>3, PlusFacts
    <3>7. f[a] \in Int /\ e[a] \in Int
      BY <3>3
    <3>8. it[T][a] = f[a] + g[T]
      BY <3>4, <3>5, <3>6, <3>7
    <3> QED BY <3>8
  <2>3. {} \in P
    <3>1. g[{}] = 0 /\ it[{}] = f /\ f[a] \in Int
      BY <1>1, <2>1, SumNothing
    <3> QED BY <3>1
  <2> HIDE DEF P
  <2>4. S \in P
    BY <2>2, <2>3, FiniteInduction
  <2>5. Total(F) = g[S]
    BY <2>0, <2>1, TotalIs
  <2> QED BY <2>4, <2>5 DEF P, F
<1> QED BY <1>4, <1>5

(* Bets with the same terms move the same. *)
LEMMA SameEffects ==
  ASSUME NEW b, NEW c, b.user = c.user, b.template = c.template, b.choice = c.choice
  PROVE  /\ FundEffect(b) = FundEffect(c) /\ ProfitOf(b) = ProfitOf(c)
         /\ \A r : PayEffect(b, r) = PayEffect(c, r)
  BY DEF FundEffect, PayEffect, PotOf, ProfitOf

LEMMA TotalNat ==
  ASSUME NEW S, IsFiniteSet(S), NEW F \in [S -> Int], \A x \in S : F[x] >= 0
  PROVE  Total(F) >= 0
<1> DEFINE Z == [x \in S |-> 0]
<1>1. Z \in [S -> Int] /\ \A x \in S : Z[x] = 0 /\ Z[x] <= F[x]
  OBVIOUS
<1> HIDE DEF Z
<1>2. Total(Z) = 0
  BY <1>1, TotalZero
<1>3. Total(Z) <= Total(F)
  BY <1>1, TotalGrows
<1> QED BY <1>2, <1>3

(* H is F with D added to the terms in T.                                  *)
Raised(H, F, D, S, T) ==
  /\ IsFiniteSet(S) /\ T \in SUBSET S
  /\ F \in [S -> Int] /\ H \in [S -> Int] /\ D \in [T -> Int]
  /\ \A x \in T : H[x] = F[x] + D[x]
  /\ \A x \in S \ T : H[x] = F[x]

LEMMA TotalRaised ==
  ASSUME NEW S, NEW T, NEW F, NEW D, NEW H, Raised(H, F, D, S, T)
  PROVE  /\ Total(H) = Total(F) + Total(D)
         /\ Total(F) \in Int /\ Total(D) \in Int
         /\ (\A x \in T : D[x] >= 0) => Total(D) >= 0
<1> SUFFICES ASSUME IsFiniteSet(S), T \in SUBSET S,
                    NEW F1 \in [S -> Int], NEW H1 \in [S -> Int], NEW D1 \in [T -> Int],
                    F1 = F, H1 = H, D1 = D,
                    \A x \in T : H1[x] = F1[x] + D1[x], \A x \in S \ T : H1[x] = F1[x]
             PROVE  /\ Total(H1) = Total(F1) + Total(D1)
                    /\ Total(F1) \in Int /\ Total(D1) \in Int
                    /\ (\A x \in T : D1[x] >= 0) => Total(D1) >= 0
  BY DEF Raised
<1>1. PICK G \in [S -> Int] : (\A x \in T : G[x] = D1[x]) /\ (\A x \in S \ T : G[x] = 0)
  <2> DEFINE G == [x \in S |-> IF x \in T THEN D1[x] ELSE 0]
  <2>1. G \in [S -> Int] /\ (\A x \in T : G[x] = D1[x]) /\ (\A x \in S \ T : G[x] = 0)
    OBVIOUS
  <2> QED BY <2>1
<1>2. \A x \in S : H1[x] = F1[x] + G[x]
  BY <1>1
<1>3. Total(H1) = Total(F1) + Total(G)
  BY <1>2, TotalPlus
<1>4. Total(G) = Total(D1)
  BY <1>1, TotalOver
<1>5. IsFiniteSet(T)
  BY FS_Subset
<1> QED BY <1>3, <1>4, <1>5, TotalInt, TotalNat

(* Each wager in live moves by its effect, and every balance by all of them. *)
Shifts(f2, f, C, B, live, E) ==
  /\ f \in [Accounts -> Int] /\ f2 \in [Accounts -> Int] /\ live \in SUBSET Bets
  /\ \A w \in Bets : Wagered(B[w])
  /\ \A a \in Accounts : f2[a] = f[a] + Total([w \in live |-> E[w][a]])
  /\ \A w \in live : /\ E[w] \in [Accounts -> Int]
                     /\ BetMoves(C[w]) = Plus(BetMoves(B[w]), E[w])
                     /\ \A u \in Users : E[w][u] >= 0
  /\ \A w \in Bets \ live : BetMoves(C[w]) = BetMoves(B[w])

(* Then the balances move as the records do, and no member's falls. *)
LEMMA SettledBalances ==
  ASSUME NEW f, NEW f2, NEW B, NEW C, NEW live, NEW E, Shifts(f2, f, C, B, live, E)
  PROVE  /\ \A a \in Accounts : f2[a] - Net(C, a) = f[a] - Net(B, a)
         /\ \A u \in Users : f2[u] >= f[u]
<1>0. /\ f \in [Accounts -> Int] /\ f2 \in [Accounts -> Int] /\ live \in SUBSET Bets
      /\ \A w \in Bets : Wagered(B[w])
      /\ \A a \in Accounts : f2[a] = f[a] + Total([w \in live |-> E[w][a]])
      /\ \A w \in live : /\ E[w] \in [Accounts -> Int]
                         /\ BetMoves(C[w]) = Plus(BetMoves(B[w]), E[w])
                         /\ \A u \in Users : E[w][u] >= 0
      /\ \A w \in Bets \ live : BetMoves(C[w]) = BetMoves(B[w])
  BY DEF Shifts
<1>1. ASSUME NEW a \in Accounts
      PROVE  /\ f2[a] - Net(C, a) = f[a] - Net(B, a)
             /\ a \in Users => f2[a] >= f[a]
  <2>0. \A w \in Bets : BetMoves(B[w]) \in [Accounts -> Int]
    BY <1>0, MovesTyped
  <2>1. PICK F \in [Bets -> Int] : F = [w \in Bets |-> BetMoves(B[w])[a]]
    BY <2>0
  <2>2. PICK D \in [live -> Int] : D = [w \in live |-> E[w][a]]
    BY <1>0
  <2>3. ASSUME NEW w \in live
        PROVE  BetMoves(C[w])[a] = F[w] + D[w] /\ BetMoves(C[w])[a] \in Int
    <3>0. w \in Bets
      BY <1>0
    <3>1. F[w] \in Int /\ F[w] = BetMoves(B[w])[a] /\ D[w] = E[w][a] /\ D[w] \in Int
      BY <2>1, <2>2, <3>0
    <3>2. BetMoves(C[w]) = Plus(BetMoves(B[w]), E[w]) /\ E[w] \in [Accounts -> Int]
      BY <1>0
    <3>3. BetMoves(C[w])[a] = BetMoves(B[w])[a] + E[w][a]
      BY <2>0, <3>0, <3>2, PlusFacts
    <3> QED BY <3>1, <3>3
  <2>4. ASSUME NEW w \in Bets \ live
        PROVE  BetMoves(C[w])[a] = F[w] /\ F[w] \in Int
    BY <1>0, <2>1
  <2>5. PICK H \in [Bets -> Int] : H = [w \in Bets |-> BetMoves(C[w])[a]]
    <3>1. \A w \in Bets : BetMoves(C[w])[a] \in Int
      <4>1. \A w \in Bets \ live : BetMoves(C[w])[a] \in Int
        BY <2>4
      <4>2. \A w \in live : BetMoves(C[w])[a] \in Int
        BY <2>3
      <4> QED BY ONLY <4>1, <4>2
    <3> QED BY <3>1
  <2>6. \A w \in live : H[w] = F[w] + D[w]
    <3>1. live \in SUBSET Bets
      BY <1>0
    <3> QED BY ONLY <2>3, <2>5, <3>1
  <2>10. \A w \in Bets \ live : H[w] = F[w]
    BY <2>4, <2>5
  <2>7. /\ Total(H) = Total(F) + Total(D)
        /\ Total(F) \in Int /\ Total(D) \in Int
        /\ (\A w \in live : D[w] >= 0) => Total(D) >= 0
    <3>1. IsFiniteSet(Bets)
      BY TablesAreFinite
    <3>2. Raised(H, F, D, Bets, live)
      BY ONLY <1>0, <2>6, <2>10, <3>1 DEF Raised
    <3> QED BY ONLY <3>2, TotalRaised
  <2>8. a \in Users => \A w \in live : D[w] >= 0
    BY <1>0, <2>2
  <2>9. Net(B, a) = Total(F) /\ Net(C, a) = Total(H) /\ f2[a] = f[a] + Total(D) /\ f[a] \in Int
    BY <1>0, <2>1, <2>2, <2>5 DEF Net
  <2> QED BY <2>7, <2>8, <2>9
<1>2. Users \subseteq Accounts
  BY DEF Accounts
<1> QED BY <1>1, <1>2

-----------------------------------------------------------------------------
(* Sums that differ in one term, or lie below one another                  *)

(* G is F but for one term.                                                *)
Differs(G, F, x, S) ==
  /\ IsFiniteSet(S) /\ x \in S
  /\ F \in [S -> Int] /\ G \in [S -> Int]
  /\ \A y \in S \ {x} : G[y] = F[y]

LEMMA TotalDiffers ==
  ASSUME NEW S, NEW x, NEW F, NEW G, Differs(G, F, x, S)
  PROVE  /\ Total(G) = Total(F) - F[x] + G[x]
         /\ Total(G) \in Int /\ Total(F) \in Int /\ F[x] \in Int /\ G[x] \in Int
<1> SUFFICES ASSUME IsFiniteSet(S), x \in S, NEW F1 \in [S -> Int], NEW G1 \in [S -> Int],
                    F1 = F, G1 = G, \A y \in S \ {x} : F1[y] = G1[y]
             PROVE  /\ Total(G1) = Total(F1) - F1[x] + G1[x]
                    /\ Total(G1) \in Int /\ Total(F1) \in Int /\ F1[x] \in Int /\ G1[x] \in Int
  BY DEF Differs
<1>1. Total(G1) = Total(F1) - F1[x] + G1[x]
  BY TotalChange
<1>2. Total(G1) \in Int /\ Total(F1) \in Int
  BY TotalInt
<1> QED BY <1>1, <1>2

(* F lies below G in every term.                                           *)
Below(F, G, S) ==
  /\ IsFiniteSet(S) /\ F \in [S -> Int] /\ G \in [S -> Int]
  /\ \A x \in S : F[x] <= G[x]

LEMMA TotalBelow ==
  ASSUME NEW S, NEW F, NEW G, Below(F, G, S)
  PROVE  Total(F) <= Total(G) /\ Total(F) \in Int /\ Total(G) \in Int
<1> SUFFICES ASSUME IsFiniteSet(S), NEW F1 \in [S -> Int], NEW G1 \in [S -> Int],
                    F1 = F, G1 = G, \A x \in S : F1[x] <= G1[x]
             PROVE  Total(F1) <= Total(G1) /\ Total(F1) \in Int /\ Total(G1) \in Int
  BY DEF Below
<1> QED BY TotalGrows, TotalInt

(* The sum of what one account had from the wagers.                        *)
LEMMA NetInt ==
  ASSUME NEW B, \A w \in Bets : Wagered(B[w]), NEW a \in Accounts
  PROVE  Net(B, a) \in Int
<1>1. \A w \in Bets : BetMoves(B[w]) \in [Accounts -> Int]
  BY MovesTyped
<1>2. PICK F : F = [w \in Bets |-> BetMoves(B[w])[a]]
  OBVIOUS
<1>3. F \in [Bets -> Int]
  BY <1>1, <1>2
<1>4. Total(F) \in Int
  BY <1>3, TablesAreFinite, TotalInt
<1> QED BY <1>2, <1>4 DEF Net

LEMMA NetSame ==
  ASSUME NEW B, NEW C, \A w \in Bets : BetMoves(C[w]) = BetMoves(B[w]), NEW a \in Accounts
  PROVE  Net(C, a) = Net(B, a)
<1>1. [w \in Bets |-> BetMoves(C[w])[a]] = [w \in Bets |-> BetMoves(B[w])[a]]
  OBVIOUS
<1> QED BY <1>1 DEF Net

LEMMA NetChanged ==
  ASSUME NEW B, NEW C, \A v \in Bets : Wagered(B[v]) /\ Wagered(C[v]),
         NEW w \in Bets, \A v \in Bets \ {w} : C[v] = B[v], NEW a \in Accounts
  PROVE  /\ Net(C, a) = Net(B, a) - BetMoves(B[w])[a] + BetMoves(C[w])[a]
         /\ Net(C, a) \in Int /\ Net(B, a) \in Int
         /\ BetMoves(B[w])[a] \in Int /\ BetMoves(C[w])[a] \in Int
<1>1. \A v \in Bets : BetMoves(B[v]) \in [Accounts -> Int] /\ BetMoves(C[v]) \in [Accounts -> Int]
  BY MovesTyped
<1>2. PICK F : F = [v \in Bets |-> BetMoves(B[v])[a]]
  OBVIOUS
<1>3. PICK G : G = [v \in Bets |-> BetMoves(C[v])[a]]
  OBVIOUS
<1>4. F \in [Bets -> Int] /\ G \in [Bets -> Int] /\ \A v \in Bets \ {w} : G[v] = F[v]
  BY <1>1, <1>2, <1>3
<1>5. Differs(G, F, w, Bets)
  BY <1>4, TablesAreFinite DEF Differs
<1>6. /\ Total(G) = Total(F) - F[w] + G[w]
      /\ Total(G) \in Int /\ Total(F) \in Int /\ F[w] \in Int /\ G[w] \in Int
  BY ONLY <1>5, TotalDiffers
<1>7. /\ Net(B, a) = Total(F) /\ Net(C, a) = Total(G)
      /\ F[w] = BetMoves(B[w])[a] /\ G[w] = BetMoves(C[w])[a]
  BY <1>2, <1>3 DEF Net
<1> QED BY <1>6, <1>7

-----------------------------------------------------------------------------
(* What the House risks.                                                    *)

(* What a wager and an offer put at risk in a namespace. *)
RiskOf(b, test)  == IF Counts(b, test) THEN ProfitOf(b) ELSE 0
AsideOf(o, test) == IF o.state = "open" /\ o.test = test THEN o.reserved ELSE 0

LEMMA RiskFacts ==
  ASSUME NEW b, Wagered(b), NEW test
  PROVE  RiskOf(b, test) \in Nat
  BY AmountFacts DEF Wagered, RiskOf, Counts

LEMMA RiskBelow ==
  ASSUME NEW B, NEW C, \A v \in Bets : Wagered(B[v]) /\ Wagered(C[v]), NEW test,
         \A v \in Bets : RiskOf(C[v], test) <= RiskOf(B[v], test)
  PROVE  Risk(C, test) <= Risk(B, test) /\ Risk(B, test) \in Int /\ Risk(C, test) \in Int
<1>1. PICK F : F = [v \in Bets |-> RiskOf(B[v], test)]
  OBVIOUS
<1>2. PICK G : G = [v \in Bets |-> RiskOf(C[v], test)]
  OBVIOUS
<1>3. F \in [Bets -> Int] /\ G \in [Bets -> Int]
  BY <1>1, <1>2, RiskFacts
<1>4. \A v \in Bets : G[v] <= F[v]
  BY <1>1, <1>2
<1>5. Below(G, F, Bets)
  BY <1>3, <1>4, TablesAreFinite DEF Below
<1>6. Total(G) <= Total(F) /\ Total(F) \in Int /\ Total(G) \in Int
  BY ONLY <1>5, TotalBelow
<1>7. Risk(B, test) = Total(F) /\ Risk(C, test) = Total(G)
  BY <1>1, <1>2 DEF Risk, RiskOf
<1> QED BY <1>6, <1>7

LEMMA RiskChanged ==
  ASSUME NEW B, NEW C, \A v \in Bets : Wagered(B[v]) /\ Wagered(C[v]), NEW test,
         NEW w \in Bets, \A v \in Bets \ {w} : C[v] = B[v]
  PROVE  Risk(C, test) = Risk(B, test) - RiskOf(B[w], test) + RiskOf(C[w], test)
<1>1. PICK F : F = [v \in Bets |-> RiskOf(B[v], test)]
  OBVIOUS
<1>2. PICK G : G = [v \in Bets |-> RiskOf(C[v], test)]
  OBVIOUS
<1>3. F \in [Bets -> Int] /\ G \in [Bets -> Int]
  BY <1>1, <1>2, RiskFacts
<1>4. \A v \in Bets \ {w} : G[v] = F[v]
  BY <1>1, <1>2
<1>5. Differs(G, F, w, Bets)
  BY <1>3, <1>4, TablesAreFinite DEF Differs
<1>6. Total(G) = Total(F) - F[w] + G[w]
  BY ONLY <1>5, TotalDiffers
<1>7. /\ Risk(B, test) = Total(F) /\ Risk(C, test) = Total(G)
      /\ F[w] = RiskOf(B[w], test) /\ G[w] = RiskOf(C[w], test)
  BY <1>1, <1>2 DEF Risk, RiskOf
<1> QED BY <1>6, <1>7

(* What offers set aside are amounts. *)
Reserved(O) == \A o \in Offers : O[o].reserved \in Nat

LEMMA AsideBelow ==
  ASSUME NEW O, NEW P, Reserved(O), Reserved(P), NEW test,
         \A o \in Offers : AsideOf(P[o], test) <= AsideOf(O[o], test)
  PROVE  Aside(P, test) <= Aside(O, test) /\ Aside(P, test) \in Int /\ Aside(O, test) \in Int
<1>1. PICK F : F = [v \in Offers |-> AsideOf(O[v], test)]
  OBVIOUS
<1>2. PICK G : G = [v \in Offers |-> AsideOf(P[v], test)]
  OBVIOUS
<1>3. F \in [Offers -> Int] /\ G \in [Offers -> Int]
  BY <1>1, <1>2 DEF AsideOf, Reserved
<1>4. \A v \in Offers : G[v] <= F[v]
  BY <1>1, <1>2
<1>5. Below(G, F, Offers)
  BY <1>3, <1>4, TablesAreFinite DEF Below
<1>6. Total(G) <= Total(F) /\ Total(F) \in Int /\ Total(G) \in Int
  BY ONLY <1>5, TotalBelow
<1>7. Aside(O, test) = Total(F) /\ Aside(P, test) = Total(G)
  BY <1>1, <1>2 DEF Aside, AsideOf
<1> QED BY <1>6, <1>7

LEMMA AsideChanged ==
  ASSUME NEW O, NEW P, Reserved(O), Reserved(P), NEW test,
         NEW o \in Offers, \A v \in Offers \ {o} : P[v] = O[v]
  PROVE  /\ Aside(P, test) = Aside(O, test) - AsideOf(O[o], test) + AsideOf(P[o], test)
         /\ Aside(O, test) \in Int /\ AsideOf(O[o], test) \in Nat /\ AsideOf(P[o], test) \in Nat
<1>1. PICK F : F = [v \in Offers |-> AsideOf(O[v], test)]
  OBVIOUS
<1>2. PICK G : G = [v \in Offers |-> AsideOf(P[v], test)]
  OBVIOUS
<1>3. F \in [Offers -> Int] /\ G \in [Offers -> Int]
  BY <1>1, <1>2 DEF AsideOf, Reserved
<1>4. \A v \in Offers \ {o} : G[v] = F[v]
  BY <1>1, <1>2
<1>5. Differs(G, F, o, Offers)
  BY <1>3, <1>4, TablesAreFinite DEF Differs
<1>6. Total(G) = Total(F) - F[o] + G[o] /\ Total(F) \in Int
  BY ONLY <1>5, TotalDiffers
<1>7. /\ Aside(O, test) = Total(F) /\ Aside(P, test) = Total(G)
      /\ F[o] = AsideOf(O[o], test) /\ G[o] = AsideOf(P[o], test)
  BY <1>1, <1>2 DEF Aside, AsideOf
<1>8. AsideOf(O[o], test) \in Nat /\ AsideOf(P[o], test) \in Nat
  BY DEF AsideOf, Reserved
<1> QED BY <1>6, <1>7, <1>8

-----------------------------------------------------------------------------
(* What a settlement pays out                                              *)

(* Effects that neither make nor lose Fate. *)
Balanced == {e \in [Accounts -> Int] : Total(e) = 0}

(* The step pays out the effects E of the wagers in S, each once. *)
AddsTo(S, E) ==
  /\ fate' \in [Accounts -> Int] /\ Total(fate') = Total(fate)
  /\ \A a \in Accounts : fate'[a] = fate[a] + Total([w \in S |-> E[w][a]])

(* What the owner's word makes of a wager. *)
OwnersResult(outcome, w) ==
  IF outcome = "void" THEN "void" ELSE IF bets[w].choice = outcome THEN "win" ELSE "loss"

(* What a settlement by draws adds up to. *)
LEMMA DrawsPay ==
  ASSUME fate \in [Accounts -> Int], NEW S \in SUBSET Bets,
         \A w \in S : PayEffect(bets[w], DrawOutcome(w)) \in Balanced,
         fate' = FoldSet(LAMBDA w, f : Plus(f, PayEffect(bets[w], DrawOutcome(w))), fate, S)
  PROVE  AddsTo(S, [w \in S |-> PayEffect(bets[w], DrawOutcome(w))])
<1> DEFINE e(w) == PayEffect(bets[w], DrawOutcome(w))
           E == [w \in S |-> e(w)]
           Q(g) == g = [s \in SUBSET S |-> IF s = {} THEN fate
                          ELSE Plus(g[s \ {(CHOOSE y \in s : TRUE)}], e(CHOOSE y \in s : TRUE))]
           it == CHOOSE h : Q(h)
<1>0. \A w \in S : e(w) \in [Accounts -> Int] /\ Total(e(w)) = 0
  BY DEF Balanced
<1>1. IsFiniteSet(S)
  BY FS_Subset, TablesAreFinite
<1>2. fate' = it[S]
  BY DEF FoldSet, MapThenFoldSet
<1> HIDE DEF e
<1>3. E \in [S -> [Accounts -> Int]] /\ \A x \in S : E[x] = e(x)
  BY <1>0
<1>4. \A x \in S : Total(E[x]) = 0
  BY <1>0, <1>3
<1> HIDE DEF E
<1>5. PICK g : AddsUp(g, fate, E, S)
  BY <1>1, <1>3, AddingExists
<1>6. \A s \in SUBSET S : s # {} => E[Pick(s)] = e(CHOOSE y \in s : TRUE)
  BY <1>3 DEF Pick
<1>7. Q(g)
  <2>1. g = [s \in SUBSET S |-> g[s]]
    BY <1>5 DEF AddsUp
  <2>2. \A s \in SUBSET S : g[s] = IF s = {} THEN fate ELSE Plus(g[s \ {(CHOOSE y \in s : TRUE)}], e(CHOOSE y \in s : TRUE))
    <3> SUFFICES ASSUME NEW s \in SUBSET S
                 PROVE  g[s] = IF s = {} THEN fate ELSE Plus(g[s \ {(CHOOSE y \in s : TRUE)}], e(CHOOSE y \in s : TRUE))
      OBVIOUS
    <3>1. g[s] = IF s = {} THEN fate ELSE Plus(g[s \ {Pick(s)}], E[Pick(s)])
      BY <1>5 DEF AddsUp
    <3>2. Pick(s) = (CHOOSE y \in s : TRUE)
      BY DEF Pick
    <3>3. s # {} => E[Pick(s)] = e(CHOOSE y \in s : TRUE)
      BY <1>6
    <3> QED BY ONLY <3>1, <3>2, <3>3
  <2> QED BY <2>1, <2>2
<1>8. Q(it)
  BY <1>7
<1> HIDE DEF it
<1>9. AddsUp(it, fate, E, S)
  <2>1. it = [s \in SUBSET S |-> it[s]]
    BY <1>8
  <2>2. \A s \in SUBSET S : it[s] = IF s = {} THEN fate ELSE Plus(it[s \ {Pick(s)}], E[Pick(s)])
    <3> SUFFICES ASSUME NEW s \in SUBSET S
                 PROVE  it[s] = IF s = {} THEN fate ELSE Plus(it[s \ {Pick(s)}], E[Pick(s)])
      OBVIOUS
    <3>1. it[s] = IF s = {} THEN fate ELSE Plus(it[s \ {(CHOOSE y \in s : TRUE)}], e(CHOOSE y \in s : TRUE))
      BY <1>8
    <3>2. Pick(s) = (CHOOSE y \in s : TRUE)
      BY DEF Pick
    <3>3. s # {} => E[Pick(s)] = e(CHOOSE y \in s : TRUE)
      BY <1>6
    <3> QED BY ONLY <3>1, <3>2, <3>3
  <2> QED BY <2>1, <2>2 DEF AddsUp
<1>10. fate \in [Accounts -> Int]
  OBVIOUS
<1>11. /\ it[S] \in [Accounts -> Int] /\ Total(it[S]) = Total(fate)
       /\ \A a \in Accounts : it[S][a] = fate[a] + Total([x \in S |-> E[x][a]])
  <2>1. E \in [S -> [Accounts -> Int]]
    BY <1>3
  <2> QED BY ONLY <1>1, <1>4, <1>9, <1>10, <2>1, AddedUp
<1> QED BY <1>2, <1>11 DEF E, AddsTo, e

(* What a settlement by deadlines adds up to. *)
LEMMA DeadlinesPay ==
  ASSUME fate \in [Accounts -> Int], NEW S \in SUBSET Bets,
         \A w \in S : PayEffect(bets[w], DeadlineOutcome(w)) \in Balanced,
         fate' = FoldSet(LAMBDA w, f : Plus(f, PayEffect(bets[w], DeadlineOutcome(w))), fate, S)
  PROVE  AddsTo(S, [w \in S |-> PayEffect(bets[w], DeadlineOutcome(w))])
<1> DEFINE e(w) == PayEffect(bets[w], DeadlineOutcome(w))
           E == [w \in S |-> e(w)]
           Q(g) == g = [s \in SUBSET S |-> IF s = {} THEN fate
                          ELSE Plus(g[s \ {(CHOOSE y \in s : TRUE)}], e(CHOOSE y \in s : TRUE))]
           it == CHOOSE h : Q(h)
<1>0. \A w \in S : e(w) \in [Accounts -> Int] /\ Total(e(w)) = 0
  BY DEF Balanced
<1>1. IsFiniteSet(S)
  BY FS_Subset, TablesAreFinite
<1>2. fate' = it[S]
  BY DEF FoldSet, MapThenFoldSet
<1> HIDE DEF e
<1>3. E \in [S -> [Accounts -> Int]] /\ \A x \in S : E[x] = e(x)
  BY <1>0
<1>4. \A x \in S : Total(E[x]) = 0
  BY <1>0, <1>3
<1> HIDE DEF E
<1>5. PICK g : AddsUp(g, fate, E, S)
  BY <1>1, <1>3, AddingExists
<1>6. \A s \in SUBSET S : s # {} => E[Pick(s)] = e(CHOOSE y \in s : TRUE)
  BY <1>3 DEF Pick
<1>7. Q(g)
  <2>1. g = [s \in SUBSET S |-> g[s]]
    BY <1>5 DEF AddsUp
  <2>2. \A s \in SUBSET S : g[s] = IF s = {} THEN fate ELSE Plus(g[s \ {(CHOOSE y \in s : TRUE)}], e(CHOOSE y \in s : TRUE))
    <3> SUFFICES ASSUME NEW s \in SUBSET S
                 PROVE  g[s] = IF s = {} THEN fate ELSE Plus(g[s \ {(CHOOSE y \in s : TRUE)}], e(CHOOSE y \in s : TRUE))
      OBVIOUS
    <3>1. g[s] = IF s = {} THEN fate ELSE Plus(g[s \ {Pick(s)}], E[Pick(s)])
      BY <1>5 DEF AddsUp
    <3>2. Pick(s) = (CHOOSE y \in s : TRUE)
      BY DEF Pick
    <3>3. s # {} => E[Pick(s)] = e(CHOOSE y \in s : TRUE)
      BY <1>6
    <3> QED BY ONLY <3>1, <3>2, <3>3
  <2> QED BY <2>1, <2>2
<1>8. Q(it)
  BY <1>7
<1> HIDE DEF it
<1>9. AddsUp(it, fate, E, S)
  <2>1. it = [s \in SUBSET S |-> it[s]]
    BY <1>8
  <2>2. \A s \in SUBSET S : it[s] = IF s = {} THEN fate ELSE Plus(it[s \ {Pick(s)}], E[Pick(s)])
    <3> SUFFICES ASSUME NEW s \in SUBSET S
                 PROVE  it[s] = IF s = {} THEN fate ELSE Plus(it[s \ {Pick(s)}], E[Pick(s)])
      OBVIOUS
    <3>1. it[s] = IF s = {} THEN fate ELSE Plus(it[s \ {(CHOOSE y \in s : TRUE)}], e(CHOOSE y \in s : TRUE))
      BY <1>8
    <3>2. Pick(s) = (CHOOSE y \in s : TRUE)
      BY DEF Pick
    <3>3. s # {} => E[Pick(s)] = e(CHOOSE y \in s : TRUE)
      BY <1>6
    <3> QED BY ONLY <3>1, <3>2, <3>3
  <2> QED BY <2>1, <2>2 DEF AddsUp
<1>10. fate \in [Accounts -> Int]
  OBVIOUS
<1>11. /\ it[S] \in [Accounts -> Int] /\ Total(it[S]) = Total(fate)
       /\ \A a \in Accounts : it[S][a] = fate[a] + Total([x \in S |-> E[x][a]])
  <2>1. E \in [S -> [Accounts -> Int]]
    BY <1>3
  <2> QED BY ONLY <1>1, <1>4, <1>9, <1>10, <2>1, AddedUp
<1> QED BY <1>2, <1>11 DEF E, AddsTo, e

(* What a settlement by the owner adds up to. *)
LEMMA OwnerPays ==
  ASSUME NEW outcome, fate \in [Accounts -> Int], NEW S \in SUBSET Bets,
         \A w \in S : PayEffect(bets[w], OwnersResult(outcome, w)) \in Balanced,
         fate' = FoldSet(LAMBDA w, f : Plus(f, PayEffect(bets[w], OwnersResult(outcome, w))), fate, S)
  PROVE  AddsTo(S, [w \in S |-> PayEffect(bets[w], OwnersResult(outcome, w))])
<1> DEFINE e(w) == PayEffect(bets[w], OwnersResult(outcome, w))
           E == [w \in S |-> e(w)]
           Q(g) == g = [s \in SUBSET S |-> IF s = {} THEN fate
                          ELSE Plus(g[s \ {(CHOOSE y \in s : TRUE)}], e(CHOOSE y \in s : TRUE))]
           it == CHOOSE h : Q(h)
<1>0. \A w \in S : e(w) \in [Accounts -> Int] /\ Total(e(w)) = 0
  BY DEF Balanced
<1>1. IsFiniteSet(S)
  BY FS_Subset, TablesAreFinite
<1>2. fate' = it[S]
  BY DEF FoldSet, MapThenFoldSet
<1> HIDE DEF e
<1>3. E \in [S -> [Accounts -> Int]] /\ \A x \in S : E[x] = e(x)
  BY <1>0
<1>4. \A x \in S : Total(E[x]) = 0
  BY <1>0, <1>3
<1> HIDE DEF E
<1>5. PICK g : AddsUp(g, fate, E, S)
  BY <1>1, <1>3, AddingExists
<1>6. \A s \in SUBSET S : s # {} => E[Pick(s)] = e(CHOOSE y \in s : TRUE)
  BY <1>3 DEF Pick
<1>7. Q(g)
  <2>1. g = [s \in SUBSET S |-> g[s]]
    BY <1>5 DEF AddsUp
  <2>2. \A s \in SUBSET S : g[s] = IF s = {} THEN fate ELSE Plus(g[s \ {(CHOOSE y \in s : TRUE)}], e(CHOOSE y \in s : TRUE))
    <3> SUFFICES ASSUME NEW s \in SUBSET S
                 PROVE  g[s] = IF s = {} THEN fate ELSE Plus(g[s \ {(CHOOSE y \in s : TRUE)}], e(CHOOSE y \in s : TRUE))
      OBVIOUS
    <3>1. g[s] = IF s = {} THEN fate ELSE Plus(g[s \ {Pick(s)}], E[Pick(s)])
      BY <1>5 DEF AddsUp
    <3>2. Pick(s) = (CHOOSE y \in s : TRUE)
      BY DEF Pick
    <3>3. s # {} => E[Pick(s)] = e(CHOOSE y \in s : TRUE)
      BY <1>6
    <3> QED BY ONLY <3>1, <3>2, <3>3
  <2> QED BY <2>1, <2>2
<1>8. Q(it)
  BY <1>7
<1> HIDE DEF it
<1>9. AddsUp(it, fate, E, S)
  <2>1. it = [s \in SUBSET S |-> it[s]]
    BY <1>8
  <2>2. \A s \in SUBSET S : it[s] = IF s = {} THEN fate ELSE Plus(it[s \ {Pick(s)}], E[Pick(s)])
    <3> SUFFICES ASSUME NEW s \in SUBSET S
                 PROVE  it[s] = IF s = {} THEN fate ELSE Plus(it[s \ {Pick(s)}], E[Pick(s)])
      OBVIOUS
    <3>1. it[s] = IF s = {} THEN fate ELSE Plus(it[s \ {(CHOOSE y \in s : TRUE)}], e(CHOOSE y \in s : TRUE))
      BY <1>8
    <3>2. Pick(s) = (CHOOSE y \in s : TRUE)
      BY DEF Pick
    <3>3. s # {} => E[Pick(s)] = e(CHOOSE y \in s : TRUE)
      BY <1>6
    <3> QED BY ONLY <3>1, <3>2, <3>3
  <2> QED BY <2>1, <2>2 DEF AddsUp
<1>10. fate \in [Accounts -> Int]
  OBVIOUS
<1>11. /\ it[S] \in [Accounts -> Int] /\ Total(it[S]) = Total(fate)
       /\ \A a \in Accounts : it[S][a] = fate[a] + Total([x \in S |-> E[x][a]])
  <2>1. E \in [S -> [Accounts -> Int]]
    BY <1>3
  <2> QED BY ONLY <1>1, <1>4, <1>9, <1>10, <2>1, AddedUp
<1> QED BY <1>2, <1>11 DEF E, AddsTo, e

-----------------------------------------------------------------------------
(* What the wagers of the House do to the ledger                           *)

Sound(b) == Wagered(b) /\ (b.state = "open" => ~b.cleaned)

(* The ledger and the wagers are what they should be. *)
Books == /\ fate \in [Accounts -> Int]
         /\ bets \in [Bets -> BetRecords]
         /\ \A w \in Bets : Sound(bets[w])

(* A step keeps the books when every balance moves as the records do.      *)
Kept ==
  /\ fate' \in [Accounts -> Int]
  /\ \A w \in Bets : Sound(bets'[w])
  /\ Total(fate') = Total(fate)
  /\ \A a \in Accounts : fate'[a] - Net(bets', a) = fate[a] - Net(bets, a)
  /\ \A u \in Users : fate[u] >= 0 => fate'[u] >= 0

(* No more is at risk than before. *)
RiskFalls == \A test \in BOOLEAN : Risk(bets', test) <= Risk(bets, test)

(* The records that matter for amounts. *)
Alike(c, b) == /\ c.state = b.state /\ c.user = b.user /\ c.template = b.template
               /\ c.choice = b.choice /\ c.result = b.result /\ c.cleaned = b.cleaned

LEMMA AlikeFacts ==
  ASSUME NEW b, NEW c, Sound(b), Alike(c, b)
  PROVE  /\ Sound(c) /\ BetMoves(c) = BetMoves(b)
         /\ \A test : RiskOf(c, test) = RiskOf(b, test)
<1>1. /\ FundEffect(c) = FundEffect(b) /\ ProfitOf(c) = ProfitOf(b)
      /\ \A r : PayEffect(c, r) = PayEffect(b, r)
  BY SameEffects DEF Alike
<1>2. Sound(c)
  BY DEF Sound, Wagered, Placeable, Alike
<1>3. BetMoves(c) = BetMoves(b)
  BY <1>1 DEF BetMoves, Alike
<1>4. \A test : RiskOf(c, test) = RiskOf(b, test)
  BY <1>1 DEF RiskOf, Counts, Alike
<1> QED BY <1>2, <1>3, <1>4

(* Steps that move no Fate. *)
LEMMA QuietKeeps ==
  ASSUME Books, fate' = fate, \A w \in Bets : Alike(bets'[w], bets[w])
  PROVE  Kept /\ RiskFalls
<1>1. \A w \in Bets : /\ Wagered(bets[w]) /\ Sound(bets'[w]) /\ Wagered(bets'[w])
                      /\ BetMoves(bets'[w]) = BetMoves(bets[w])
                      /\ \A test : RiskOf(bets'[w], test) = RiskOf(bets[w], test)
  BY AlikeFacts DEF Books, Sound
<1>2. \A a \in Accounts : Net(bets', a) = Net(bets, a) /\ Net(bets, a) \in Int
  BY <1>1, NetSame, NetInt
<1>3. \A w \in Bets : \A test : RiskOf(bets[w], test) \in Nat
  BY <1>1, RiskFacts
<1>4. RiskFalls
  <2> SUFFICES ASSUME NEW test \in BOOLEAN
               PROVE  Risk(bets', test) <= Risk(bets, test)
    BY DEF RiskFalls
  <2>1. \A v \in Bets : Wagered(bets[v]) /\ Wagered(bets'[v])
    BY <1>1
  <2>2. \A v \in Bets : RiskOf(bets'[v], test) <= RiskOf(bets[v], test)
    BY <1>1, <1>3
  <2> QED BY <2>1, <2>2, RiskBelow
<1> QED BY <1>1, <1>2, <1>4 DEF Kept, Books

LEMMA SettledFacts ==
  ASSUME NEW b \in BetRecords, Sound(b), b.state = "open", NEW r \in Paying, NEW c \in Causes
  PROVE  LET s == SettledBet(b, r, c) IN
         /\ Sound(s) /\ BetMoves(s) = Plus(BetMoves(b), PayEffect(b, r))
         /\ \A test : RiskOf(s, test) = 0
<1> DEFINE s == SettledBet(b, r, c)
<1>1. Placeable(b) /\ b.cleaned = FALSE
  BY BetFields DEF Sound, Wagered
<1>2. r \in Results
  BY DEF Results, Paying
<1>3. Cooldown[b.template] \in Nat
  BY <1>1, HouseAssumption DEF HouseAssumption, Placeable
<1>4. /\ s \in BetRecords /\ s.state = "settled" /\ s.result = r
      /\ s.template = b.template /\ s.user = b.user /\ s.choice = b.choice
  BY <1>2, <1>3, SettledFields
<1>5. s.cleaned = b.cleaned
  BY DEF SettledBet, BetRecords
<1> HIDE DEF s
<1>6. FundEffect(s) = FundEffect(b) /\ PayEffect(s, r) = PayEffect(b, r)
  BY <1>4, SameEffects
<1>7. BetMoves(s) = Plus(BetMoves(b), PayEffect(b, r))
  BY <1>1, <1>4, <1>5, <1>6 DEF BetMoves
<1>8. Sound(s)
  BY <1>1, <1>4 DEF Sound, Wagered, Placeable
<1>9. \A test : RiskOf(s, test) = 0
  BY <1>4 DEF RiskOf, Counts
<1> QED BY <1>7, <1>8, <1>9 DEF s

(* Any number of open wagers settled at once. *)
Settled(live, E) ==
  /\ live \in SUBSET Bets
  /\ \A w \in live : /\ IsOpen(w)
                     /\ \E r \in Paying, c \in Causes :
                          E[w] = PayEffect(bets[w], r) /\ bets'[w] = SettledBet(bets[w], r, c)
  /\ \A w \in Bets \ live : bets'[w] = bets[w]
  /\ AddsTo(live, E)

LEMMA SettledKeeps ==
  ASSUME Books, NEW live, NEW E, Settled(live, E)
  PROVE  Kept /\ RiskFalls
<1>1. live \in SUBSET Bets /\ \A w \in Bets : Wagered(bets[w]) /\ Sound(bets[w])
  BY DEF Settled, Books, Sound
<1>2. ASSUME NEW w \in live
      PROVE  /\ Sound(bets'[w]) /\ BetMoves(bets'[w]) = Plus(BetMoves(bets[w]), E[w])
             /\ E[w] \in [Accounts -> Int] /\ \A u \in Users : E[w][u] >= 0
             /\ \A test : RiskOf(bets'[w], test) = 0
  <2>1. PICK r \in Paying, c \in Causes :
          E[w] = PayEffect(bets[w], r) /\ bets'[w] = SettledBet(bets[w], r, c)
    BY DEF Settled
  <2>2. bets[w] \in BetRecords /\ Sound(bets[w]) /\ bets[w].state = "open"
    BY <1>1 DEF Settled, IsOpen, Books
  <2>3. Placeable(bets[w])
    BY <2>2 DEF Sound, Wagered
  <2>4. PayEffect(bets[w], r) \in [Accounts -> Int] /\ \A u \in Users : PayEffect(bets[w], r)[u] >= 0
    BY <2>3, PayFacts
  <2>5. /\ Sound(SettledBet(bets[w], r, c))
        /\ BetMoves(SettledBet(bets[w], r, c)) = Plus(BetMoves(bets[w]), PayEffect(bets[w], r))
        /\ \A test : RiskOf(SettledBet(bets[w], r, c), test) = 0
    BY <2>2, SettledFacts
  <2> QED BY <2>1, <2>4, <2>5
<1>3. \A w \in Bets \ live : bets'[w] = bets[w]
  BY DEF Settled
<1>4. \A w \in Bets : Sound(bets'[w]) /\ Wagered(bets'[w])
  BY <1>1, <1>2, <1>3 DEF Sound
<1>5. \A w \in Bets \ live : BetMoves(bets'[w]) = BetMoves(bets[w])
  BY <1>3
<1>6. /\ fate \in [Accounts -> Int] /\ fate' \in [Accounts -> Int] /\ Total(fate') = Total(fate)
      /\ \A a \in Accounts : fate'[a] = fate[a] + Total([w \in live |-> E[w][a]])
  BY DEF Settled, AddsTo, Books
<1>7. /\ \A a \in Accounts : fate'[a] - Net(bets', a) = fate[a] - Net(bets, a)
      /\ \A u \in Users : fate'[u] >= fate[u]
  <2>1. \A w \in live : E[w] \in [Accounts -> Int]
    BY <1>2
  <2>2. \A w \in live : /\ BetMoves(bets'[w]) = Plus(BetMoves(bets[w]), E[w])
                        /\ \A u \in Users : E[w][u] >= 0
    BY <1>2
  <2>3. \A w \in Bets : Wagered(bets[w])
    BY <1>1
  <2>4. Shifts(fate', fate, bets', bets, live, E)
    BY ONLY <1>1, <1>5, <1>6, <2>1, <2>2, <2>3 DEF Shifts
  <2> QED BY ONLY <2>4, SettledBalances
<1>8. RiskFalls
  <2> SUFFICES ASSUME NEW test \in BOOLEAN
               PROVE  Risk(bets', test) <= Risk(bets, test)
    BY DEF RiskFalls
  <2>1. \A v \in Bets : Wagered(bets[v]) /\ Wagered(bets'[v])
    BY <1>1, <1>4
  <2>2. ASSUME NEW v \in Bets PROVE RiskOf(bets'[v], test) <= RiskOf(bets[v], test)
    <3>1. RiskOf(bets[v], test) \in Nat
      BY <1>1, RiskFacts
    <3>2. CASE v \in live
      BY <1>2, <3>1, <3>2
    <3>3. CASE v \notin live
      BY <1>3, <3>1, <3>3
    <3> QED BY <3>2, <3>3
  <2> QED BY <2>1, <2>2, RiskBelow
<1>9. \A u \in Users : fate[u] >= 0 => fate'[u] >= 0
  BY <1>6, <1>7 DEF Accounts
<1> QED BY <1>4, <1>6, <1>7, <1>8, <1>9 DEF Kept

(* A settlement by draws keeps the books. *)
LEMMA DrawsSettle ==
  ASSUME Books, NEW S \in SUBSET Bets, Settle(S, DrawOutcome, DrawCause)
  PROVE  Kept /\ RiskFalls
<1> DEFINE live == {w \in S : IsOpen(w)}
           E == [w \in live |-> PayEffect(bets[w], DrawOutcome(w))]
<1>1. /\ bets' = [w \in Bets |-> IF w \in live THEN SettledBet(bets[w], DrawOutcome(w), DrawCause(w)) ELSE bets[w]]
      /\ fate' = FoldSet(LAMBDA w, f : Plus(f, PayEffect(bets[w], DrawOutcome(w))), fate, live)
  BY Zenon DEF Settle
<1>2. live \in SUBSET Bets /\ \A w \in live : IsOpen(w)
  OBVIOUS
<1> HIDE DEF live
<1>3. ASSUME NEW w \in live
      PROVE  /\ DrawOutcome(w) \in Paying /\ DrawCause(w) \in Causes
             /\ PayEffect(bets[w], DrawOutcome(w)) \in Balanced
  <2>1. DrawOutcome(w) \in Paying /\ DrawCause(w) \in Causes
    BY DEF DrawOutcome, DrawCause, Paying, Causes
  <2>2. Placeable(bets[w])
    BY <1>2 DEF Books, Sound, Wagered, IsOpen
  <2> QED BY <2>1, <2>2, PayFacts DEF Balanced
<1>4. AddsTo(live, E)
  <2>1. fate \in [Accounts -> Int]
    BY DEF Books
  <2>2. \A w \in live : PayEffect(bets[w], DrawOutcome(w)) \in Balanced
    BY <1>3
  <2>3. live \in SUBSET Bets
    BY <1>2
  <2> QED BY <1>1, <2>1, <2>2, <2>3, DrawsPay
<1>5. Settled(live, E)
  <2>1. \A w \in live : bets'[w] = SettledBet(bets[w], DrawOutcome(w), DrawCause(w)) /\ E[w] = PayEffect(bets[w], DrawOutcome(w))
    BY <1>1, <1>2
  <2>2. \A w \in Bets \ live : bets'[w] = bets[w]
    BY <1>1
  <2> HIDE DEF E
  <2> QED BY <1>2, <1>3, <1>4, <2>1, <2>2 DEF Settled
<1> QED BY <1>5, SettledKeeps

(* A settlement by deadlines keeps the books. *)
LEMMA DeadlinesSettle ==
  ASSUME Books, NEW S \in SUBSET Bets, Settle(S, DeadlineOutcome, DeadlineCause)
  PROVE  Kept /\ RiskFalls
<1> DEFINE live == {w \in S : IsOpen(w)}
           E == [w \in live |-> PayEffect(bets[w], DeadlineOutcome(w))]
<1>1. /\ bets' = [w \in Bets |-> IF w \in live THEN SettledBet(bets[w], DeadlineOutcome(w), DeadlineCause(w)) ELSE bets[w]]
      /\ fate' = FoldSet(LAMBDA w, f : Plus(f, PayEffect(bets[w], DeadlineOutcome(w))), fate, live)
  BY Zenon DEF Settle
<1>2. live \in SUBSET Bets /\ \A w \in live : IsOpen(w)
  OBVIOUS
<1> HIDE DEF live
<1>3. ASSUME NEW w \in live
      PROVE  /\ DeadlineOutcome(w) \in Paying /\ DeadlineCause(w) \in Causes
             /\ PayEffect(bets[w], DeadlineOutcome(w)) \in Balanced
  <2>1. DeadlineOutcome(w) \in Paying /\ DeadlineCause(w) \in Causes
    BY DEF DeadlineOutcome, DrawOutcome, DeadlineCause, Paying, Causes
  <2>2. Placeable(bets[w])
    BY <1>2 DEF Books, Sound, Wagered, IsOpen
  <2> QED BY <2>1, <2>2, PayFacts DEF Balanced
<1>4. AddsTo(live, E)
  <2>1. fate \in [Accounts -> Int]
    BY DEF Books
  <2>2. \A w \in live : PayEffect(bets[w], DeadlineOutcome(w)) \in Balanced
    BY <1>3
  <2>3. live \in SUBSET Bets
    BY <1>2
  <2> QED BY <1>1, <2>1, <2>2, <2>3, DeadlinesPay
<1>5. Settled(live, E)
  <2>1. \A w \in live : bets'[w] = SettledBet(bets[w], DeadlineOutcome(w), DeadlineCause(w)) /\ E[w] = PayEffect(bets[w], DeadlineOutcome(w))
    BY <1>1, <1>2
  <2>2. \A w \in Bets \ live : bets'[w] = bets[w]
    BY <1>1
  <2> HIDE DEF E
  <2> QED BY <1>2, <1>3, <1>4, <2>1, <2>2 DEF Settled
<1> QED BY <1>5, SettledKeeps

OwnerSettles(S, outcome) ==
  Settle(S, LAMBDA x : IF outcome = "void" THEN "void"
                       ELSE IF bets[x].choice = outcome THEN "win" ELSE "loss",
            LAMBDA x : "owner")

(* A settlement by the owner keeps the books. *)
LEMMA OwnerSettlement ==
  ASSUME Books, NEW outcome, NEW S \in SUBSET Bets, OwnerSettles(S, outcome)
  PROVE  Kept /\ RiskFalls
<1> DEFINE live == {w \in S : IsOpen(w)}
           E == [w \in live |-> PayEffect(bets[w], OwnersResult(outcome, w))]
<1>1. /\ bets' = [w \in Bets |-> IF w \in live THEN SettledBet(bets[w], OwnersResult(outcome, w), "owner") ELSE bets[w]]
      /\ fate' = FoldSet(LAMBDA w, f : Plus(f, PayEffect(bets[w], OwnersResult(outcome, w))), fate, live)
  BY Zenon DEF Settle, OwnerSettles, OwnersResult
<1>2. live \in SUBSET Bets /\ \A w \in live : IsOpen(w)
  OBVIOUS
<1> HIDE DEF live
<1>3. ASSUME NEW w \in live
      PROVE  /\ OwnersResult(outcome, w) \in Paying /\ "owner" \in Causes
             /\ PayEffect(bets[w], OwnersResult(outcome, w)) \in Balanced
  <2>1. OwnersResult(outcome, w) \in Paying /\ "owner" \in Causes
    BY DEF OwnersResult, Paying, Causes
  <2>2. Placeable(bets[w])
    BY <1>2 DEF Books, Sound, Wagered, IsOpen
  <2> QED BY <2>1, <2>2, PayFacts DEF Balanced
<1>4. AddsTo(live, E)
  <2>1. fate \in [Accounts -> Int]
    BY DEF Books
  <2>2. \A w \in live : PayEffect(bets[w], OwnersResult(outcome, w)) \in Balanced
    BY <1>3
  <2>3. live \in SUBSET Bets
    BY <1>2
  <2> QED BY <1>1, <2>1, <2>2, <2>3, OwnerPays
<1>5. Settled(live, E)
  <2>1. \A w \in live : bets'[w] = SettledBet(bets[w], OwnersResult(outcome, w), "owner") /\ E[w] = PayEffect(bets[w], OwnersResult(outcome, w))
    BY <1>1, <1>2
  <2>2. \A w \in Bets \ live : bets'[w] = bets[w]
    BY <1>1
  <2> HIDE DEF E
  <2> QED BY <1>2, <1>3, <1>4, <2>1, <2>2 DEF Settled
<1> QED BY <1>5, SettledKeeps

-----------------------------------------------------------------------------
(* Steps that move no Fate, and the cleanup of a test                      *)

LEMMA AlikeMoves ==
  ASSUME NEW b \in BetRecords
  PROVE  /\ Alike(b, b) /\ Alike([b EXCEPT !.drawn = TRUE], b)
         /\ Alike([b EXCEPT !.due = Down(@, DueFloor)], b)
         /\ Alike([b EXCEPT !.cool = Down(@, 0)], b)
<1> DEFINE due == Down(b.due, DueFloor)  cool == Down(b.cool, 0)
<1> HIDE DEF due, cool
<1>1. /\ Alike(b, b) /\ Alike([b EXCEPT !.drawn = TRUE], b)
      /\ Alike([b EXCEPT !.due = due], b) /\ Alike([b EXCEPT !.cool = cool], b)
  BY DEF BetRecords, Alike
<1> QED BY <1>1 DEF due, cool

(* A draw that is counted, and time, move no Fate. *)
LEMMA DrawIsQuiet ==
  ASSUME Books, NEW u, NEW public, NEW test, NEW lag, Draw(u, public, test, lag)
  PROVE  Kept /\ RiskFalls
<1>1. fate' = fate
  BY DEF Draw
<1>2. ASSUME NEW w \in Bets PROVE Alike(bets'[w], bets[w])
  <2>1. bets'[w] = bets[w] \/ bets'[w] = [bets[w] EXCEPT !.drawn = TRUE]
    BY DEF Draw
  <2> QED BY <2>1, AlikeMoves DEF Books
<1> QED BY <1>1, <1>2, QuietKeeps

LEMMA TickIsQuiet == Books /\ Tick => Kept /\ RiskFalls
<1> SUFFICES ASSUME Books, Tick PROVE Kept /\ RiskFalls
  OBVIOUS
<1>1. fate' = fate
  BY DEF Tick
<1>2. ASSUME NEW w \in Bets PROVE Alike(bets'[w], bets[w])
  <2>1. \/ bets'[w] = bets[w] \/ bets'[w] = [bets[w] EXCEPT !.due = Down(@, DueFloor)]
        \/ bets'[w] = [bets[w] EXCEPT !.cool = Down(@, 0)]
    BY DEF Tick
  <2> QED BY <2>1, AlikeMoves DEF Books
<1> QED BY <1>1, <1>2, QuietKeeps

LEMMA StillIsQuiet == Books /\ UNCHANGED <<fate, bets>> => Kept /\ RiskFalls
<1> SUFFICES ASSUME Books, UNCHANGED <<fate, bets>> PROVE Kept /\ RiskFalls
  OBVIOUS
<1>1. \A w \in Bets : Alike(bets'[w], bets[w])
  BY DEF Alike
<1> QED BY <1>1, QuietKeeps

(* What a reversal in two halves adds up to. *)
LEMMA ReversedFacts ==
  ASSUME NEW f \in [Accounts -> Int], NEW b, Sound(b), b.state = "settled", ~b.cleaned,
         Less(f, PayEffect(b, b.result))[b.user] >= 0
  PROVE  LET g == Less(Less(f, PayEffect(b, b.result)), FundEffect(b)) IN
         /\ g \in [Accounts -> Int] /\ Total(g) = Total(f)
         /\ \A a \in Accounts : g[a] = f[a] - BetMoves(b)[a]
         /\ \A u \in Users : f[u] >= 0 => g[u] >= 0
<1>1. Placeable(b) /\ b.result \in Paying
  BY DEF Sound, Wagered
<1>2. PICK p : p = PayEffect(b, b.result)
  OBVIOUS
<1>3. PICK q : q = FundEffect(b)
  OBVIOUS
<1>4. p \in [Accounts -> Int] /\ Total(p) = 0 /\ \A u \in Users : u # b.user => p[u] = 0
  <2>1. p \in [Accounts -> Int] /\ Total(p) = 0
    BY <1>1, <1>2, PayFacts
  <2>2. ASSUME NEW u \in Users, u # b.user PROVE p[u] = 0
    <3>1. u \in Accounts /\ u # "ESCROW" /\ u # "HOUSE" /\ u # "MINT"
      BY BanksAreNobody DEF Accounts
    <3> QED BY <1>1, <1>2, <2>2, <3>1 DEF PayEffect, Paying
  <2> QED BY <2>1, <2>2
<1>5. /\ q \in [Accounts -> Int] /\ Total(q) = 0
      /\ \A u \in Users : q[u] = IF u = b.user THEN -Stake[b.template] ELSE 0
  BY <1>1, <1>3, FundFacts
<1>6. PICK m : m = Less(f, p)
  OBVIOUS
<1>7. /\ m \in [Accounts -> Int] /\ Total(m) = Total(f) - Total(p)
      /\ \A a \in Accounts : m[a] = f[a] - p[a]
  BY <1>4, <1>6, PlusFacts
<1>8. PICK g : g = Less(m, q)
  OBVIOUS
<1>9. /\ g \in [Accounts -> Int] /\ Total(g) = Total(m) - Total(q)
      /\ \A a \in Accounts : g[a] = m[a] - q[a]
  BY <1>5, <1>7, <1>8, PlusFacts
<1>10. BetMoves(b) = Plus(q, p)
  BY <1>2, <1>3 DEF BetMoves
<1>11. \A a \in Accounts : Plus(q, p)[a] = q[a] + p[a]
  BY <1>4, <1>5, PlusFacts
<1>12. \A a \in Accounts : g[a] = f[a] - BetMoves(b)[a]
  BY <1>4, <1>5, <1>7, <1>9, <1>10, <1>11
<1>13. Total(g) = Total(f)
  <2>1. Total(f) \in Int
    BY AccountsAreFinite, TotalInt
  <2> QED BY <1>4, <1>5, <1>7, <1>9, <2>1
<1>14. ASSUME NEW u \in Users, f[u] >= 0 PROVE g[u] >= 0
  <2>1. u \in Accounts /\ Stake[b.template] \in Nat
    BY <1>1, AmountFacts DEF Accounts
  <2>2. CASE u = b.user
    <3>1. m[u] >= 0
      BY <1>2, <1>6, <2>2
    <3> QED BY <1>5, <1>7, <1>9, <2>1, <2>2, <3>1
  <2>3. CASE u # b.user
    BY <1>4, <1>5, <1>7, <1>9, <1>14, <2>1, <2>3
  <2> QED BY <2>2, <2>3
<1> QED BY <1>2, <1>3, <1>6, <1>8, <1>9, <1>12, <1>13, <1>14

LEMMA CleanedFacts ==
  ASSUME NEW b \in BetRecords, Sound(b), b.state = "settled"
  PROVE  LET s == [b EXCEPT !.cleaned = TRUE] IN
         /\ Sound(s) /\ \A a \in Accounts : BetMoves(s)[a] = 0
         /\ \A test : RiskOf(s, test) = 0
<1> DEFINE s == [b EXCEPT !.cleaned = TRUE]
<1>1. SameTerms(s, b) /\ s.cleaned = TRUE
  BY CleanedFields DEF BetRecords
<1> HIDE DEF s
<1>2. Sound(s)
  BY <1>1 DEF Sound, Wagered, Placeable, SameTerms
<1>3. BetMoves(s) = Effect(<<>>)
  BY <1>1 DEF BetMoves, SameTerms
<1>4. \A a \in Accounts : Effect(<<>>)[a] = 0
  BY DEF Effect
<1>5. \A test : RiskOf(s, test) = 0
  BY <1>1 DEF RiskOf, Counts, SameTerms
<1> QED BY <1>2, <1>3, <1>4, <1>5 DEF s

(* A test that is cleaned up is taken off the books. *)
LEMMA CleanupIsKept ==
  ASSUME Books, NEW w \in Bets, CleanupTest(w)
  PROVE  Kept /\ RiskFalls
<1>1. /\ bets[w] \in BetRecords /\ Sound(bets[w]) /\ bets[w].state = "settled" /\ ~bets[w].cleaned
      /\ Less(fate, PayEffect(bets[w], bets[w].result))[bets[w].user] >= 0
      /\ fate' = Less(Less(fate, PayEffect(bets[w], bets[w].result)), FundEffect(bets[w]))
      /\ fate \in [Accounts -> Int]
  BY DEF CleanupTest, Books
<1>2. /\ bets'[w] = [bets[w] EXCEPT !.cleaned = TRUE]
      /\ \A v \in Bets \ {w} : bets'[v] = bets[v]
  BY DEF CleanupTest, Books
<1>3. /\ fate' \in [Accounts -> Int] /\ Total(fate') = Total(fate)
      /\ \A a \in Accounts : fate'[a] = fate[a] - BetMoves(bets[w])[a]
      /\ \A u \in Users : fate[u] >= 0 => fate'[u] >= 0
  BY <1>1, ReversedFacts
<1>4. /\ Sound(bets'[w]) /\ \A a \in Accounts : BetMoves(bets'[w])[a] = 0
      /\ \A test : RiskOf(bets'[w], test) = 0
  BY <1>1, <1>2, CleanedFacts
<1>5. \A v \in Bets : Sound(bets[v]) /\ Sound(bets'[v]) /\ Wagered(bets[v]) /\ Wagered(bets'[v])
  BY <1>2, <1>4 DEF Books, Sound
<1>6. ASSUME NEW a \in Accounts PROVE fate'[a] - Net(bets', a) = fate[a] - Net(bets, a)
  <2>1. /\ Net(bets', a) = Net(bets, a) - BetMoves(bets[w])[a] + BetMoves(bets'[w])[a]
        /\ Net(bets, a) \in Int /\ BetMoves(bets[w])[a] \in Int
    <3>1. \A v \in Bets : Wagered(bets[v]) /\ Wagered(bets'[v])
      BY <1>5
    <3> QED BY <1>2, <3>1, NetChanged
  <2> QED BY <1>1, <1>3, <1>4, <2>1
<1>7. RiskFalls
  <2> SUFFICES ASSUME NEW test \in BOOLEAN
               PROVE  Risk(bets', test) <= Risk(bets, test)
    BY DEF RiskFalls
  <2>1. \A v \in Bets : Wagered(bets[v]) /\ Wagered(bets'[v])
    BY <1>5
  <2>2. \A v \in Bets : RiskOf(bets[v], test) \in Nat
    BY <1>5, RiskFacts
  <2>3. ASSUME NEW v \in Bets PROVE RiskOf(bets'[v], test) <= RiskOf(bets[v], test)
    <3>1. CASE v = w
      BY <1>4, <2>2, <3>1
    <3>2. CASE v # w
      BY <1>2, <2>2, <3>2
    <3> QED BY <3>1, <3>2
  <2> QED BY <2>1, <2>3, RiskBelow
<1> QED BY <1>3, <1>5, <1>6, <1>7 DEF Kept

-----------------------------------------------------------------------------
(* What is at risk, and set aside                                          *)

(* A finite set of numbers has a greatest. *)
LEMMA GreatestOf ==
  ASSUME NEW S \in SUBSET Nat, IsFiniteSet(S), S # {}
  PROVE  Max(S) \in Nat
<1> DEFINE Q == {T \in SUBSET S : T = {} \/ \E x \in T : \A y \in T : x >= y}
<1>1. {} \in Q
  OBVIOUS
<1>2. ASSUME NEW T \in SUBSET S, T # {}, \A x \in T : T \ {x} \in Q
      PROVE  T \in Q
  <2>1. PICK x \in T : T \ {x} \in Q
    BY <1>2
  <2>2. CASE T \ {x} = {}
    <3>1. \A y \in T : y = x
      BY <2>2
    <3>2. x \in Nat
      OBVIOUS
    <3> QED BY <3>1, <3>2
  <2>3. CASE \E z \in T \ {x} : \A y \in T \ {x} : z >= y
    <3>1. PICK z \in T \ {x} : \A y \in T \ {x} : z >= y
      BY <2>3
    <3>2. x \in Nat /\ z \in Nat /\ \A y \in T : y \in Nat
      OBVIOUS
    <3>3. CASE x >= z
      BY <3>1, <3>2, <3>3
    <3>4. CASE ~(x >= z)
      BY <3>1, <3>2, <3>4
    <3> QED BY <3>3, <3>4
  <2> QED BY <2>1, <2>2, <2>3
<1> HIDE DEF Q
<1>3. S \in Q
  <2>1. \A T \in SUBSET S : T # {} /\ (\A x \in T : T \ {x} \in Q) => T \in Q
    BY <1>2
  <2> QED BY <1>1, <2>1, FiniteInduction
<1>4. \E x \in S : \A y \in S : x >= y
  BY <1>3 DEF Q
<1> QED BY <1>4 DEF Max

LEMMA ReserveFacts == MaxProfit(OfferTemplate) \in Nat
<1> DEFINE t == OfferTemplate
           S == {Profit[t][c] : c \in DOMAIN Profit[t]}
<1>1. t \in Templates
  BY HouseAssumption DEF HouseAssumption, OfferTemplate
<1> HIDE DEF t
<1>2. /\ Profit[t] \in [DOMAIN Profit[t] -> Nat]
      /\ IsFiniteSet(DOMAIN Profit[t]) /\ DOMAIN Profit[t] # {}
  BY <1>1, HouseAssumption DEF HouseAssumption
<1>3. IsFiniteSet(S)
  <2>1. Profit[t] \in Surjection(DOMAIN Profit[t], S)
    BY <1>2 DEF Surjection
  <2> QED BY <1>2, <2>1, FS_Surjection
<1>4. S \in SUBSET Nat /\ S # {}
  BY <1>2
<1>5. MaxProfit(t) = Max(S)
  BY DEF MaxProfit
<1> QED BY <1>3, <1>4, <1>5, GreatestOf DEF t

LEMMA OffersReserve == CardsTyped => Reserved(offer)
  BY ReserveFacts DEF CardsTyped, OfferRows, Reserved

LEMMA RiskInt ==
  ASSUME NEW B, \A v \in Bets : Wagered(B[v]), NEW test
  PROVE  Risk(B, test) \in Int
<1>1. \A v \in Bets : RiskOf(B[v], test) \in Nat
  BY RiskFacts
<1>2. \A v \in Bets : RiskOf(B[v], test) <= RiskOf(B[v], test)
  BY <1>1
<1> QED BY <1>2, RiskBelow

(* What the House may lose, in a namespace. *)
Capped == \A test \in BOOLEAN : Risk(bets, test) + Aside(offer, test) <= ExposureCap

(* No offer sets aside more than before. *)
OffersFall == \A o \in Offers, test \in BOOLEAN : AsideOf(offer'[o], test) <= AsideOf(offer[o], test)

LEMMA FallingIsCapped ==
  ASSUME Books, Books', Reserved(offer), Reserved(offer'), Capped, RiskFalls, OffersFall
  PROVE  Capped'
<1> SUFFICES ASSUME NEW test \in BOOLEAN
             PROVE  Risk(bets', test) + Aside(offer', test) <= ExposureCap
  BY DEF Capped
<1>1. /\ Aside(offer', test) <= Aside(offer, test)
      /\ Aside(offer', test) \in Int /\ Aside(offer, test) \in Int
  <2>1. \A o \in Offers : AsideOf(offer'[o], test) <= AsideOf(offer[o], test)
    BY DEF OffersFall
  <2> QED BY <2>1, AsideBelow
<1>2. Risk(bets', test) <= Risk(bets, test)
  BY DEF RiskFalls
<1>3. Risk(bets', test) \in Int /\ Risk(bets, test) \in Int
  BY RiskInt DEF Books, Sound
<1>4. Risk(bets, test) + Aside(offer, test) <= ExposureCap /\ ExposureCap \in Int
  BY HouseAssumption DEF Capped, HouseAssumption
<1> QED BY <1>1, <1>2, <1>3, <1>4

-----------------------------------------------------------------------------
(* What the recoveries do to the ledger                                    *)

(* What a claim and an adjustment have given a member. *)
GainOf(r, u)   == IF r.user = u /\ r.state = "completed" THEN r.reward ELSE 0
ChangeOf(x, u) == IF x.user = u /\ x.state = "applied" THEN x.amount ELSE 0

(* Rewards and adjustments are amounts. *)
Rewarded(C) == \A c \in ClaimIds : C[c].reward \in Int
Amounting(X) == \A x \in Adjustments : X[x].amount \in Int

LEMMA GainSame ==
  ASSUME NEW C, NEW D, NEW u, \A c \in ClaimIds : GainOf(D[c], u) = GainOf(C[c], u)
  PROVE  Gain(D, u) = Gain(C, u)
<1>1. [c \in ClaimIds |-> GainOf(D[c], u)] = [c \in ClaimIds |-> GainOf(C[c], u)]
  OBVIOUS
<1> QED BY <1>1 DEF Gain, GainOf

LEMMA GainChanged ==
  ASSUME NEW C, NEW D, Rewarded(C), Rewarded(D), NEW u,
         NEW c \in ClaimIds, \A d \in ClaimIds \ {c} : D[d] = C[d]
  PROVE  /\ Gain(D, u) = Gain(C, u) - GainOf(C[c], u) + GainOf(D[c], u)
         /\ Gain(C, u) \in Int /\ GainOf(C[c], u) \in Int /\ GainOf(D[c], u) \in Int
<1>1. PICK F : F = [d \in ClaimIds |-> GainOf(C[d], u)]
  OBVIOUS
<1>2. PICK G : G = [d \in ClaimIds |-> GainOf(D[d], u)]
  OBVIOUS
<1>3. F \in [ClaimIds -> Int] /\ G \in [ClaimIds -> Int]
  BY <1>1, <1>2 DEF Rewarded, GainOf
<1>4. \A d \in ClaimIds \ {c} : G[d] = F[d]
  BY <1>1, <1>2
<1>5. Differs(G, F, c, ClaimIds)
  BY <1>3, <1>4, RecordsAreFinite DEF Differs
<1>6. /\ Total(G) = Total(F) - F[c] + G[c]
      /\ Total(F) \in Int /\ F[c] \in Int /\ G[c] \in Int
  BY ONLY <1>5, TotalDiffers
<1>7. /\ Gain(C, u) = Total(F) /\ Gain(D, u) = Total(G)
      /\ F[c] = GainOf(C[c], u) /\ G[c] = GainOf(D[c], u)
  BY <1>1, <1>2 DEF Gain, GainOf
<1> QED BY <1>6, <1>7

LEMMA ChangeChanged ==
  ASSUME NEW X, NEW Y, Amounting(X), Amounting(Y), NEW u,
         NEW x \in Adjustments, \A y \in Adjustments \ {x} : Y[y] = X[y]
  PROVE  /\ Change(Y, u) = Change(X, u) - ChangeOf(X[x], u) + ChangeOf(Y[x], u)
         /\ Change(X, u) \in Int /\ ChangeOf(X[x], u) \in Int /\ ChangeOf(Y[x], u) \in Int
<1>1. PICK F : F = [y \in Adjustments |-> ChangeOf(X[y], u)]
  OBVIOUS
<1>2. PICK G : G = [y \in Adjustments |-> ChangeOf(Y[y], u)]
  OBVIOUS
<1>3. F \in [Adjustments -> Int] /\ G \in [Adjustments -> Int]
  BY <1>1, <1>2 DEF Amounting, ChangeOf
<1>4. \A y \in Adjustments \ {x} : G[y] = F[y]
  BY <1>1, <1>2
<1>5. Differs(G, F, x, Adjustments)
  BY <1>3, <1>4, RecordsAreFinite DEF Differs
<1>6. /\ Total(G) = Total(F) - F[x] + G[x]
      /\ Total(F) \in Int /\ F[x] \in Int /\ G[x] \in Int
  BY ONLY <1>5, TotalDiffers
<1>7. /\ Change(X, u) = Total(F) /\ Change(Y, u) = Total(G)
      /\ F[x] = ChangeOf(X[x], u) /\ G[x] = ChangeOf(Y[x], u)
  BY <1>1, <1>2 DEF Change, ChangeOf
<1> QED BY <1>6, <1>7

LEMMA GainInt ==
  ASSUME NEW C, Rewarded(C), NEW u
  PROVE  Gain(C, u) \in Int
<1>1. PICK F : F = [d \in ClaimIds |-> GainOf(C[d], u)]
  OBVIOUS
<1>2. F \in [ClaimIds -> Int]
  BY <1>1 DEF Rewarded, GainOf
<1>3. Total(F) \in Int
  BY <1>2, RecordsAreFinite, TotalInt
<1> QED BY <1>1, <1>3 DEF Gain, GainOf

LEMMA ChangeInt ==
  ASSUME NEW X, Amounting(X), NEW u
  PROVE  Change(X, u) \in Int
<1>1. PICK F : F = [d \in Adjustments |-> ChangeOf(X[d], u)]
  OBVIOUS
<1>2. F \in [Adjustments -> Int]
  BY <1>1 DEF Amounting, ChangeOf
<1>3. Total(F) \in Int
  BY <1>2, RecordsAreFinite, TotalInt
<1> QED BY <1>1, <1>3 DEF Change, ChangeOf

(* A transfer moves Fate and makes none. *)
Transferred(g, f, from, to, amount) ==
  /\ g \in [Accounts -> Int] /\ Total(g) = Total(f)
  /\ g[from] = f[from] - amount /\ g[to] = f[to] + amount
  /\ \A a \in Accounts \ {from, to} : g[a] = f[a]

(* A transfer moves an amount between two accounts. *)
LEMMA TransferKeeps ==
  ASSUME NEW f \in [Accounts -> Int], NEW from \in Accounts, NEW to \in Accounts,
         from # to, NEW amount \in Int, NEW g, g = R!Transfer(f, from, to, amount)
  PROVE  Transferred(g, f, from, to, amount)
<1>2. /\ g \in [Accounts -> Int] /\ g[from] = f[from] - amount /\ g[to] = f[to] + amount
      /\ \A a \in Accounts \ {from, to} : g[a] = f[a]
  BY DEF R!Transfer
<1>3. PICK m : m = [f EXCEPT ![from] = f[from] - amount]
  OBVIOUS
<1>4. /\ m \in [Accounts -> Int] /\ m[from] = f[from] - amount
      /\ \A a \in Accounts \ {from} : m[a] = f[a]
  BY <1>3
<1>5. Differs(m, f, from, Accounts) /\ Differs(g, m, to, Accounts)
  BY <1>2, <1>4, AccountsAreFinite DEF Differs
<1>6. /\ Total(m) = Total(f) - f[from] + m[from] /\ Total(f) \in Int
      /\ f[from] \in Int
  BY ONLY <1>5, TotalDiffers
<1>7. Total(g) = Total(m) - m[to] + g[to] /\ m[to] \in Int
  BY ONLY <1>5, TotalDiffers
<1>8. Total(g) = Total(f)
  BY <1>2, <1>4, <1>6, <1>7
<1> QED BY <1>2, <1>8 DEF Transferred

-----------------------------------------------------------------------------
(* Balances and the records that explain them                              *)

(* What a member has been granted, has recovered and was adjusted by. *)
Credit(u) == R!Granted(u) + Gain(claims, u) + Change(adjusts, u)

(* Every balance is what the records say. *)
Matches ==
  /\ \A u \in Users : fate[u] = Credit(u) + Net(bets, u)
  /\ fate["ESCROW"] = Net(bets, "ESCROW") /\ fate["HOUSE"] = Net(bets, "HOUSE")
  /\ Total(fate) = 0

LEMMA RowFacts ==
  ASSUME PInv
  PROVE  /\ fate \in [Accounts -> Int] /\ known \subseteq Users
         /\ claims \in [ClaimIds -> RowsOf(Int)] /\ Rewarded(claims)
         /\ adjusts \in [Adjustments -> [state : {"none", "applied", "reversed"},
                                         user : Users \cup {"none"}, amount : Int]]
         /\ Amounting(adjusts)
<1>1. /\ fate \in [Accounts -> Int] /\ known \subseteq Users
      /\ claims \in [ClaimIds -> RowsOf(Int)]
      /\ adjusts \in [Adjustments -> [state : {"none", "applied", "reversed"},
                                      user : Users \cup {"none"}, amount : Int]]
  BY DEF PInv, R!TypeOK, R!Accounts, Accounts, RowsOf, ClaimStates
<1>2. Rewarded(claims)
  BY <1>1 DEF Rewarded, RowsOf
<1>3. Amounting(adjusts)
  BY <1>1 DEF Amounting
<1> QED BY <1>1, <1>2, <1>3

LEMMA RowFactsThen == PInv' =>
         /\ fate' \in [Accounts -> Int] /\ known' \subseteq Users
         /\ claims' \in [ClaimIds -> RowsOf(Int)] /\ Rewarded(claims')
         /\ Amounting(adjusts')
<1>1. PInv => /\ fate \in [Accounts -> Int] /\ known \subseteq Users
              /\ claims \in [ClaimIds -> RowsOf(Int)] /\ Rewarded(claims)
              /\ Amounting(adjusts)
  BY RowFacts
<1> DEFINE P == /\ fate \in [Accounts -> Int] /\ known \subseteq Users
                /\ claims \in [ClaimIds -> RowsOf(Int)] /\ Rewarded(claims)
                /\ Amounting(adjusts)
<1>2. PInv => P
  BY <1>1
<1>3. (PInv => P)'
  BY RowFacts, PTL
<1> QED BY <1>3

LEMMA CreditInt ==
  ASSUME PInv, NEW u \in Users
  PROVE  Credit(u) \in Int /\ R!Granted(u) \in Int
<1>1. Gain(claims, u) \in Int /\ Change(adjusts, u) \in Int
  BY RowFacts, GainInt, ChangeInt
<1>2. R!Granted(u) \in Int
  BY FateAssumption DEF R!RecoveryAssumption, R!Granted
<1> QED BY <1>1, <1>2 DEF Credit

LEMMA BanksAreAccounts ==
  /\ {"MINT", "BURN", "HOUSE", "ESCROW"} \subseteq Accounts
  /\ \A u \in Users : u \in Accounts /\ u \notin {"MINT", "BURN", "HOUSE", "ESCROW"}
  BY BanksAreNobody DEF Accounts

(* A step that moves a member's balance as the member's records say. *)
LEMMA CreditedMatches ==
  ASSUME PInv, Books, Matches, bets' = bets, Total(fate') = Total(fate),
         fate' \in [Accounts -> Int],
         NEW d \in Int, NEW u \in Users, fate'[u] = fate[u] + d, Credit(u)' = Credit(u) + d,
         \A v \in Users \ {u} : fate'[v] = fate[v] /\ Credit(v)' = Credit(v),
         fate'["ESCROW"] = fate["ESCROW"], fate'["HOUSE"] = fate["HOUSE"]
  PROVE  Matches'
<1>1. \A v \in Users : Net(bets, v) \in Int /\ Credit(v) \in Int
  BY NetInt, CreditInt, BanksAreAccounts DEF Books, Sound
<1>2. ASSUME NEW v \in Users PROVE fate'[v] = Credit(v)' + Net(bets, v)
  <2>1. fate[v] = Credit(v) + Net(bets, v)
    BY DEF Matches
  <2>2. CASE v = u
    BY <1>1, <2>1, <2>2
  <2>3. CASE v # u
    BY <2>1, <2>3
  <2> QED BY <2>2, <2>3
<1> QED BY <1>2 DEF Matches

LEMMA StillMatches ==
  ASSUME Matches, UNCHANGED <<fate, bets>>, \A u \in Users : Credit(u)' = Credit(u)
  PROVE  Matches'
  BY DEF Matches

LEMMA RewardsStay ==
  ASSUME UNCHANGED <<known, adjusts>>, \A c \in ClaimIds : \A u \in Users :
           GainOf(claims'[c], u) = GainOf(claims[c], u)
  PROVE  \A u \in Users : Credit(u)' = Credit(u)
<1> SUFFICES ASSUME NEW u \in Users PROVE Credit(u)' = Credit(u)
  OBVIOUS
<1>1. \A c \in ClaimIds : GainOf(claims'[c], u) = GainOf(claims[c], u)
  OBVIOUS
<1>2. Gain(claims', u) = Gain(claims, u)
  BY <1>1, GainSame
<1>3. R!Granted(u)' = R!Granted(u)
  BY DEF R!Granted
<1> QED BY <1>2, <1>3 DEF Credit

(* Claims that are started, ended without a reward, or wait. *)
LEMMA StartMatches ==
  ASSUME PInv, Matches, bets' = bets, NEW c \in ClaimIds, NEW u \in Users, NEW k, NEW reward,
         R!StartRecovery(c, u, k, reward)
  PROVE  Matches'
<1>1. claims \in [ClaimIds -> RowsOf(Int)] /\ UNCHANGED <<fate, known, adjusts>>
  BY RowFacts DEF R!StartRecovery
<1> DEFINE C == R!Closed(R!Pending(u, k))
<1>2. ASSUME NEW d \in ClaimIds, NEW v \in Users
      PROVE  GainOf(C[d], v) = GainOf(claims[d], v)
  <2>1. CASE d \in R!Pending(u, k)
    <3>1. claims[d].state = "pending" /\ C[d] = [claims[d] EXCEPT !.state = "expired"]
      BY <2>1 DEF R!Pending, R!Closed
    <3>2. C[d].state = "expired"
      BY <1>1, <3>1 DEF RowsOf
    <3> QED BY <3>1, <3>2 DEF GainOf
  <2>2. CASE d \notin R!Pending(u, k)
    BY <2>2 DEF R!Closed
  <2> QED BY <2>1, <2>2
<1>3. CASE claims' = C
  BY <1>1, <1>2, <1>3, RewardsStay, StillMatches
<1>4. CASE \E r : claims' = [C EXCEPT ![c] = r] /\ r.state = "pending"
  <2>1. PICK r : claims' = [C EXCEPT ![c] = r] /\ r.state = "pending"
    BY <1>4
  <2>2. claims[c].state = "none" /\ C = [d \in ClaimIds |-> C[d]]
    BY DEF R!StartRecovery, R!Closed
  <2> HIDE DEF C
  <2>3. claims'[c] = r /\ \A d \in ClaimIds \ {c} : claims'[d] = C[d]
    BY <2>1, <2>2
  <2>4. \A d \in ClaimIds : \A v \in Users : GainOf(claims'[d], v) = GainOf(claims[d], v)
    BY <1>2, <2>1, <2>2, <2>3 DEF GainOf
  <2> QED BY <1>1, <2>4, RewardsStay, StillMatches
<1> DEFINE r0 == [R!NoClaim EXCEPT !.state = "pending", !.user = u, !.kind = k,
                    !.left = Lifetime, !.reward = IF k = "trial" THEN reward ELSE 0]
<1>5. claims' = C \/ claims' = [C EXCEPT ![c] = r0]
  BY DEF R!StartRecovery
<1>6. r0.state = "pending"
  BY DEF R!NoClaim
<1> HIDE DEF C, r0
<1> QED BY <1>3, <1>4, <1>5, <1>6

LEMMA EndMatches ==
  ASSUME PInv, Matches, bets' = bets, UNCHANGED <<fate, known, adjusts>>,
         NEW c \in ClaimIds, NEW s \in {"expired", "abandoned"},
         claims[c].state = "pending", claims' = [claims EXCEPT ![c].state = s]
  PROVE  Matches'
<1>1. claims \in [ClaimIds -> RowsOf(Int)]
  BY RowFacts
<1>2. claims'[c].state = s /\ \A d \in ClaimIds \ {c} : claims'[d] = claims[d]
  BY <1>1 DEF RowsOf
<1>3. \A d \in ClaimIds : \A v \in Users : GainOf(claims'[d], v) = GainOf(claims[d], v)
  BY <1>2 DEF GainOf
<1> QED BY <1>3, RewardsStay, StillMatches

(* A reward that is paid. *)
LEMMA RewardMatches ==
  ASSUME PInv, PInv', Books, Matches, bets' = bets, UNCHANGED <<known, adjusts>>,
         NEW c \in ClaimIds, claims[c].state = "pending",
         claims' = [claims EXCEPT ![c] = R!Completed(c)],
         fate' = R!Transfer(fate, "MINT", claims[c].user, R!Reward(c))
  PROVE  Matches'
<1>0. PICK u \in Users : u = claims[c].user
  BY DEF PInv, Priced
<1>a. PICK r : r = R!Completed(c)
  OBVIOUS
<1>b. PICK p : p = R!Reward(c)
  OBVIOUS
<1>1. claims \in [ClaimIds -> RowsOf(Int)] /\ fate \in [Accounts -> Int]
  BY RowFacts
<1>2. r.state = "completed" /\ r.user = u /\ r.reward = p
  BY <1>0, <1>1, <1>a, <1>b DEF R!Completed, RowsOf
<1>3. claims'[c] = r /\ \A d \in ClaimIds \ {c} : claims'[d] = claims[d]
  BY <1>1, <1>a
<1>4. p \in Int
  <2>1. Rewarded(claims')
    BY RowFactsThen
  <2> QED BY <1>2, <1>3, <2>1 DEF Rewarded
<1>5. /\ fate' \in [Accounts -> Int] /\ Total(fate') = Total(fate)
      /\ fate'[u] = fate[u] + p
      /\ \A a \in Accounts \ {"MINT", u} : fate'[a] = fate[a]
  <2>1. "MINT" \in Accounts /\ u \in Accounts /\ u # "MINT"
    BY BanksAreAccounts
  <2>2. fate' = R!Transfer(fate, "MINT", u, p) /\ fate \in [Accounts -> Int]
    BY <1>0, <1>1, <1>b
  <2>3. Transferred(fate', fate, "MINT", u, p)
    BY <1>4, <2>1, <2>2, TransferKeeps
  <2> QED BY <2>3 DEF Transferred
<1>6. ASSUME NEW v \in Users
      PROVE  Credit(v)' = Credit(v) + (IF v = u THEN p ELSE 0)
  <2>1. Rewarded(claims) /\ Rewarded(claims')
    BY RowFacts, RowFactsThen
  <2>2. /\ Gain(claims', v) = Gain(claims, v) - GainOf(claims[c], v) + GainOf(claims'[c], v)
        /\ Gain(claims, v) \in Int
    <3>1. \A d \in ClaimIds \ {c} : claims'[d] = claims[d]
      BY <1>3
    <3> QED BY ONLY <2>1, <3>1, GainChanged
  <2>3. GainOf(claims[c], v) = 0 /\ GainOf(claims'[c], v) = IF v = u THEN p ELSE 0
    BY <1>0, <1>2, <1>3 DEF GainOf
  <2>4. R!Granted(v)' = R!Granted(v)
    BY DEF R!Granted
  <2>7. Change(adjusts', v) = Change(adjusts, v)
    OBVIOUS
  <2>5. R!Granted(v) \in Int /\ Change(adjusts, v) \in Int
    BY CreditInt, RowFacts, ChangeInt
  <2>6. Gain(claims', v) = Gain(claims, v) + (IF v = u THEN p ELSE 0)
    BY <1>4, <2>2, <2>3
  <2> QED BY <1>4, <2>2, <2>4, <2>5, <2>6, <2>7 DEF Credit
<1>7. fate'["ESCROW"] = fate["ESCROW"] /\ fate'["HOUSE"] = fate["HOUSE"]
  BY <1>1, <1>5, BanksAreAccounts
<1>8. \A v \in Users \ {u} : fate'[v] = fate[v] /\ Credit(v)' = Credit(v)
  <2>1. \A v \in Users : Credit(v) \in Int
    BY CreditInt
  <2> QED BY <1>5, <1>6, <2>1, BanksAreAccounts
<1>9. Credit(u)' = Credit(u) + p
  BY <1>1, <1>6
<1> QED BY <1>1, <1>4, <1>5, <1>7, <1>8, <1>9, CreditedMatches

-----------------------------------------------------------------------------
(* What each operation of Recovery does to a balance                       *)

(* An account and its grant. *)
LEMMA GrantMatches ==
  ASSUME PInv, Books, Matches, bets' = bets, NEW u \in Users, R!EnsureAccount(u)
  PROVE  Matches'
<1>1. /\ u \notin known /\ known' = known \cup {u} /\ UNCHANGED <<claims, adjusts>>
      /\ fate' = R!Transfer(fate, "MINT", u, Opening) /\ fate \in [Accounts -> Int]
  BY RowFacts DEF R!EnsureAccount
<1>2. Opening \in Int
  BY FateAssumption DEF R!RecoveryAssumption
<1>3. /\ fate' \in [Accounts -> Int] /\ Total(fate') = Total(fate)
      /\ fate'[u] = fate[u] + Opening
      /\ \A a \in Accounts \ {"MINT", u} : fate'[a] = fate[a]
  <2>1. "MINT" \in Accounts /\ u \in Accounts /\ u # "MINT"
    BY BanksAreAccounts
  <2>2. fate' = R!Transfer(fate, "MINT", u, Opening) /\ fate \in [Accounts -> Int]
    BY <1>1
  <2>3. Transferred(fate', fate, "MINT", u, Opening)
    BY <1>2, <2>1, <2>2, TransferKeeps
  <2> QED BY <2>3 DEF Transferred
<1>4. ASSUME NEW v \in Users
      PROVE  Credit(v)' = Credit(v) + (IF v = u THEN Opening ELSE 0)
  <2>1. Gain(claims', v) = Gain(claims, v) /\ Change(adjusts', v) = Change(adjusts, v)
    BY <1>1
  <2>2. Gain(claims, v) \in Int /\ Change(adjusts, v) \in Int /\ R!Granted(v) \in Int
    BY CreditInt, RowFacts, GainInt, ChangeInt
  <2>3. R!Granted(v)' = R!Granted(v) + (IF v = u THEN Opening ELSE 0)
    BY <1>1, <1>2 DEF R!Granted
  <2> QED BY <1>2, <2>1, <2>2, <2>3 DEF Credit
<1>5. fate'["ESCROW"] = fate["ESCROW"] /\ fate'["HOUSE"] = fate["HOUSE"]
  BY <1>3, BanksAreAccounts
<1>6. \A v \in Users \ {u} : fate'[v] = fate[v] /\ Credit(v)' = Credit(v)
  <2>1. \A v \in Users : Credit(v) \in Int
    BY CreditInt
  <2> QED BY <1>3, <1>4, <2>1, BanksAreAccounts
<1>7. Credit(u)' = Credit(u) + Opening
  BY <1>4
<1> QED BY <1>2, <1>3, <1>5, <1>6, <1>7, CreditedMatches

(* A change of the owner's adjustments with the transfer that goes with it. *)
LEMMA ChangeMatches ==
  ASSUME PInv, PInv', Books, Matches, bets' = bets, UNCHANGED <<known, claims>>,
         NEW x \in Adjustments, \A y \in Adjustments \ {x} : adjusts'[y] = adjusts[y],
         NEW d \in Int, ChangeOf(adjusts'[x], Owner) = ChangeOf(adjusts[x], Owner) + d,
         \A v \in Users \ {Owner} : ChangeOf(adjusts'[x], v) = ChangeOf(adjusts[x], v),
         fate' \in [Accounts -> Int], Total(fate') = Total(fate),
         fate'[Owner] = fate[Owner] + d,
         \A a \in Accounts \ {"MINT", "BURN", Owner} : fate'[a] = fate[a]
  PROVE  Matches'
<1>0. Owner \in Users
  BY FateAssumption DEF R!RecoveryAssumption
<1>1. ASSUME NEW v \in Users
      PROVE  /\ Change(adjusts', v) = Change(adjusts, v) - ChangeOf(adjusts[x], v)
                                                         + ChangeOf(adjusts'[x], v)
             /\ Change(adjusts, v) \in Int /\ ChangeOf(adjusts[x], v) \in Int
  <2>1. Amounting(adjusts) /\ Amounting(adjusts')
    BY RowFacts, RowFactsThen
  <2>2. \A y \in Adjustments \ {x} : adjusts'[y] = adjusts[y]
    OBVIOUS
  <2> QED BY ONLY <2>1, <2>2, x \in Adjustments, ChangeChanged
<1>2. ASSUME NEW v \in Users
      PROVE  Credit(v)' = Credit(v) + (IF v = Owner THEN d ELSE 0)
  <2>1. Gain(claims', v) = Gain(claims, v) /\ R!Granted(v)' = R!Granted(v)
    BY DEF R!Granted
  <2>2. Gain(claims, v) \in Int /\ R!Granted(v) \in Int
    BY CreditInt, RowFacts, GainInt
  <2>3. Change(adjusts', v) = Change(adjusts, v) + (IF v = Owner THEN d ELSE 0)
    BY <1>1
  <2> QED BY <1>1, <2>1, <2>2, <2>3 DEF Credit
<1>3. fate'["ESCROW"] = fate["ESCROW"] /\ fate'["HOUSE"] = fate["HOUSE"]
  BY <1>0, BanksAreAccounts
<1>4. \A v \in Users \ {Owner} : fate'[v] = fate[v] /\ Credit(v)' = Credit(v)
  <2>1. \A v \in Users : Credit(v) \in Int
    BY CreditInt
  <2> QED BY <1>2, <2>1, BanksAreAccounts
<1>5. Credit(Owner)' = Credit(Owner) + d
  BY <1>0, <1>2
<1> QED BY <1>0, <1>3, <1>4, <1>5, CreditedMatches

LEMMA AdjustMatches ==
  ASSUME PInv, PInv', Books, Matches, bets' = bets, NEW x \in Adjustments,
         NEW amount \in Amounts, R!Adjust(x, amount)
  PROVE  Matches'
<1>1. amount \in Int /\ Owner \in Users /\ fate \in [Accounts -> Int]
  BY RowFacts, FateAssumption DEF R!RecoveryAssumption
<1>2. /\ adjusts'[x] = [state |-> "applied", user |-> Owner, amount |-> amount]
      /\ \A y \in Adjustments \ {x} : adjusts'[y] = adjusts[y]
      /\ adjusts[x].state = "none" /\ UNCHANGED <<known, claims>>
      /\ \E bank \in {"MINT", "BURN"} : fate' = R!Transfer(fate, bank, Owner, amount)
  BY RowFacts DEF R!Adjust
<1>3. /\ fate' \in [Accounts -> Int] /\ Total(fate') = Total(fate)
      /\ fate'[Owner] = fate[Owner] + amount
      /\ \A a \in Accounts \ {"MINT", "BURN", Owner} : fate'[a] = fate[a]
  <2>1. PICK bank \in {"MINT", "BURN"} : fate' = R!Transfer(fate, bank, Owner, amount)
    BY <1>2
  <2>2. bank \in Accounts /\ Owner \in Accounts /\ bank # Owner
    BY <1>1, BanksAreAccounts
  <2>3. Transferred(fate', fate, bank, Owner, amount)
    BY <1>1, <2>1, <2>2, TransferKeeps
  <2> QED BY <2>1, <2>3 DEF Transferred
<1>4. ChangeOf(adjusts'[x], Owner) = ChangeOf(adjusts[x], Owner) + amount
  BY <1>1, <1>2 DEF ChangeOf
<1>5. \A v \in Users \ {Owner} : ChangeOf(adjusts'[x], v) = ChangeOf(adjusts[x], v)
  BY <1>2 DEF ChangeOf
<1> QED BY <1>1, <1>2, <1>3, <1>4, <1>5, ChangeMatches

LEMMA ReverseMatches ==
  ASSUME PInv, PInv', Books, Matches, bets' = bets, NEW x \in Adjustments,
         \A y \in Adjustments : adjusts[y].state = "applied" => adjusts[y].user = Owner,
         R!Reverse(x)
  PROVE  Matches'
<1>0. PICK amount : amount = adjusts[x].amount
  OBVIOUS
<1>1. amount \in Int /\ -amount \in Int /\ Owner \in Users /\ fate \in [Accounts -> Int]
  BY <1>0, RowFacts, FateAssumption DEF R!RecoveryAssumption, Amounting
<1>2. /\ adjusts'[x].state = "reversed"
      /\ \A y \in Adjustments \ {x} : adjusts'[y] = adjusts[y]
      /\ adjusts[x].state = "applied" /\ UNCHANGED <<known, claims>>
      /\ \E bank \in {"MINT", "BURN"} : fate' = R!Transfer(fate, Owner, bank, amount)
  BY <1>0, RowFacts DEF R!Reverse, R!Reversible
<1>3. /\ fate' \in [Accounts -> Int] /\ Total(fate') = Total(fate)
      /\ fate'[Owner] = fate[Owner] + (-amount)
      /\ \A a \in Accounts \ {"MINT", "BURN", Owner} : fate'[a] = fate[a]
  <2>1. PICK bank \in {"MINT", "BURN"} : fate' = R!Transfer(fate, Owner, bank, amount)
    BY <1>2
  <2>2. bank \in Accounts /\ Owner \in Accounts /\ bank # Owner
    BY <1>1, BanksAreAccounts
  <2>3. Transferred(fate', fate, Owner, bank, amount)
    BY <1>1, <2>1, <2>2, TransferKeeps
  <2>4. fate[Owner] \in Int
    BY <1>1, <2>2
  <2> QED BY <1>1, <2>1, <2>3, <2>4 DEF Transferred
<1>4. ChangeOf(adjusts'[x], Owner) = ChangeOf(adjusts[x], Owner) + (-amount)
  BY <1>0, <1>1, <1>2 DEF ChangeOf
<1>5. \A v \in Users \ {Owner} : ChangeOf(adjusts'[x], v) = ChangeOf(adjusts[x], v)
  BY <1>2 DEF ChangeOf
<1> QED BY <1>1, <1>2, <1>3, <1>4, <1>5, ChangeMatches

(* Adjustments are the owner's. *)
Owners == \A y \in Adjustments : adjusts[y].state = "applied" => adjusts[y].user = Owner

(* Adjustments are the owner's. *)
LEMMA OwnersStay ==
  ASSUME PInv, Owners, R!Steps
  PROVE  Owners'
<1>1. ASSUME NEW x \in Adjustments, NEW amount \in Amounts, R!Adjust(x, amount) PROVE Owners'
  BY <1>1, RowFacts DEF R!Adjust, Owners
<1>2. ASSUME NEW x \in Adjustments, R!Reverse(x) PROVE Owners'
  <2>1. adjusts' = [adjusts EXCEPT ![x].state = "reversed"]
    BY <1>2 DEF R!Reverse
  <2> QED BY <2>1, RowFacts DEF Owners
<1>3. CASE UNCHANGED adjusts
  BY <1>3 DEF Owners
<1> QED BY <1>1, <1>2, <1>3 DEF R!Steps, R!EnsureAccount, R!CompleteRecovery, R!Abandon, R!StartRecovery

(* Every operation of Recovery leaves records that explain the balances. *)
LEMMA RecoveriesMatch ==
  ASSUME PInv, PInv', Books, Matches, Owners, bets' = bets, R!Steps
  PROVE  Matches'
<1>1. ASSUME NEW c \in ClaimIds, R!CompleteRecovery(c) PROVE Matches'
  <2>1. claims[c].state = "pending" /\ UNCHANGED <<known, adjusts>>
    BY <1>1 DEF R!CompleteRecovery
  <2>2. CASE \E s \in {"expired", "abandoned"} :
               claims' = [claims EXCEPT ![c].state = s] /\ UNCHANGED <<fate, rested>>
    BY <2>1, <2>2, EndMatches
  <2>3. CASE /\ claims' = [claims EXCEPT ![c] = R!Completed(c)]
             /\ fate' = R!Transfer(fate, "MINT", claims[c].user, R!Reward(c))
    BY <2>1, <2>3, RewardMatches
  <2> QED BY <1>1, <2>2, <2>3 DEF R!CompleteRecovery
<1>2. ASSUME NEW c \in ClaimIds, R!Abandon(c) PROVE Matches'
  BY <1>2, EndMatches DEF R!Abandon
<1>3. ASSUME NEW c \in ClaimIds, NEW u \in Users, NEW k \in R!Kinds, NEW reward,
             R!StartRecovery(c, u, k, reward)
      PROVE  Matches'
  BY <1>3, StartMatches
<1>4. ASSUME NEW u \in Users, R!EnsureAccount(u) PROVE Matches'
  BY <1>4, GrantMatches
<1>5. ASSUME NEW x \in Adjustments, NEW amount \in Amounts, R!Adjust(x, amount) PROVE Matches'
  BY <1>5, AdjustMatches
<1>6. ASSUME NEW x \in Adjustments, R!Reverse(x) PROVE Matches'
  BY <1>6, ReverseMatches DEF Owners
<1> QED BY <1>1, <1>2, <1>3, <1>4, <1>5, <1>6 DEF R!Steps

-----------------------------------------------------------------------------
(* A play                                                                  *)

(* The record of a play. *)
Plays(b, u, t, c) ==
  \E due, of : b = [NoBet EXCEPT !.state = "open", !.template = t, !.user = u,
                                 !.choice = c, !.due = due, !.offer = of]

LEMMA PlayedFacts ==
  ASSUME NEW u \in Users, NEW t \in Templates, NEW c \in DOMAIN Profit[t], NEW b,
         Plays(b, u, t, c)
  PROVE  /\ Sound(b) /\ Placeable(b) /\ BetMoves(b) = FundEffect(b)
         /\ b.user = u /\ b.template = t
         /\ \A test : RiskOf(b, test) = IF Tested(u) = test /\ t \notin Recovers
                                        THEN Profit[t][c] ELSE 0
<1>1. /\ b.state = "open" /\ b.template = t /\ b.user = u /\ b.choice = c
      /\ b.cleaned = FALSE
  BY DEF NoBet, Plays
<1>2. Placeable(b) /\ Sound(b)
  BY <1>1 DEF Sound, Wagered, Placeable
<1>3. BetMoves(b) = FundEffect(b) /\ ProfitOf(b) = Profit[t][c]
  BY <1>1 DEF BetMoves, ProfitOf
<1>4. \A test : RiskOf(b, test) = IF Tested(u) = test /\ t \notin Recovers
                                  THEN Profit[t][c] ELSE 0
  BY <1>1, <1>3 DEF RiskOf, Counts
<1> QED BY <1>1, <1>2, <1>3, <1>4

(* What one wager that is played changes. *)
Played1(w, b) ==
  /\ w \in Bets /\ bets[w].state = "none" /\ bets' = [bets EXCEPT ![w] = b]
  /\ fate' = Plus(fate, FundEffect(b))

(* A play funds its wager from the member's balance. *)
LEMMA PlayIsKept ==
  ASSUME Books, NEW w, NEW b, Played1(w, b), Sound(b), Placeable(b), BetMoves(b) = FundEffect(b),
         fate[b.user] >= Stake[b.template]
  PROVE  Kept
<1>1. /\ w \in Bets /\ bets'[w] = b /\ \A v \in Bets \ {w} : bets'[v] = bets[v]
      /\ fate \in [Accounts -> Int] /\ \A v \in Bets : Sound(bets[v])
  BY DEF Played1, Books
<1>2. \A v \in Bets : Sound(bets'[v]) /\ Wagered(bets[v]) /\ Wagered(bets'[v])
  BY <1>1 DEF Sound
<1>3. PICK e : e = FundEffect(b)
  OBVIOUS
<1>4. /\ e \in [Accounts -> Int] /\ Total(e) = 0
      /\ \A u \in Users : e[u] = IF u = b.user THEN -Stake[b.template] ELSE 0
  BY <1>3, FundFacts
<1>5. fate' = Plus(fate, e)
  BY <1>3 DEF Played1
<1>6. /\ fate' \in [Accounts -> Int] /\ Total(fate') = Total(fate) + Total(e)
      /\ \A a \in Accounts : fate'[a] = fate[a] + e[a]
  BY <1>1, <1>4, <1>5, PlusFacts
<1>7. Total(fate') = Total(fate)
  <2>1. Total(fate) \in Int
    BY <1>1, AccountsAreFinite, TotalInt
  <2> QED BY <1>4, <1>6, <2>1
<1>8. ASSUME NEW a \in Accounts PROVE fate'[a] - Net(bets', a) = fate[a] - Net(bets, a)
  <2>1. /\ Net(bets', a) = Net(bets, a) - BetMoves(bets[w])[a] + BetMoves(bets'[w])[a]
        /\ Net(bets, a) \in Int /\ BetMoves(bets[w])[a] \in Int
    <3>1. \A v \in Bets : Wagered(bets[v]) /\ Wagered(bets'[v])
      BY <1>2
    <3>2. w \in Bets /\ \A v \in Bets \ {w} : bets'[v] = bets[v]
      BY <1>1
    <3> QED BY ONLY <3>1, <3>2, a \in Accounts, NetChanged
  <2>2. BetMoves(bets[w])[a] = 0 /\ BetMoves(bets'[w])[a] = e[a]
    BY <1>1, <1>3 DEF BetMoves, Effect, Played1
  <2>3. fate[a] \in Int /\ e[a] \in Int
    BY <1>1, <1>4
  <2> QED BY <1>6, <2>1, <2>2, <2>3
<1>9. ASSUME NEW u \in Users, fate[u] >= 0 PROVE fate'[u] >= 0
  <2>1. Stake[b.template] \in Nat /\ u \in Accounts
    BY AmountFacts, BanksAreAccounts
  <2>2. fate'[u] = fate[u] + e[u] /\ fate[u] \in Int
    BY <1>1, <1>6, <2>1
  <2> QED BY <1>4, <1>9, <2>1, <2>2
<1> QED BY <1>2, <1>6, <1>7, <1>8, <1>9 DEF Kept

LEMMA BooksTyped ==
  ASSUME Books, PInv, Reserved(offer)
  PROVE  AmountsTyped
<1>1. \A w \in Bets : BetMoves(bets[w]) \in [Accounts -> Int]
  BY MovesTyped DEF Books, Sound
<1>2. \A w \in Bets : bets[w].state = "open" => ProfitOf(bets[w]) \in Int
  BY AmountFacts DEF Books, Sound, Wagered
<1> QED BY <1>1, <1>2, RowFacts DEF AmountsTyped, Books, Reserved, Rewarded, Amounting

LEMMA ExposureIs ==
  ASSUME Books, PInv, Reserved(offer), NEW test \in BOOLEAN
  PROVE  /\ Exposure(test) = Risk(bets, test) + Aside(offer, test)
         /\ Risk(bets, test) \in Int /\ Aside(offer, test) \in Int
<1>1. Exposure(test) = Risk(bets, test) + Aside(offer, test)
  BY BooksTyped, CountedKnown DEF Counted
<1>2. Risk(bets, test) \in Int
  BY RiskInt DEF Books, Sound
<1>3. Aside(offer, test) \in Int
  <2>1. \A o \in Offers : AsideOf(offer[o], test) <= AsideOf(offer[o], test)
    BY DEF AsideOf, Reserved
  <2> QED BY <2>1, AsideBelow
<1> QED BY <1>1, <1>2, <1>3

LEMMA PlayRisks ==
  ASSUME Books, Reserved(offer), Reserved(offer'), NEW w \in Bets, NEW u \in Users,
         NEW t \in Templates, NEW c \in DOMAIN Profit[t], NEW o \in PlayChoices(t),
         CardsTyped, Play(w, u, t, c, o), NEW test \in BOOLEAN
  PROVE  /\ Kept
         /\ Risk(bets', test) = Risk(bets, test) + (IF Tested(u) = test /\ t \notin Recovers
                                                    THEN Profit[t][c] ELSE 0)
         /\ Aside(offer', test) = Aside(offer, test)
              - (IF t \in Offered /\ Tested(u) = test THEN offer[o].reserved ELSE 0)
         /\ Profit[t][c] \in Nat
         /\ t \in Offered => offer[o].reserved \in Nat
<1>1. PICK b : /\ Played1(w, b) /\ Sound(b) /\ Placeable(b) /\ BetMoves(b) = FundEffect(b)
               /\ b.user = u /\ b.template = t
               /\ RiskOf(b, test) = IF Tested(u) = test /\ t \notin Recovers
                                    THEN Profit[t][c] ELSE 0
  <2> DEFINE due == IF t \in Offered THEN offer[o].left + ResolveFor ELSE Window[t]
             of  == IF t \in Offered THEN o ELSE NoOffer
             b   == [NoBet EXCEPT !.state = "open", !.template = t, !.user = u,
                                  !.choice = c, !.due = due, !.offer = of]
  <2>1. Played1(w, b)
    BY DEF Play, Played1
  <2> HIDE DEF due, of
  <2>3. Plays(b, u, t, c)
    BY DEF Plays
  <2> HIDE DEF b
  <2>2. /\ Sound(b) /\ Placeable(b) /\ BetMoves(b) = FundEffect(b)
        /\ b.user = u /\ b.template = t
        /\ RiskOf(b, test) = IF Tested(u) = test /\ t \notin Recovers THEN Profit[t][c] ELSE 0
    BY <2>3, PlayedFacts
  <2> QED BY <2>1, <2>2
<1>2. /\ bets[w].state = "none" /\ bets'[w] = b /\ \A v \in Bets \ {w} : bets'[v] = bets[v]
  BY <1>1 DEF Played1, Books
<1>3. \A v \in Bets : Wagered(bets[v]) /\ Wagered(bets'[v])
  BY <1>1, <1>2 DEF Books, Sound
<1>4. Kept
  <2>1. ~(fate[u] < Stake[t])
    BY DEF Play, Refused
  <2>2. fate[u] \in Int /\ Stake[t] \in Nat
    BY HouseAssumption, BanksAreAccounts DEF HouseAssumption, Books
  <2>3. fate[b.user] >= Stake[b.template]
    BY <1>1, <2>1, <2>2
  <2> QED BY <1>1, <2>3, PlayIsKept
<1>5. Profit[t][c] \in Nat
  BY HouseAssumption DEF HouseAssumption
<1>6. Risk(bets', test) = Risk(bets, test) + (IF Tested(u) = test /\ t \notin Recovers
                                              THEN Profit[t][c] ELSE 0)
  <2>1. Risk(bets', test) = Risk(bets, test) - RiskOf(bets[w], test) + RiskOf(bets'[w], test)
    <3>1. \A v \in Bets \ {w} : bets'[v] = bets[v]
      BY <1>2
    <3> QED BY <1>3, <3>1, RiskChanged
  <2>2. RiskOf(bets[w], test) = 0
    BY <1>2 DEF RiskOf, Counts
  <2>3. Risk(bets, test) \in Int
    BY <1>3, RiskInt
  <2> QED BY <1>1, <1>2, <1>5, <2>1, <2>2, <2>3
<1>7. CASE t \notin Offered
  <2>1. offer' = offer
    BY <1>7 DEF Play
  <2>2. Aside(offer, test) \in Int
    <3>1. \A x \in Offers : AsideOf(offer[x], test) <= AsideOf(offer[x], test)
      BY DEF AsideOf, Reserved
    <3> QED BY <3>1, AsideBelow
  <2> QED BY <1>4, <1>5, <1>6, <1>7, <2>1, <2>2
<1>8. CASE t \in Offered
  <2>1. /\ o \in Offers /\ offer' = [offer EXCEPT ![o].state = "closed", ![o].reserved = 0]
        /\ offer[o].state = "open" /\ offer[o].test = Tested(u)
    BY <1>8 DEF PlayChoices, Play, CloseOffer, Refused, Takeable
  <2>2. offer \in [Offers -> OfferRows]
    BY DEF CardsTyped
  <2>3. offer'[o].state = "closed" /\ \A v \in Offers \ {o} : offer'[v] = offer[v]
    BY <2>1, <2>2 DEF OfferRows
  <2>4. /\ Aside(offer', test) = Aside(offer, test) - AsideOf(offer[o], test) + AsideOf(offer'[o], test)
        /\ Aside(offer, test) \in Int
    <3>1. \A v \in Offers \ {o} : offer'[v] = offer[v]
      BY <2>3
    <3>2. o \in Offers /\ Reserved(offer) /\ Reserved(offer')
      BY <2>1
    <3> QED BY ONLY <3>1, <3>2, AsideChanged
  <2>5. /\ AsideOf(offer'[o], test) = 0
        /\ AsideOf(offer[o], test) = IF Tested(u) = test THEN offer[o].reserved ELSE 0
        /\ offer[o].reserved \in Nat
    BY <2>1, <2>3 DEF AsideOf, Reserved
  <2> QED BY <1>4, <1>5, <1>6, <1>8, <2>4, <2>5
<1> QED BY <1>7, <1>8

(* A play that is not refused stays within the cap. *)
LEMMA PlayIsCapped ==
  ASSUME Books, PInv, Capped, CardsTyped, Reserved(offer), Reserved(offer'),
         NEW w \in Bets, NEW u \in Users, NEW t \in Templates, NEW c \in DOMAIN Profit[t],
         NEW o \in PlayChoices(t), Play(w, u, t, c, o)
  PROVE  Kept /\ Capped'
<1>1. Kept
  BY PlayRisks
<1>2. ASSUME NEW test \in BOOLEAN
      PROVE  Risk(bets', test) + Aside(offer', test) <= ExposureCap
  <2> DEFINE p == Profit[t][c]  s == offer[o].reserved
  <2>1. /\ Risk(bets', test) = Risk(bets, test) + (IF Tested(u) = test /\ t \notin Recovers
                                                   THEN p ELSE 0)
        /\ Aside(offer', test) = Aside(offer, test)
              - (IF t \in Offered /\ Tested(u) = test THEN s ELSE 0)
        /\ p \in Nat /\ (t \in Offered => s \in Nat)
    BY PlayRisks
  <2>2. /\ Exposure(test) = Risk(bets, test) + Aside(offer, test)
        /\ Risk(bets, test) \in Int /\ Aside(offer, test) \in Int
    BY ExposureIs
  <2>3. Risk(bets, test) + Aside(offer, test) <= ExposureCap /\ ExposureCap \in Int
    BY HouseAssumption DEF Capped, HouseAssumption
  <2>4. t \notin Recovers => ~(Exposure(Tested(u)) - (IF t \in Offered THEN s ELSE 0) > ExposureCap - p)
    BY DEF Play, Refused
  <2> HIDE DEF p, s
  <2>5. CASE Tested(u) = test /\ t \notin Recovers
    <3>1. ~(Exposure(test) - (IF t \in Offered THEN s ELSE 0) > ExposureCap - p)
      BY <2>4, <2>5
    <3> QED BY <2>1, <2>2, <2>3, <2>5, <3>1
  <2>6. CASE ~(Tested(u) = test /\ t \notin Recovers)
    BY <2>1, <2>2, <2>3, <2>6
  <2> QED BY <2>5, <2>6
<1> QED BY <1>1, <1>2 DEF Capped

-----------------------------------------------------------------------------
(* Every other step of the House                                           *)

LEMMA OffersSame == Reserved(offer) /\ offer' = offer => OffersFall
  BY DEF OffersFall, AsideOf, Reserved

LEMMA OfferEnds ==
  ASSUME Reserved(offer), NEW o \in Offers, offer'[o].state # "open",
         \A v \in Offers \ {o} : offer'[v] = offer[v]
  PROVE  OffersFall
<1> SUFFICES ASSUME NEW v \in Offers, NEW test \in BOOLEAN
             PROVE  AsideOf(offer'[v], test) <= AsideOf(offer[v], test)
  BY DEF OffersFall
<1>1. AsideOf(offer[v], test) \in Nat
  BY DEF AsideOf, Reserved
<1>2. CASE v = o
  BY <1>1, <1>2 DEF AsideOf
<1>3. CASE v # o
  BY <1>1, <1>3
<1> QED BY <1>2, <1>3

LEMMA OffersAge ==
  ASSUME CardsTyped, Reserved(offer), Tick
  PROVE  OffersFall
<1> SUFFICES ASSUME NEW v \in Offers, NEW test \in BOOLEAN
             PROVE  AsideOf(offer'[v], test) <= AsideOf(offer[v], test)
  BY DEF OffersFall
<1>1. AsideOf(offer[v], test) \in Nat
  BY DEF AsideOf, Reserved
<1> DEFINE left == Down(offer[v].left, -(Lag + 1))
<1>2. offer'[v] = offer[v] \/ offer'[v] = [offer[v] EXCEPT !.left = left]
  BY DEF Tick
<1> HIDE DEF left
<1>3. offer[v] \in OfferRows
  BY DEF CardsTyped
<1>4. /\ offer'[v].state = offer[v].state /\ offer'[v].test = offer[v].test
      /\ offer'[v].reserved = offer[v].reserved
  BY <1>2, <1>3 DEF OfferRows
<1>5. AsideOf(offer'[v], test) = AsideOf(offer[v], test)
  BY <1>4 DEF AsideOf
<1> QED BY <1>1, <1>5

(* An offer that is opened within the cap. *)
LEMMA OpeningIsCapped ==
  ASSUME Books, PInv, Capped, CardsTyped, Reserved(offer), Reserved(offer'), NEW o \in Offers,
         NEW kind \in BOOLEAN, NEW left, ~Blocked(kind), OpenOffer(o, kind, left),
         offer[o].state = "none", bets' = bets
  PROVE  Capped'
<1> DEFINE m == MaxProfit(OfferTemplate)
<1>1. /\ offer'[o] = [OpenedOffer(kind) EXCEPT !.left = left]
      /\ \A v \in Offers \ {o} : offer'[v] = offer[v]
  BY DEF OpenOffer, CardsTyped
<1>2. /\ offer'[o].state = "open" /\ offer'[o].test = kind /\ offer'[o].reserved = m
  BY <1>1 DEF OpenedOffer
<1>3. m \in Nat
  BY ReserveFacts
<1>4. ~(Exposure(kind) > ExposureCap - m)
  BY DEF Blocked
<1> HIDE DEF m
<1> SUFFICES ASSUME NEW test \in BOOLEAN
             PROVE  Risk(bets', test) + Aside(offer', test) <= ExposureCap
  BY DEF Capped
<1>5. /\ Aside(offer', test) = Aside(offer, test) - AsideOf(offer[o], test) + AsideOf(offer'[o], test)
  <2>1. /\ o \in Offers /\ Reserved(offer) /\ Reserved(offer')
        /\ \A v \in Offers \ {o} : offer'[v] = offer[v]
    BY <1>1
  <2> QED BY ONLY <2>1, AsideChanged
<1>6. AsideOf(offer[o], test) = 0 /\ AsideOf(offer'[o], test) = IF kind = test THEN m ELSE 0
  BY <1>2 DEF AsideOf
<1>7. /\ Exposure(test) = Risk(bets, test) + Aside(offer, test)
      /\ Risk(bets, test) \in Int /\ Aside(offer, test) \in Int
  BY ExposureIs
<1>8. Risk(bets, test) + Aside(offer, test) <= ExposureCap /\ ExposureCap \in Int
  BY HouseAssumption DEF Capped, HouseAssumption
<1>9. CASE kind = test
  <2>1. ~(Exposure(test) > ExposureCap - m)
    BY <1>4, <1>9
  <2> QED BY <1>3, <1>5, <1>6, <1>7, <1>8, <1>9, <2>1
<1>10. CASE kind # test
  BY <1>3, <1>5, <1>6, <1>7, <1>8, <1>10
<1> QED BY <1>9, <1>10

(* What the steps below have in common. *)
Falls == Kept /\ RiskFalls /\ OffersFall

LEMMA SettlementsFall ==
  ASSUME IInv, Books, Reserved(offer), SettleStep
  PROVE  Falls
<1>1. ASSUME ResolveDue PROVE Falls
  <2> DEFINE due == {w \in Bets : bets[w].due <= 0 /\ Tested(bets[w].user)}
  <2>1. Settle(due, DeadlineOutcome, DeadlineCause) /\ offer' = offer
    BY <1>1 DEF ResolveDue, offerVars
  <2>2. due \in SUBSET Bets
    OBVIOUS
  <2> HIDE DEF due
  <2> QED BY <2>1, <2>2, DeadlinesSettle, OffersSame DEF Falls
<1>2. ASSUME NEW w \in Bets, HandleDeadline(w) PROVE Falls
  <2>1. Settle({w}, DeadlineOutcome, DeadlineCause) /\ offer' = offer /\ {w} \in SUBSET Bets
    BY <1>2 DEF HandleDeadline, offerVars
  <2> QED BY <2>1, DeadlinesSettle, OffersSame DEF Falls
<1>3. ASSUME NEW w \in Bets, CleanupTest(w) PROVE Falls
  <2>1. offer' = offer
    BY <1>3 DEF CleanupTest, offerVars
  <2> QED BY <1>3, <2>1, CleanupIsKept, OffersSame DEF Falls
<1>4. ASSUME NEW w \in Bets, NEW outcome, NEW lag, ResolveOwner(w, outcome, lag) PROVE Falls
  <2>1. OwnerSettles({w}, outcome) /\ offer' = offer /\ {w} \in SUBSET Bets
    BY <1>4 DEF ResolveOwner, offerVars, OwnerSettles
  <2> QED BY <2>1, OwnerSettlement, OffersSame DEF Falls
<1> QED BY <1>1, <1>2, <1>3, <1>4 DEF SettleStep

LEMMA DrawsFall ==
  ASSUME IInv, Books, Reserved(offer), DrawStep
  PROVE  Falls
<1>1. ASSUME NEW u, NEW public, NEW test, NEW lag, Draw(u, public, test, lag) PROVE Falls
  <2>1. offer' = offer
    BY <1>1 DEF Draw, offerVars
  <2> QED BY <1>1, <2>1, DrawIsQuiet, OffersSame DEF Falls
<1>2. ASSUME NEW hit \in observing, ObserveDraw(hit) PROVE Falls
  <2>1. Settle(hit, DrawOutcome, DrawCause) /\ offer' = offer /\ hit \in SUBSET Bets
    BY <1>2 DEF ObserveDraw, offerVars, IInv, RestTyped
  <2> QED BY <2>1, DrawsSettle, OffersSame DEF Falls
<1>3. ASSUME NEW hit \in observing, ObserveFails(hit) PROVE Falls
  BY <1>3, StillIsQuiet, OffersSame DEF ObserveFails, offerVars, Falls
<1>4. ASSUME ReconcileDraws PROVE Falls
  <2> DEFINE S == {w \in Bets : bets[w].drawn}
  <2>1. Settle(S, DrawOutcome, DrawCause) /\ offer' = offer
    BY <1>4 DEF ReconcileDraws, offerVars
  <2>2. S \in SUBSET Bets
    OBVIOUS
  <2> HIDE DEF S
  <2> QED BY <2>1, <2>2, DrawsSettle, OffersSame DEF Falls
<1> QED BY <1>1, <1>2, <1>3, <1>4 DEF DrawStep

LEMMA JobsFall ==
  ASSUME Books, Reserved(offer),
         JobStep \/ Crash \/ (\E enabled \in BOOLEAN : Restart(enabled)) \/ UNCHANGED vars
  PROVE  Falls
<1>1. UNCHANGED <<fate, bets, offer>>
  BY DEF JobStep, ClaimJob, FailJob, RescheduleWeekly, Crash, Restart, vars, betVars, offerVars
<1> QED BY <1>1, StillIsQuiet, OffersSame DEF Falls

LEMMA TimeFalls ==
  ASSUME Books, CardsTyped, Reserved(offer), Tick
  PROVE  Falls
  BY TickIsQuiet, OffersAge DEF Falls

(* The steps of an offer, but its opening. *)
Ended(o) == /\ offer'[o].state # "open" /\ \A v \in Offers \ {o} : offer'[v] = offer[v]

LEMMA EndedFalls ==
  ASSUME Books, Reserved(offer), UNCHANGED <<fate, bets>>, NEW o \in Offers,
         offer' = offer \/ Ended(o)
  PROVE  Falls
<1>1. CASE offer' = offer
  BY <1>1, StillIsQuiet, OffersSame DEF Falls
<1>2. CASE Ended(o)
  BY <1>2, StillIsQuiet, OfferEnds DEF Falls, Ended
<1> QED BY <1>1, <1>2

LEMMA ClosingEnds ==
  ASSUME CardsTyped, NEW o \in Offers,
         \/ offer' = [offer EXCEPT ![o].state = "closed", ![o].reserved = 0]
         \/ offer' = [offer EXCEPT ![o].state = "skipped"]
         \/ offer' = [offer EXCEPT ![o].state = "skipped", ![o].test = TRUE]
  PROVE  Ended(o)
  BY DEF CardsTyped, OfferRows, Ended

LEMMA OfferStepsFall ==
  ASSUME IInv, Books, PInv, Capped, Reserved(offer), Reserved(offer'), NEW o \in Offers,
         \/ HandleOfferExpiry(o) \/ CloseUndeliverable(o) \/ InspectControl(o)
         \/ \E operational, quiet \in BOOLEAN : HandleWeekly(o, operational, quiet)
         \/ \E quiet \in BOOLEAN : OfferTest(o, quiet)
         \/ \E k \in {"create", "reminder"} :
              \/ ClaimRow(o, k) \/ SubmitRow(o, k)
              \/ \E answer \in {"delivered", "retry", "gone"} : AnswerRow(o, k, answer)
  PROVE  Falls \/ (Kept /\ Capped')
<1>0. CardsTyped
  BY DEF IInv, Cards
<1>1. CASE HandleOfferExpiry(o)
  <2>1. /\ UNCHANGED <<fate, bets>>
        /\ offer' = offer \/ offer' = [offer EXCEPT ![o].state = "closed", ![o].reserved = 0]
    BY <1>1 DEF HandleOfferExpiry, betVars, CloseOffer
  <2> QED BY <1>0, <2>1, ClosingEnds, EndedFalls
<1>2. CASE CloseUndeliverable(o)
  <2>1. /\ UNCHANGED <<fate, bets>>
        /\ offer' = [offer EXCEPT ![o].state = "closed", ![o].reserved = 0]
    BY <1>2 DEF CloseUndeliverable, betVars
  <2> QED BY <1>0, <2>1, ClosingEnds, EndedFalls
<1>3. CASE UNCHANGED <<fate, bets, offer>>
  BY <1>3, EndedFalls
<1>4. CASE \E operational, quiet \in BOOLEAN : HandleWeekly(o, operational, quiet)
  <2>1. /\ UNCHANGED <<fate, bets>> /\ offer[o].state = "none"
        /\ \/ offer' = [offer EXCEPT ![o].state = "skipped"]
           \/ ~Blocked(FALSE) /\ OpenOffer(o, FALSE, OfferLife + weekly.due)
    BY <1>4 DEF HandleWeekly, betVars
  <2>2. CASE offer' = [offer EXCEPT ![o].state = "skipped"]
    BY <1>0, <2>1, <2>2, ClosingEnds, EndedFalls
  <2>3. CASE ~Blocked(FALSE) /\ OpenOffer(o, FALSE, OfferLife + weekly.due)
    <3>1. Capped'
      BY <1>0, <2>1, <2>3, OpeningIsCapped
    <3>2. Kept
      BY <2>1, StillIsQuiet
    <3> QED BY <3>1, <3>2
  <2> QED BY <2>1, <2>2, <2>3
<1>5. CASE \E quiet \in BOOLEAN : OfferTest(o, quiet)
  <2>1. /\ UNCHANGED <<fate, bets>> /\ offer[o].state = "none"
        /\ \/ offer' = [offer EXCEPT ![o].state = "skipped", ![o].test = TRUE]
           \/ ~Blocked(TRUE) /\ OpenOffer(o, TRUE, OfferLife)
    BY <1>5 DEF OfferTest, betVars, Unused
  <2>2. CASE offer' = [offer EXCEPT ![o].state = "skipped", ![o].test = TRUE]
    BY <1>0, <2>1, <2>2, ClosingEnds, EndedFalls
  <2>3. CASE ~Blocked(TRUE) /\ OpenOffer(o, TRUE, OfferLife)
    <3>1. Capped'
      BY <1>0, <2>1, <2>3, OpeningIsCapped
    <3>2. Kept
      BY <2>1, StillIsQuiet
    <3> QED BY <3>1, <3>2
  <2> QED BY <2>1, <2>2, <2>3
<1>6. InspectControl(o) => UNCHANGED <<fate, bets, offer>>
  BY DEF InspectControl, betVars
<1>7. ASSUME NEW k \in {"create", "reminder"},
             \/ ClaimRow(o, k) \/ SubmitRow(o, k)
             \/ \E answer \in {"delivered", "retry", "gone"} : AnswerRow(o, k, answer)
      PROVE  UNCHANGED <<fate, bets, offer>>
  BY <1>7 DEF ClaimRow, SubmitRow, AnswerRow, betVars
<1> QED BY <1>1, <1>2, <1>3, <1>4, <1>5, <1>6, <1>7

-----------------------------------------------------------------------------
(* The ledger through every step of the House                              *)

LEMMA BooksThen == IInv' /\ Kept => Books'
  BY DEF IInv, Kept, Books

LEMMA FallsKeeps ==
  ASSUME IInv', Books, Reserved(offer), Reserved(offer'), Capped, Falls
  PROVE  Kept /\ Capped'
  BY BooksThen, FallingIsCapped DEF Falls

(* Each step of the House moves balances as its records say, within the cap. *)
LEMMA HouseKeepsLedger ==
  ASSUME IInv, IInv', Books, PInv, Capped, [Next]_vars
  PROVE  Kept /\ Capped'
<1>1. CardsTyped /\ CardsTyped'
  BY DEF IInv, Cards
<1>2. Reserved(offer) /\ Reserved(offer')
  <2>1. Reserved(offer)
    BY <1>1, OffersReserve
  <2>2. (CardsTyped => Reserved(offer))'
    BY OffersReserve, PTL
  <2> QED BY <1>1, <2>1, <2>2
<1>3. Falls => Kept /\ Capped'
  BY <1>2, FallsKeeps
<1>4. CASE PlayStep
  <2>1. PICK w \in Bets, u \in Users, t \in Templates :
               \E c \in DOMAIN Profit[t], o \in PlayChoices(t) : Play(w, u, t, c, o)
    BY <1>4 DEF PlayStep
  <2>2. PICK c \in DOMAIN Profit[t], o \in PlayChoices(t) : Play(w, u, t, c, o)
    BY <2>1
  <2> QED BY <1>1, <1>2, <2>2, PlayIsCapped
<1>5. CASE SettleStep
  BY <1>2, <1>3, <1>5, SettlementsFall
<1>6. CASE OfferStep
  <2>1. PICK o \in Offers :
         \/ HandleOfferExpiry(o) \/ CloseUndeliverable(o) \/ InspectControl(o)
         \/ \E operational, quiet \in BOOLEAN : HandleWeekly(o, operational, quiet)
         \/ \E quiet \in BOOLEAN : OfferTest(o, quiet)
         \/ \E k \in {"create", "reminder"} :
              \/ ClaimRow(o, k) \/ SubmitRow(o, k)
              \/ \E answer \in {"delivered", "retry", "gone"} : AnswerRow(o, k, answer)
    BY <1>6 DEF OfferStep
  <2>2. Falls \/ (Kept /\ Capped')
    BY <1>2, <2>1, OfferStepsFall
  <2> QED BY <1>3, <2>2
<1>7. CASE DrawStep
  BY <1>2, <1>3, <1>7, DrawsFall
<1>8. CASE JobStep \/ Crash \/ (\E enabled \in BOOLEAN : Restart(enabled)) \/ UNCHANGED vars
  BY <1>2, <1>3, <1>8, JobsFall
<1>9. CASE Tick
  BY <1>1, <1>2, <1>3, <1>9, TimeFalls
<1> QED BY <1>4, <1>5, <1>6, <1>7, <1>8, <1>9 DEF Next, Steps

(* Where the recoveries rest, the records that grant Fate stay.            *)
LEMMA KeptMatches ==
  ASSUME PInv, Books, Matches, Kept, Books', \A u \in Users : Credit(u)' = Credit(u)
  PROVE  Matches'
<1>1. \A a \in Accounts : Net(bets, a) \in Int /\ Net(bets', a) \in Int
  BY NetInt DEF Books, Sound
<1>2. ASSUME NEW u \in Users PROVE fate'[u] = Credit(u)' + Net(bets', u)
  <2>1. fate'[u] - Net(bets', u) = fate[u] - Net(bets, u)
    BY BanksAreAccounts DEF Kept
  <2>2. fate[u] = Credit(u) + Net(bets, u) /\ Credit(u) \in Int /\ Credit(u)' = Credit(u)
    BY CreditInt DEF Matches
  <2>3. fate'[u] \in Int /\ fate[u] \in Int /\ Net(bets, u) \in Int /\ Net(bets', u) \in Int
    BY <1>1, BanksAreAccounts DEF Books
  <2> HIDE DEF Credit
  <2> QED BY <2>1, <2>2, <2>3
<1>3. ASSUME NEW a \in {"ESCROW", "HOUSE"} PROVE fate'[a] = Net(bets', a)
  <2>1. fate'[a] - Net(bets', a) = fate[a] - Net(bets, a)
    BY BanksAreAccounts DEF Kept
  <2>2. fate[a] = Net(bets, a)
    BY DEF Matches
  <2>3. fate'[a] \in Int /\ fate[a] \in Int /\ Net(bets, a) \in Int /\ Net(bets', a) \in Int
    BY <1>1, BanksAreAccounts DEF Books
  <2> QED BY <2>1, <2>2, <2>3
<1>4. Total(fate') = 0
  BY DEF Kept, Matches
<1> QED BY <1>2, <1>3, <1>4 DEF Matches

(* The types of Recovery, its prices and nobody's debt. *)
LEMMA KeptPrices ==
  ASSUME PInv, Kept, UNCHANGED <<known, claims, adjusts, rested>>
  PROVE  PInv'
<1>1. R!TypeOK'
  BY DEF PInv, R!TypeOK, Kept, Accounts, R!Accounts
<1>2. Priced' /\ Solvent'
  BY DEF PInv, Priced, Solvent, Kept
<1> QED BY <1>1, <1>2 DEF PInv

-----------------------------------------------------------------------------
(* Attempts, cooldowns and faults                                          *)

(* A job that is claimed has used an attempt, which a deferral gives back. *)
Tried(r) == r.attempts \in 0..MaxAttempts /\ (r.state = "claimed" => r.attempts >= 1)

(* What TypeOK says beyond the records. *)
Counters ==
  /\ drawCool \in [Users -> Nat]
  /\ \A j \in Jobs : Tried(job[j])
  /\ run \in [up : BOOLEAN, enabled : BOOLEAN, faults : 0..Faults]

(* What a step may do to a job. *)
RowMove(q, r) ==
  \/ q = r \/ q = NewJob
  \/ \E s : s # "claimed" /\ q = [r EXCEPT !.state = s]
  \/ r.state = "claimed" /\ q = [state |-> "pending", attempts |-> r.attempts - 1]
  \/ ~(r.attempts >= MaxAttempts) /\ q = [state |-> "claimed", attempts |-> r.attempts + 1]

LEMMA RowMoveTried ==
  ASSUME NEW r \in JobRows, NEW q, Tried(r), RowMove(q, r)
  PROVE  Tried(q)
<1>0. MaxAttempts \in Nat /\ r.attempts \in 0..MaxAttempts
  BY HouseAssumption DEF HouseAssumption, Tried
<1>1. CASE q = r
  BY <1>1
<1>2. CASE q = NewJob
  BY <1>0, <1>2 DEF NewJob, Tried
<1>3. ASSUME NEW s, s # "claimed", q = [r EXCEPT !.state = s] PROVE Tried(q)
  <2>1. q.state = s /\ q.attempts = r.attempts
    BY <1>3 DEF JobRows
  <2> QED BY <1>0, <1>3, <2>1 DEF Tried
<1>4. CASE r.state = "claimed" /\ q = [state |-> "pending", attempts |-> r.attempts - 1]
  <2>1. q.state = "pending" /\ q.attempts = r.attempts - 1
    BY <1>4
  <2>2. r.attempts >= 1
    BY <1>4 DEF Tried
  <2> QED BY <1>0, <2>1, <2>2 DEF Tried
<1>5. CASE ~(r.attempts >= MaxAttempts)
           /\ q = [state |-> "claimed", attempts |-> r.attempts + 1]
  <2>1. q.state = "claimed" /\ q.attempts = r.attempts + 1
    BY <1>5
  <2> QED BY <1>0, <1>5, <2>1 DEF Tried
<1> QED BY <1>1, <1>2, <1>3, <1>4, <1>5 DEF RowMove

(* Every job moves so. *)
JobsMove == \A j \in Jobs : RowMove(job'[j], job[j])

LEMMA OneMoves ==
  ASSUME job \in [Jobs -> JobRows], NEW j \in Jobs, NEW q, RowMove(q, job[j]),
         job' = [job EXCEPT ![j] = q]
  PROVE  JobsMove
<1> SUFFICES ASSUME NEW i \in Jobs PROVE RowMove(job'[i], job[i])
  BY DEF JobsMove
<1>1. CASE i = j
  BY <1>1
<1>2. CASE i # j
  <2>1. job'[i] = job[i]
    BY <1>2
  <2> QED BY <2>1 DEF RowMove
<1> QED BY <1>1, <1>2

LEMMA NoneMoves == job' = job => JobsMove
  BY DEF JobsMove, RowMove

(* A job that is settled one way or the other. *)
LEMMA StateMoves ==
  ASSUME job \in [Jobs -> JobRows], NEW j \in Jobs, NEW s, s # "claimed",
         job' = [job EXCEPT ![j].state = s]
  PROVE  JobsMove
<1>1. job' = [job EXCEPT ![j] = [job[j] EXCEPT !.state = s]]
  OBVIOUS
<1>2. RowMove([job[j] EXCEPT !.state = s], job[j])
  BY DEF RowMove
<1> QED BY <1>1, <1>2, OneMoves

LEMMA NewMoves ==
  ASSUME job \in [Jobs -> JobRows], NEW j \in Jobs, job' = [job EXCEPT ![j] = NewJob]
  PROVE  JobsMove
<1>1. RowMove(NewJob, job[j])
  BY DEF RowMove
<1> QED BY <1>1, OneMoves

LEMMA DeferralMoves ==
  ASSUME job \in [Jobs -> JobRows], NEW j \in Jobs, job[j].state = "claimed",
         job' = [job EXCEPT ![j] = [state |-> "pending", attempts |-> @.attempts - 1]]
  PROVE  JobsMove
<1>1. RowMove([state |-> "pending", attempts |-> job[j].attempts - 1], job[j])
  BY DEF RowMove
<1> QED BY <1>1, OneMoves

LEMMA ClaimMoves ==
  ASSUME job \in [Jobs -> JobRows], NEW j \in Jobs, ClaimJob(j)
  PROVE  JobsMove
<1>1. CASE job[j].attempts >= MaxAttempts
  <2>1. job' = [job EXCEPT ![j].state = "dead"]
    BY <1>1 DEF ClaimJob
  <2> QED BY <2>1, StateMoves
<1>2. CASE ~(job[j].attempts >= MaxAttempts)
  <2>1. RowMove([state |-> "claimed", attempts |-> job[j].attempts + 1], job[j])
    BY <1>2 DEF RowMove
  <2>2. job' = [job EXCEPT ![j] = [state |-> "claimed", attempts |-> job[j].attempts + 1]]
    BY <1>2 DEF ClaimJob
  <2> QED BY <2>1, <2>2, OneMoves
<1> QED BY <1>1, <1>2

LEMMA FailMoves ==
  ASSUME job \in [Jobs -> JobRows], NEW j \in Jobs, FailJob(j)
  PROVE  JobsMove
<1>1. CASE job[j].attempts < MaxAttempts
  <2>1. job' = [job EXCEPT ![j].state = "pending"]
    BY <1>1 DEF FailJob
  <2> QED BY <2>1, StateMoves
<1>2. CASE ~(job[j].attempts < MaxAttempts)
  <2>1. job' = [job EXCEPT ![j].state = "dead"]
    BY <1>2 DEF FailJob
  <2> QED BY <2>1, StateMoves
<1> QED BY <1>1, <1>2

LEMMA PlayMoves ==
  ASSUME job \in [Jobs -> JobRows], NEW w \in Bets, NEW u, NEW t, NEW c,
         NEW o \in PlayChoices(t), Play(w, u, t, c, o)
  PROVE  JobsMove
<1>0. w \in Jobs
  BY DEF Jobs
<1>1. CASE t \notin Offered
  <2>1. job' = [job EXCEPT ![w] = NewJob]
    BY <1>1 DEF Play
  <2> QED BY <1>0, <2>1, NewMoves
<1>2. CASE t \in Offered
  <2>0. o \in Offers /\ o # w /\ o \in Jobs
    BY <1>2, HouseAssumption DEF PlayChoices, HouseAssumption, Jobs
  <2>1. PICK s : /\ s = job[o].state \/ s = "cancelled"
                 /\ job[o].state = "claimed" => s = "cancelled"
                 /\ job' = [job EXCEPT ![w] = NewJob, ![o].state = s]
    <3> DEFINE s == IF job[o].state \in {"pending", "claimed", "lapsed"} THEN "cancelled"
                    ELSE job[o].state
    <3>1. job' = [job EXCEPT ![w] = NewJob, ![o].state = s]
      BY <1>2, <2>0 DEF Play
    <3>2. s = job[o].state \/ s = "cancelled"
      OBVIOUS
    <3>3. job[o].state = "claimed" => s = "cancelled"
      OBVIOUS
    <3> HIDE DEF s
    <3> QED BY <3>1, <3>2, <3>3
  <2> SUFFICES ASSUME NEW i \in Jobs PROVE RowMove(job'[i], job[i])
    BY DEF JobsMove
  <2>2. CASE i = w
    <3>1. job'[i] = NewJob
      BY <2>0, <2>1, <2>2
    <3> QED BY <3>1 DEF RowMove
  <2>3. CASE i = o
    <3>1. job'[i] = [job[i] EXCEPT !.state = s] /\ s # "claimed"
      BY <2>0, <2>1, <2>3
    <3> QED BY <3>1 DEF RowMove
  <2>4. CASE i # w /\ i # o
    <3>1. job'[i] = job[i]
      BY <2>1, <2>4
    <3> QED BY <3>1 DEF RowMove
  <2> QED BY <2>2, <2>3, <2>4
<1> QED BY <1>1, <1>2

-----------------------------------------------------------------------------
(* Every step of the House, and its counters                               *)

LEMMA OfferStepMoves ==
  ASSUME job \in [Jobs -> JobRows], OfferStep
  PROVE  JobsMove
<1>1. PICK o \in Offers :
         \/ HandleOfferExpiry(o) \/ CloseUndeliverable(o) \/ InspectControl(o)
         \/ \E operational, quiet \in BOOLEAN : HandleWeekly(o, operational, quiet)
         \/ \E quiet \in BOOLEAN : OfferTest(o, quiet)
         \/ \E k \in {"create", "reminder"} :
              \/ ClaimRow(o, k) \/ SubmitRow(o, k)
              \/ \E answer \in {"delivered", "retry", "gone"} : AnswerRow(o, k, answer)
  BY DEF OfferStep
<1>2. o \in Jobs
  BY DEF Jobs
<1>3. CASE HandleOfferExpiry(o)
  <2>1. \/ job[o].state = "claimed"
           /\ job' = [job EXCEPT ![o] = [state |-> "pending", attempts |-> @.attempts - 1]]
        \/ job' = [job EXCEPT ![o].state = "completed"]
    BY <1>3 DEF HandleOfferExpiry
  <2> QED BY <1>2, <2>1, DeferralMoves, StateMoves
<1>4. CASE \/ job' = job
           \/ \E s : s # "claimed" /\ job' = [job EXCEPT ![o].state = s]
           \/ job' = [job EXCEPT ![o] = NewJob]
  BY <1>2, <1>4, NoneMoves, StateMoves, NewMoves
<1>5. CASE \E operational, quiet \in BOOLEAN : HandleWeekly(o, operational, quiet)
  <2>1. job' = job \/ job' = [job EXCEPT ![o] = NewJob]
    BY <1>5 DEF HandleWeekly
  <2> QED BY <1>4, <2>1
<1>6. CASE \E quiet \in BOOLEAN : OfferTest(o, quiet)
  <2>1. job' = job \/ job' = [job EXCEPT ![o] = NewJob]
    BY <1>6 DEF OfferTest
  <2> QED BY <1>4, <2>1
<1>7. CASE CloseUndeliverable(o) \/ InspectControl(o)
  <2>1. job' = job \/ \E s : s # "claimed" /\ job' = [job EXCEPT ![o].state = s]
    BY <1>7 DEF CloseUndeliverable, InspectControl
  <2> QED BY <1>4, <2>1
<1>8. ASSUME NEW k \in {"create", "reminder"},
             \/ ClaimRow(o, k) \/ SubmitRow(o, k)
             \/ \E answer \in {"delivered", "retry", "gone"} : AnswerRow(o, k, answer)
      PROVE  job' = job
  BY <1>8 DEF ClaimRow, SubmitRow, AnswerRow
<1> QED BY <1>1, <1>3, <1>4, <1>5, <1>6, <1>7, <1>8

LEMMA OtherMoves ==
  ASSUME job \in [Jobs -> JobRows],
         \/ SettleStep \/ DrawStep \/ Tick \/ Crash
         \/ (\E enabled \in BOOLEAN : Restart(enabled)) \/ UNCHANGED vars
  PROVE  JobsMove
<1>1. ASSUME NEW w \in Bets, HandleDeadline(w) PROVE JobsMove
  BY <1>1, StateMoves DEF HandleDeadline, Jobs
<1>2. CASE Crash
  <2> SUFFICES ASSUME NEW j \in Jobs PROVE RowMove(job'[j], job[j])
    BY DEF JobsMove
  <2>1. job'[j] = job[j] \/ job'[j] = [job[j] EXCEPT !.state = "lapsed"]
    BY <1>2 DEF Crash, Lapsed
  <2> QED BY <2>1 DEF RowMove
<1>3. ASSUME NEW enabled, Restart(enabled) PROVE JobsMove
  <2>1. Weekly \in Jobs /\ (job' = job \/ job' = [job EXCEPT ![Weekly] = NewJob])
    BY <1>3 DEF Restart, Jobs
  <2> QED BY <2>1, NoneMoves, NewMoves
<1>4. CASE job' = job
  BY <1>4, NoneMoves
<1>5. SettleStep => job' = job \/ \E w \in Bets : HandleDeadline(w)
  BY DEF SettleStep, ResolveDue, CleanupTest, ResolveOwner
<1>6. DrawStep \/ Tick \/ UNCHANGED vars => job' = job
  BY DEF DrawStep, Draw, ObserveDraw, ObserveFails, ReconcileDraws, Tick, vars
<1> QED BY <1>1, <1>2, <1>3, <1>4, <1>5, <1>6

LEMMA EveryMove ==
  ASSUME job \in [Jobs -> JobRows], [Next]_vars
  PROVE  JobsMove
<1>1. CASE PlayStep
  <2>1. PICK w \in Bets, u \in Users, t \in Templates :
               \E c \in DOMAIN Profit[t], o \in PlayChoices(t) : Play(w, u, t, c, o)
    BY <1>1 DEF PlayStep
  <2>2. PICK c \in DOMAIN Profit[t], o \in PlayChoices(t) : Play(w, u, t, c, o)
    BY <2>1
  <2> QED BY <2>2, PlayMoves
<1>2. CASE JobStep
  <2>1. ASSUME NEW o, RescheduleWeekly(o) PROVE JobsMove
    BY <2>1, DeferralMoves DEF RescheduleWeekly, Jobs
  <2> QED BY <1>2, <2>1, ClaimMoves, FailMoves DEF JobStep
<1> QED BY <1>1, <1>2, OfferStepMoves, OtherMoves DEF Next, Steps

LEMMA PlayLeaves == PlayStep => UNCHANGED <<run, drawCool>>
<1>1. ASSUME NEW w, NEW u, NEW t, NEW c, NEW o, Play(w, u, t, c, o)
      PROVE  UNCHANGED <<run, drawCool>>
  BY <1>1 DEF Play
<1> QED BY <1>1 DEF PlayStep

LEMMA SettleLeaves == SettleStep => UNCHANGED <<run, drawCool>>
<1>1. ResolveDue => UNCHANGED <<run, drawCool>>
  BY DEF ResolveDue
<1>2. ASSUME NEW w, HandleDeadline(w) \/ CleanupTest(w) PROVE UNCHANGED <<run, drawCool>>
  BY <1>2 DEF HandleDeadline, CleanupTest
<1>3. ASSUME NEW w, NEW outcome, NEW lag, ResolveOwner(w, outcome, lag)
      PROVE  UNCHANGED <<run, drawCool>>
  BY <1>3 DEF ResolveOwner
<1> QED BY <1>1, <1>2, <1>3 DEF SettleStep

LEMMA RunStays ==
  ASSUME Counters, [Next]_vars
  PROVE  run' \in [up : BOOLEAN, enabled : BOOLEAN, faults : 0..Faults]
<1>0. Faults \in Nat
  BY HouseAssumption DEF HouseAssumption
<1>1. run \in [up : BOOLEAN, enabled : BOOLEAN, faults : 0..Faults]
  BY DEF Counters
<1>2. run.faults < Faults => run.faults + 1 \in 0..Faults
  BY <1>0, <1>1
<1>3. CASE run' = run
  BY <1>1, <1>3
<1>4. CASE run.faults < Faults /\ run' = [run EXCEPT !.faults = run.faults + 1]
  BY <1>1, <1>2, <1>4
<1>5. CASE Crash
  <2>1. run.faults < Faults /\ run' = [run EXCEPT !.up = FALSE, !.faults = run.faults + 1]
    BY <1>5 DEF Crash
  <2> QED BY <1>1, <1>2, <2>1
<1>6. ASSUME NEW enabled \in BOOLEAN, Restart(enabled)
      PROVE  run' \in [up : BOOLEAN, enabled : BOOLEAN, faults : 0..Faults]
  BY <1>1, <1>6 DEF Restart
<1>7. ASSUME NEW j, FailJob(j) PROVE run.faults < Faults /\ run' = [run EXCEPT !.faults = run.faults + 1]
  BY <1>7 DEF FailJob
<1>8. ASSUME NEW o, NEW k, NEW answer, AnswerRow(o, k, answer)
      PROVE  \/ run' = run
             \/ run.faults < Faults /\ run' = [run EXCEPT !.faults = run.faults + 1]
  BY <1>8 DEF AnswerRow
<1>9. PlayStep \/ SettleStep \/ UNCHANGED vars => run' = run
  BY PlayLeaves, SettleLeaves DEF vars
<1>12. DrawStep \/ Tick => run' = run
  BY DEF DrawStep, Draw, ObserveDraw, ObserveFails, ReconcileDraws, Tick
<1>10. JobStep => run' = run \/ \E j \in Jobs : FailJob(j)
  BY DEF JobStep, ClaimJob, RescheduleWeekly
<1>11. OfferStep => \/ run' = run
                    \/ \E o \in Offers, k \in {"create", "reminder"},
                          answer \in {"delivered", "retry", "gone"} : AnswerRow(o, k, answer)
  BY DEF OfferStep, HandleOfferExpiry, CloseUndeliverable, InspectControl, HandleWeekly,
         OfferTest, ClaimRow, SubmitRow
<1> QED BY <1>3, <1>4, <1>5, <1>6, <1>7, <1>8, <1>9, <1>10, <1>11, <1>12 DEF Next, Steps

LEMMA CoolStays ==
  ASSUME drawCool \in [Users -> Nat], [Next]_vars
  PROVE  drawCool' \in [Users -> Nat]
<1>1. ASSUME NEW u, NEW public, NEW test, NEW lag, Draw(u, public, test, lag)
      PROVE  drawCool' \in [Users -> Nat]
  <2>1. DrawCooldown \in Nat
    BY HouseAssumption DEF HouseAssumption
  <2>2. drawCool' = IF test THEN drawCool ELSE [drawCool EXCEPT ![u] = DrawCooldown]
    BY <1>1 DEF Draw
  <2> QED BY <2>1, <2>2
<1>2. CASE Tick
  BY <1>2 DEF Tick, Down
<1>3. PlayStep \/ SettleStep \/ UNCHANGED vars => drawCool' = drawCool
  BY PlayLeaves, SettleLeaves DEF vars, betVars
<1>4. JobStep \/ Crash \/ (\E enabled \in BOOLEAN : Restart(enabled)) => drawCool' = drawCool
  BY DEF JobStep, ClaimJob, FailJob, RescheduleWeekly, Crash, Restart, betVars
<1>5. OfferStep => drawCool' = drawCool
  BY DEF OfferStep, HandleOfferExpiry, CloseUndeliverable, InspectControl, HandleWeekly,
         OfferTest, ClaimRow, SubmitRow, AnswerRow, betVars
<1>6. DrawStep => \/ drawCool' = drawCool
                  \/ \E u \in Users, public \in BOOLEAN, test \in BOOLEAN, lag \in Stamps :
                       Draw(u, public, test, lag)
  BY DEF DrawStep, ObserveDraw, ObserveFails, ReconcileDraws, betVars
<1> QED BY <1>1, <1>2, <1>3, <1>4, <1>5, <1>6 DEF Next, Steps

LEMMA CountersStay ==
  ASSUME job \in [Jobs -> JobRows], Counters, [Next]_vars
  PROVE  Counters'
<1>1. \A j \in Jobs : Tried(job'[j])
  BY EveryMove, RowMoveTried DEF Counters, JobsMove
<1>2. drawCool' \in [Users -> Nat]
  BY CoolStays DEF Counters
<1> QED BY <1>1, <1>2, RunStays DEF Counters

-----------------------------------------------------------------------------
(* The invariant of the shared ledger                                      *)

(* What the invariant of the House lacks to account for every balance: the *)
(* books, the prices of Recovery, that records explain balances, the cap, and *)
(* the counters.                                                           *)
Audited == Books /\ PInv /\ Matches /\ Capped /\ Owners /\ Counters

LInv == IInv /\ Audited

LEMMA AccountsMatch == R!Accounts = Accounts
  BY DEF R!Accounts, Accounts

LEMMA NothingAdds ==
  ASSUME NEW S, IsFiniteSet(S), NEW F, F = [x \in S |-> 0]
  PROVE  Total(F) = 0
<1>1. \A x \in S : F[x] = 0
  OBVIOUS
<1> QED BY <1>1, TotalZero

(* An empty ledger is in order. *)
LEMMA AuditBegins ==
  ASSUME FateInit
  PROVE  Audited
<1>1. PInv
  BY PricesBegin DEF FateInit
<1>2. /\ fate = [a \in Accounts |-> 0] /\ known = {}
      /\ claims = [c \in ClaimIds |-> R!NoClaim] /\ adjusts = [x \in Adjustments |-> R!NoAdjust]
      /\ bets = [w \in Bets |-> NoBet]
      /\ offer = [o \in Offers |-> [state |-> "none", left |-> 0, test |-> FALSE, reserved |-> 0]]
  BY AccountsMatch DEF FateInit, HouseInit, R!Init, R!NoClaims
<1>3. Books
  <2>1. bets \in [Bets -> BetRecords]
    BY InitPlaced DEF FateInit, IInv
  <2>2. \A w \in Bets : bets[w] = NoBet
    BY <1>2
  <2>3. NoBet.state = "none"
    BY DEF NoBet
  <2>4. \A w \in Bets : Sound(bets[w])
    BY <2>2, <2>3 DEF Sound, Wagered
  <2> QED BY <1>2, <2>1, <2>4 DEF Books
<1>4. ASSUME NEW a \in Accounts PROVE Net(bets, a) = 0
  <2>1. \A w \in Bets : BetMoves(bets[w])[a] = 0
    <3>1. BetMoves(NoBet) = [b \in Accounts |-> 0]
      BY DEF BetMoves, NoBet, Effect
    <3> QED BY <1>2, <3>1
  <2>2. [w \in Bets |-> BetMoves(bets[w])[a]] = [w \in Bets |-> 0]
    BY <2>1
  <2> QED BY <2>2, TablesAreFinite, NothingAdds DEF Net
<1>5. ASSUME NEW u \in Users PROVE Credit(u) = 0
  <2>1. Gain(claims, u) = 0
    <3>1. \A c \in ClaimIds : claims[c].state = "none"
      BY <1>2 DEF R!NoClaim
    <3>2. [c \in ClaimIds |-> IF claims[c].user = u /\ claims[c].state = "completed"
                              THEN claims[c].reward ELSE 0] = [c \in ClaimIds |-> 0]
      BY <3>1
    <3> QED BY <3>2, RecordsAreFinite, NothingAdds DEF Gain
  <2>2. Change(adjusts, u) = 0
    <3>1. \A x \in Adjustments : adjusts[x].state = "none"
      BY <1>2 DEF R!NoAdjust
    <3>2. [x \in Adjustments |-> IF adjusts[x].user = u /\ adjusts[x].state = "applied"
                                 THEN adjusts[x].amount ELSE 0] = [x \in Adjustments |-> 0]
      BY <3>1
    <3> QED BY <3>2, RecordsAreFinite, NothingAdds DEF Change
  <2>3. R!Granted(u) = 0
    BY <1>2 DEF R!Granted
  <2> QED BY <2>1, <2>2, <2>3 DEF Credit
<1>6. Matches
  <2>1. Total(fate) = 0
    BY <1>2, AccountsAreFinite, NothingAdds
  <2>2. \A u \in Users : fate[u] = Credit(u) + Net(bets, u)
    BY <1>2, <1>4, <1>5, BanksAreAccounts
  <2>3. fate["ESCROW"] = Net(bets, "ESCROW") /\ fate["HOUSE"] = Net(bets, "HOUSE")
    BY <1>2, <1>4, BanksAreAccounts
  <2> QED BY <2>1, <2>2, <2>3 DEF Matches
<1>7. ASSUME NEW test \in BOOLEAN PROVE Risk(bets, test) + Aside(offer, test) <= ExposureCap
  <2>1. Risk(bets, test) = 0
    <3>1. \A w \in Bets : bets[w].state = "none"
      BY <1>2 DEF NoBet
    <3>2. [w \in Bets |-> IF Counts(bets[w], test) THEN ProfitOf(bets[w]) ELSE 0]
            = [w \in Bets |-> 0]
      BY <3>1 DEF Counts
    <3> QED BY <3>2, TablesAreFinite, NothingAdds DEF Risk
  <2>2. Aside(offer, test) = 0
    <3>1. \A o \in Offers : offer[o].state = "none"
      BY <1>2
    <3>2. [o \in Offers |-> IF offer[o].state = "open" /\ offer[o].test = test
                            THEN offer[o].reserved ELSE 0] = [o \in Offers |-> 0]
      BY <3>1
    <3> QED BY <3>2, TablesAreFinite, NothingAdds DEF Aside
  <2>3. ExposureCap \in Nat
    BY HouseAssumption DEF HouseAssumption
  <2> QED BY <2>1, <2>2, <2>3
<1>8. Capped
  BY <1>7 DEF Capped
<1>9. Owners
  <2>1. \A x \in Adjustments : adjusts[x].state = "none"
    BY <1>2 DEF R!NoAdjust
  <2> QED BY <2>1 DEF Owners
<1>10. Counters
  <2>1. /\ drawCool = [u \in Users |-> 0] /\ run = [up |-> TRUE, enabled |-> TRUE, faults |-> 0]
        /\ \A j \in Jobs : job[j] = NewJob \/ job[j] = NoJob
    BY DEF FateInit, HouseInit
  <2>2. MaxAttempts \in Nat /\ Faults \in Nat
    BY HouseAssumption DEF HouseAssumption
  <2>3. \A j \in Jobs : Tried(job[j])
    BY <2>1, <2>2 DEF Tried, NewJob, NoJob
  <2> QED BY <2>1, <2>2, <2>3 DEF Counters
<1> QED BY <1>1, <1>3, <1>6, <1>8, <1>9, <1>10 DEF Audited

-----------------------------------------------------------------------------
(* The invariant through every step                                        *)

(* Whatever is paid lifts a member who is poor. *)
PaidRight == \A c \in ClaimIds : R!Pays(c) => Lifts(c)

LEMMA CreditStays ==
  UNCHANGED <<known, claims, adjusts>> => \A u \in Users : Credit(u)' = Credit(u)
  BY DEF Credit, R!Granted, Gain, Change

LEMMA HouseAudited ==
  ASSUME IInv, IInv', Audited, [Next]_vars, UNCHANGED <<known, claims, adjusts, rested>>
  PROVE  Audited' /\ PaidRight
<1>1. Kept /\ Capped'
  BY HouseKeepsLedger DEF Audited
<1>2. Books'
  BY <1>1, BooksThen
<1>3. PInv'
  BY <1>1, KeptPrices DEF Audited
<1>4. Matches'
  BY <1>1, <1>2, CreditStays, KeptMatches DEF Audited
<1>5. Owners'
  BY DEF Audited, Owners
<1>6. Counters'
  BY CountersStay DEF Audited, IInv, RestTyped
<1>7. PaidRight
  BY DEF PaidRight, R!Pays
<1> QED BY <1>1, <1>2, <1>3, <1>4, <1>5, <1>6, <1>7 DEF Audited

LEMMA RecoveriesAudited ==
  ASSUME IInv', Audited, R!Steps, UNCHANGED <<bets, drawCool, offer, job, run>>
  PROVE  Audited' /\ PaidRight
<1>1. PInv' /\ PaidRight
  BY RecoveriesKeepPrices DEF Audited, R!Next, PaidRight
<1>2. Matches'
  BY <1>1, RecoveriesMatch DEF Audited
<1>3. Books'
  BY <1>1, AccountsMatch DEF Audited, Books, PInv, R!TypeOK
<1>4. Capped' /\ Counters'
  BY DEF Audited, Capped, Counters
<1>5. Owners'
  BY OwnersStay DEF Audited
<1> QED BY <1>1, <1>2, <1>3, <1>4, <1>5 DEF Audited

LEMMA TimeAudited ==
  ASSUME IInv, IInv', Audited, Pass
  PROVE  Audited' /\ PaidRight
<1>1. Kept /\ Capped'
  BY HouseKeepsLedger DEF Audited, Pass, Next
<1>2. PInv' /\ PaidRight
  BY RecoveriesKeepPrices DEF Audited, Pass, R!Next, PaidRight
<1>3. Books'
  BY <1>1, BooksThen
<1>4. \A u \in Users : Credit(u)' = Credit(u)
  <2>1. \A c \in ClaimIds : \A u \in Users : GainOf(claims'[c], u) = GainOf(claims[c], u)
    <3> SUFFICES ASSUME NEW c \in ClaimIds, NEW u \in Users
                 PROVE  GainOf(claims'[c], u) = GainOf(claims[c], u)
      OBVIOUS
    <3>1. claims'[c] = [claims[c] EXCEPT !.left = R!Down(claims[c].left),
                                         !.rest = R!Down(claims[c].rest)]
      BY DEF Pass, R!Tick
    <3>2. claims[c] \in RowsOf(Int)
      BY RowFacts DEF Audited
    <3>3. /\ claims'[c].state = claims[c].state /\ claims'[c].user = claims[c].user
          /\ claims'[c].reward = claims[c].reward
      BY <3>1, <3>2 DEF RowsOf
    <3> QED BY <3>3 DEF GainOf
  <2> QED BY <2>1, RewardsStay DEF Pass, R!Tick
<1>5. Matches'
  BY <1>1, <1>3, <1>4, KeptMatches DEF Audited
<1>6. Owners'
  BY DEF Audited, Owners, Pass, R!Tick
<1>7. Counters'
  BY CountersStay DEF Audited, IInv, RestTyped, Pass, Next
<1> QED BY <1>1, <1>2, <1>3, <1>5, <1>6, <1>7 DEF Audited

LEMMA AuditStays ==
  ASSUME LInv, [FateNext]_fateVars
  PROVE  LInv' /\ PaidRight
<1>0. IInv'
  BY IInvStays DEF LInv
<1>1. CASE HouseStep
  <2>1. [Next]_vars /\ UNCHANGED <<known, claims, adjusts, rested>>
    BY <1>1 DEF HouseStep, Next
  <2> QED BY <1>0, <2>1, HouseAudited DEF LInv
<1>2. CASE RecoveryStep
  <2>1. R!Steps /\ UNCHANGED <<bets, drawCool, offer, job, run>>
    BY <1>2 DEF RecoveryStep, betVars, offerVars
  <2> QED BY <1>0, <2>1, RecoveriesAudited DEF LInv
<1>3. CASE Pass
  BY <1>0, <1>3, TimeAudited DEF LInv
<1>4. CASE UNCHANGED fateVars
  <2>1. [Next]_vars /\ UNCHANGED <<known, claims, adjusts, rested>>
    BY <1>4 DEF fateVars
  <2> QED BY <1>0, <2>1, HouseAudited DEF LInv
<1> QED BY <1>1, <1>2, <1>3, <1>4 DEF FateNext

-----------------------------------------------------------------------------
(* What the invariant promises                                             *)

(* What is in order is what the specification promises. *)
LEMMA AuditHolds ==
  ASSUME LInv
  PROVE  TypesOK /\ LedgersHold
<1>1. Reserved(offer)
  BY OffersReserve DEF LInv, IInv, Cards
<1>2. AmountsTyped
  BY <1>1, BooksTyped DEF LInv, Audited
<1>3. /\ \A a \in Accounts : HouseNet(a) = Net(bets, a)
      /\ Whole = Total(fate)
      /\ \A u \in Users : R!Recovered(u) = Gain(claims, u) /\ R!Adjusted(u) = Change(adjusts, u)
  BY <1>2, CountedKnown DEF Counted
<1>4. OneLedger
  <2>1. ASSUME NEW u \in Users PROVE fate[u] = R!RecoveryNet(u) + HouseNet(u) /\ fate[u] >= 0
    <3>1. R!RecoveryNet(u) = Credit(u)
      BY <1>3 DEF R!RecoveryNet, Credit
    <3>2. HouseNet(u) = Net(bets, u)
      BY <1>3, BanksAreAccounts
    <3>3. fate[u] = Credit(u) + Net(bets, u) /\ fate[u] >= 0
      BY DEF LInv, Audited, Matches, PInv, Solvent
    <3> QED BY <3>1, <3>2, <3>3
  <2>2. fate["ESCROW"] = HouseNet("ESCROW") /\ fate["HOUSE"] = HouseNet("HOUSE")
    BY <1>3, BanksAreAccounts DEF LInv, Audited, Matches
  <2>3. Whole = 0
    BY <1>3 DEF LInv, Audited, Matches
  <2> QED BY <2>1, <2>2, <2>3 DEF OneLedger, Whole
<1>5. ExposureWithinCap
  <2> SUFFICES ASSUME NEW test \in BOOLEAN PROVE Exposure(test) <= ExposureCap
    BY DEF ExposureWithinCap
  <2>1. Exposure(test) = Risk(bets, test) + Aside(offer, test)
    BY <1>1, ExposureIs DEF LInv, Audited
  <2> QED BY <2>1 DEF LInv, Audited, Capped
<1>6. TypeOK
  <2>1. \A o \in Offers : /\ offer[o].reserved \in Nat /\ offer[o].left \in Int
                          /\ offer[o].state \in {"none", "open", "closed", "skipped"}
                          /\ offer[o].test \in BOOLEAN
                          /\ offer[o] = [state |-> offer[o].state, left |-> offer[o].left,
                                         test |-> offer[o].test, reserved |-> offer[o].reserved]
    BY <1>1 DEF LInv, IInv, Cards, CardsTyped, OfferRows, Reserved
  <2>2. offer \in [Offers -> [state : {"none", "open", "closed", "skipped"},
                              left : Int, test : BOOLEAN, reserved : Nat]]
    BY <2>1 DEF LInv, IInv, Cards, CardsTyped
  <2>3. job \in [Jobs -> [state : {"none", "pending", "claimed", "lapsed",
                                   "completed", "cancelled", "dead"},
                          attempts : 0 .. MaxAttempts]]
    <3>1. job \in [Jobs -> JobRows] /\ \A j \in Jobs : job[j].attempts \in 0..MaxAttempts
      BY DEF LInv, IInv, RestTyped, Audited, Counters, Tried
    <3>2. ASSUME NEW j \in Jobs
          PROVE  job[j] \in [state : {"none", "pending", "claimed", "lapsed",
                                      "completed", "cancelled", "dead"},
                             attempts : 0 .. MaxAttempts]
      <4>1. job[j] \in JobRows
        BY <3>1
      <4> QED BY <3>1, <4>1 DEF JobRows
    <3> QED BY <3>1, <3>2
  <2>4. fate \in [Accounts -> Int] /\ bets \in [Bets -> BetRecords] /\ observing \subseteq SUBSET Bets
    BY DEF LInv, Audited, Books, IInv, RestTyped
  <2>5. /\ control \in [Offers -> {"none", "active", "cancelled"}] /\ edited \subseteq Offers
        /\ row \in [Offers -> [{"create", "reminder"} -> RowStates]]
        /\ weekly \in [slot : Offers \cup {NoOffer}, due : Int]
    BY DEF LInv, IInv, RestTyped, Cards, CardsTyped, Kinds
  <2>6. /\ drawCool \in [Users -> Nat]
        /\ run \in [up : BOOLEAN, enabled : BOOLEAN, faults : 0 .. Faults]
    BY DEF LInv, Audited, Counters
  <2> QED BY <2>2, <2>3, <2>4, <2>5, <2>6 DEF TypeOK
<1>7. R!TypeOK
  BY DEF LInv, Audited, PInv
<1> QED BY <1>4, <1>5, <1>6, <1>7 DEF TypesOK, LedgersHold

(* Every record of the House and of the recoveries keeps its type however  *)
(* their operations, crashes and retries interleave: no job is attempted   *)
(* more often than allowed (claim_due_job, fail_job, defer_job), no cooldown *)
(* or reserve is negative.                                                 *)
THEOREM TypesAreKept == FateSpec => []TypesOK
<1>1. FateInit => LInv
  BY InitPlaced, AuditBegins DEF LInv, FateInit
<1>2. LInv /\ [FateNext]_fateVars => LInv'
  BY AuditStays
<1>3. LInv => TypesOK
  BY AuditHolds
<1> QED
  BY <1>1, <1>2, <1>3, PTL DEF FateSpec

(* For every catalogue, policy and number of wagers, offers and claims:    *)
(* each grant, recovery, adjustment, stake, payout, refund and cleaned     *)
(* test counts once, the ledger adds up to nothing, no member is in debt,  *)
(* and what open wagers and offers put at risk stays within exposure_cap:  *)
(* play, resolve, cleanup_test_wager, complete_recovery, adjust, reverse.   *)
THEOREM LedgerIsOne == FateSpec => []LedgersHold
<1>1. FateInit => LInv
  BY InitPlaced, AuditBegins DEF LInv, FateInit
<1>2. LInv /\ [FateNext]_fateVars => LInv'
  BY AuditStays
<1>3. LInv => LedgersHold
  BY AuditHolds
<1> QED
  BY <1>1, <1>2, <1>3, PTL DEF FateSpec

(* Where the House moves the same balances: a reward lifts only a member   *)
(* who is poor when it is paid, never above what the policy promises, and  *)
(* not again before the cooldown is over: complete_recovery.               *)
THEOREM FateIsGivenSparingly == FateSpec => GivenSparingly
<1>1. FateSpec => LiftsOnlyThePoor
  <2>1. FateInit => LInv
    BY InitPlaced, AuditBegins DEF LInv, FateInit
  <2>2. LInv /\ [FateNext]_fateVars => LInv'
    BY AuditStays
  <2>3. ASSUME LInv, [FateNext]_fateVars
        PROVE  \A c \in ClaimIds : R!Pays(c) =>
                 LET u == claims[c].user k == claims[c].kind IN
                 /\ fate[u] < Threshold[k]
                 /\ fate'[u] > fate[u] /\ fate'[u] <= R!Ceiling(k)
    BY <2>3, AuditStays DEF PaidRight, Lifts
  <2> QED
    BY <2>1, <2>2, <2>3, PTL DEF FateSpec, LiftsOnlyThePoor, R!LiftsOnlyThePoor
<1> QED
  BY <1>1, RewardsAreScarce DEF GivenSparingly
=============================================================================
