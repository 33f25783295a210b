-------------------------- MODULE LineQuietProofs --------------------------
(***************************************************************************)
(* What a station keys comes to an end, for every network and any bounds:  *)
(* a finished line is not left in the air queue, and the copies of someone *)
(* else's frame are capped.  Both follow from what a handler may do to the *)
(* queue, the counts and the rows of one station.  A sender gives its line *)
(* up only unheard: a receipt it stores marks the line.  And the receipts  *)
(* a station relays are those of stations further out, until a fault.      *)
(***************************************************************************)
EXTENDS LineRelayProofs

Finished == {"all"} \cup (IF LineKind = "direct" THEN {"delivered"} ELSE {})

\* Nothing is queued of a line that is finished or not there.
Calm(n) == n.row[Line].mark \in Finished \cup {"none"} => n.queue = {}

\* How many copies a row may have behind it before its first relay, and ever.
Early(e) == IF e = Line THEN RELAY_MAX_COPIES ELSE 1
Most(e) == 1 + (IF e = Line THEN RELAY_MAX_COPIES ELSE 1 + MaxRetries)

\* The first relay of the row is still to come.
FirstDue(n, e) == HoldUntil(n, e) /\ n.row[e].tries = 0

CappedAt(n, e) ==
  /\ n.copies[e] <= Most(e)
  /\ FirstDue(n, e) => n.copies[e] <= Early(e)
  /\ ~Has(n, e) => n.copies[e] = 0
Capped(n, s) == \A e \in Frame : ~Own(s, e) => CappedAt(n, e)

\* What most of a handler does: no copy is counted, no row is lost, no first
\* relay comes up again; the queue is emptied, or stays while the line's mark
\* does not come to its end.
EasesAt(n, m, e) ==
  /\ m.copies[e] = n.copies[e]
  /\ Has(n, e) => Has(m, e)
  /\ FirstDue(m, e) => FirstDue(n, e) \/ ~Has(n, e)
Eases(n, m, s) == m \in Station /\ \A e \in Frame : ~Own(s, e) => EasesAt(n, m, e)

Milder(n, m) ==
  \/ m.queue = {}
  \/ /\ m.queue = n.queue
     /\ \/ m.row[Line].mark = n.row[Line].mark
        \/ m.row[Line].mark \notin Finished \cup {"none"}

Calms(n, m, s) == Eases(n, m, s) /\ Milder(n, m)

LEMMA EasesRefl ==
  ASSUME NEW n \in Station, NEW s
  PROVE  Calms(n, n, s)
  BY DEF Calms, Eases, EasesAt, Milder

LEMMA EasesTrans ==
  ASSUME NEW n, NEW m, NEW q, NEW s, Eases(n, m, s), Eases(m, q, s)
  PROVE  Eases(n, q, s)
  BY DEF Eases, EasesAt

LEMMA MilderTrans ==
  ASSUME NEW n, NEW m, NEW q, Milder(n, m), Milder(m, q)
  PROVE  Milder(n, q)
  BY DEF Milder

LEMMA CalmsTrans ==
  ASSUME NEW n, NEW m, NEW q, NEW s, Calms(n, m, s), Calms(m, q, s)
  PROVE  Calms(n, q, s)
  BY EasesTrans, MilderTrans DEF Calms

LEMMA EasesCapped ==
  ASSUME NEW n, NEW m, NEW s, Eases(n, m, s), Capped(n, s)
  PROVE  Capped(m, s)
  <1> SUFFICES ASSUME NEW e \in Frame, ~Own(s, e) PROVE CappedAt(m, e)
    BY DEF Capped
  <1>1. EasesAt(n, m, e) /\ CappedAt(n, e) BY DEF Eases, Capped
  <1>2. 0 <= Early(e) BY DEF Early, RELAY_MAX_COPIES
  <1> QED BY <1>1, <1>2 DEF EasesAt, CappedAt

LEMMA MilderCalm ==
  ASSUME NEW n, NEW m, Milder(n, m), Calm(n)
  PROVE  Calm(m)
  BY DEF Milder, Calm

\* One row replaced.
LEMMA PutRow ==
  ASSUME NEW n \in Station, NEW f \in Frame, NEW r \in Row
  PROVE  LET m == [n EXCEPT !.row[f] = r]
         IN  /\ m \in Station
             /\ \A e \in Frame : m.row[e] = IF e = f THEN r ELSE n.row[e]
             /\ m.copies = n.copies /\ m.queue = n.queue /\ m.receipts = n.receipts
             /\ m.downstream = n.downstream /\ m.sides = n.sides
             /\ m.jobs = n.jobs /\ m.heardAt = n.heardAt
  BY DEF Station

LEMMA RowEases ==
  ASSUME NEW n \in Station, NEW s, NEW f \in Frame, NEW r \in Row,
         Has(n, f) => r.mark # "none",
         ~Own(s, f) /\ Has(n, f) /\ r.hold /\ ~r.supp /\ r.tries = 0 => FirstDue(n, f)
  PROVE  Eases(n, [n EXCEPT !.row[f] = r], s)
  <1> DEFINE m == [n EXCEPT !.row[f] = r]
  <1>1. /\ m \in Station /\ m.copies = n.copies
        /\ \A e \in Frame : m.row[e] = IF e = f THEN r ELSE n.row[e]
    BY PutRow
  <1> HIDE DEF m
  <1>2. ASSUME NEW e \in Frame, ~Own(s, e) PROVE EasesAt(n, m, e)
    <2>1. CASE e = f BY <1>1, <1>2, <2>1 DEF EasesAt, Has, FirstDue, HoldUntil
    <2>2. CASE e # f BY <1>1, <2>2 DEF EasesAt, Has, FirstDue, HoldUntil
    <2> QED BY <2>1, <2>2
  <1> QED BY <1>1, <1>2 DEF Eases, m

LEMMA RowMilder ==
  ASSUME NEW n \in Station, NEW f \in Frame, NEW r \in Row,
         f = Line => \/ r.mark = n.row[Line].mark
                     \/ r.mark \notin Finished \cup {"none"}
  PROVE  Milder(n, [n EXCEPT !.row[f] = r])
  BY PutRow, FrameFacts DEF Milder

\* Anything but the rows and the counts replaced, the queue at most emptied.
LEMMA RestCalms ==
  ASSUME NEW n \in Station, NEW m \in Station, NEW s,
         m.row = n.row, m.copies = n.copies, m.queue = n.queue \/ m.queue = {}
  PROVE  Calms(n, m, s)
  BY DEF Calms, Eases, EasesAt, Milder, Has, FirstDue, HoldUntil

-----------------------------------------------------------------------------
(***************************************************************************)
(* The store's row operations and the queue.                               *)
(***************************************************************************)
LEMMA RowType == \A n \in Station, f \in Frame : n.row[f] \in Row
  BY DEF Station

LEMMA SetHoldEffect ==
  ASSUME NEW n \in Station, NEW f \in Frame, NEW armed \in BOOLEAN, NEW h \in Hops
  PROVE  LET m == SetHold(n, f, armed, h)
         IN  /\ m \in Station
             /\ \A e \in Frame : /\ m.row[e].mark = n.row[e].mark
                                 /\ e # f => m.row[e] = n.row[e]
             /\ m.copies = n.copies /\ m.queue = n.queue /\ m.receipts = n.receipts
             /\ m.sides = n.sides /\ m.jobs = n.jobs /\ m.heardAt = n.heardAt
             /\ Has(n, f) => m.row[f].hold = armed /\ m.row[f].hops = h
             /\ m.row[f].tries = n.row[f].tries
  <1> DEFINE r == [n.row[f] EXCEPT !.hold = armed, !.hops = h]
  <1>1. /\ r \in Row /\ r.mark = n.row[f].mark /\ r.hold = armed /\ r.hops = h
        /\ r.tries = n.row[f].tries
    BY RowType DEF Row
  <1>2. SetHold(n, f, armed, h) = IF Has(n, f) THEN [n EXCEPT !.row[f] = r] ELSE n
    BY DEF SetHold
  <1> HIDE DEF r
  <1>3. CASE Has(n, f) BY <1>1, <1>2, <1>3, PutRow
  <1>4. CASE ~Has(n, f) BY <1>2, <1>4
  <1> QED BY <1>3, <1>4

LEMMA SetHoldCalms ==
  ASSUME NEW n \in Station, NEW s, NEW f \in Frame, NEW armed \in BOOLEAN, NEW h \in Hops,
         armed => Own(s, f)
  PROVE  Calms(n, SetHold(n, f, armed, h), s)
  <1> DEFINE m == SetHold(n, f, armed, h)
  <1>1. /\ m \in Station
        /\ \A e \in Frame : /\ m.row[e].mark = n.row[e].mark
                            /\ e # f => m.row[e] = n.row[e]
        /\ m.copies = n.copies /\ m.queue = n.queue
        /\ Has(n, f) => m.row[f].hold = armed
    BY SetHoldEffect
  <1> HIDE DEF m
  <1>2. Eases(n, m, s)
    BY <1>1 DEF Eases, EasesAt, Has, FirstDue, HoldUntil
  <1>3. Milder(n, m) BY <1>1, FrameFacts DEF Milder
  <1> QED BY <1>2, <1>3 DEF Calms, m

\* A row that was not there may be armed.
LEMMA ArmedEases ==
  ASSUME NEW n \in Station, NEW m, NEW s, NEW f \in Frame, NEW armed \in BOOLEAN,
         NEW h \in Hops, Eases(n, m, s), ~Has(n, f)
  PROVE  /\ Eases(n, SetHold(m, f, armed, h), s)
         /\ Milder(n, m) => Milder(n, SetHold(m, f, armed, h))
  <1> DEFINE q == SetHold(m, f, armed, h)
  <1>1. m \in Station BY DEF Eases
  <1>2. /\ q \in Station
        /\ \A e \in Frame : /\ q.row[e].mark = m.row[e].mark
                            /\ e # f => q.row[e] = m.row[e]
        /\ q.copies = m.copies /\ q.queue = m.queue
    BY <1>1, SetHoldEffect
  <1> HIDE DEF q
  <1>3. Eases(n, q, s)
    BY <1>2 DEF Eases, EasesAt, Has, FirstDue, HoldUntil
  <1>4. Milder(n, m) => Milder(n, q) BY <1>2, FrameFacts DEF Milder
  <1> QED BY <1>3, <1>4 DEF q

LEMMA ReleaseCalms ==
  ASSUME NEW n \in Station, NEW s, NEW f \in Frame
  PROVE  Calms(n, Release(n, f), s)
  <1>1. n.row[f].hops \in Hops BY RowType DEF Row
  <1> QED BY <1>1, SetHoldCalms DEF Release

LEMMA MarkEffect ==
  ASSUME NEW n \in Station, NEW f \in Frame, NEW mark \in Mark, NEW m,
         \/ m = n
         \/ /\ Has(n, f)
            /\ m = [n EXCEPT !.row[f] = [n.row[f] EXCEPT !.mark = mark]]
  PROVE  /\ m \in Station
         /\ \A e \in Frame : /\ e # f => m.row[e] = n.row[e]
                             /\ m.row[e].hold = n.row[e].hold
                             /\ m.row[e].supp = n.row[e].supp
                             /\ m.row[e].tries = n.row[e].tries
                             /\ Has(n, e) <=> Has(m, e)
         /\ m.row[f].mark \in {mark, n.row[f].mark}
         /\ m.copies = n.copies /\ m.queue = n.queue /\ m.receipts = n.receipts
         /\ m.downstream = n.downstream
  <1> DEFINE r == [n.row[f] EXCEPT !.mark = mark]
  <1>1. /\ r \in Row /\ r.mark = mark /\ r.hold = n.row[f].hold
        /\ r.supp = n.row[f].supp /\ r.tries = n.row[f].tries /\ mark # "none"
    BY RowType DEF Row, Mark
  <1>2. m = n \/ (Has(n, f) /\ m = [n EXCEPT !.row[f] = r]) OBVIOUS
  <1> HIDE DEF r
  <1>3. CASE m = n BY <1>3
  <1>4. CASE Has(n, f) /\ m = [n EXCEPT !.row[f] = r] BY <1>1, <1>4, PutRow DEF Has
  <1> QED BY <1>2, <1>3, <1>4

LEMMA MarkEases ==
  ASSUME NEW n \in Station, NEW s, NEW f \in Frame, NEW mark \in Mark, NEW m,
         \/ m = n
         \/ /\ Has(n, f)
            /\ m = [n EXCEPT !.row[f] = [n.row[f] EXCEPT !.mark = mark]]
  PROVE  /\ Eases(n, m, s) /\ m.queue = n.queue
         /\ f # Line \/ mark \notin Finished => Calms(n, m, s)
  <1>1. Eases(n, m, s) /\ m.queue = n.queue
    BY MarkEffect DEF Eases, EasesAt, FirstDue, HoldUntil
  <1>2. ASSUME f # Line \/ mark \notin Finished PROVE Milder(n, m)
    <2>1. mark # "none" BY DEF Mark
    <2>2. CASE f = Line BY <1>2, <2>1, <2>2, MarkEffect DEF Milder
    <2>3. CASE f # Line BY <2>3, MarkEffect, FrameFacts DEF Milder
    <2> QED BY <2>2, <2>3
  <1> QED BY <1>1, <1>2 DEF Calms

LEMMA AdvanceEases ==
  ASSUME NEW n \in Station, NEW s, NEW f \in Frame, NEW mark \in Mark
  PROVE  /\ Eases(n, Advance(n, f, mark), s) /\ Advance(n, f, mark).queue = n.queue
         /\ Advance(n, f, mark).receipts = n.receipts
         /\ f # Line \/ mark \notin Finished => Calms(n, Advance(n, f, mark), s)
  <1> DEFINE m == Advance(n, f, mark)
  <1>1. \/ m = n
        \/ /\ Has(n, f)
           /\ m = [n EXCEPT !.row[f] = [n.row[f] EXCEPT !.mark = mark]]
    BY DEF Advance
  <1> HIDE DEF m
  <1> QED BY <1>1, MarkEases, MarkEffect DEF m

LEMMA SetDeliveryEases ==
  ASSUME NEW n \in Station, NEW s, NEW f \in Frame, NEW mark \in Mark
  PROVE  /\ Eases(n, SetDelivery(n, f, mark), s)
         /\ SetDelivery(n, f, mark).queue = n.queue
         /\ f # Line \/ mark \notin Finished => Calms(n, SetDelivery(n, f, mark), s)
  <1> DEFINE m == SetDelivery(n, f, mark)
  <1>1. \/ m = n
        \/ /\ Has(n, f)
           /\ m = [n EXCEPT !.row[f] = [n.row[f] EXCEPT !.mark = mark]]
    BY DEF SetDelivery
  <1> HIDE DEF m
  <1> QED BY <1>1, MarkEases DEF m

LEMMA SuppressCalms ==
  ASSUME NEW n \in Station, NEW s, NEW f \in Frame
  PROVE  Calms(n, Suppress(n, f), s)
  <1> DEFINE r == [n.row[f] EXCEPT !.supp = TRUE, !.hold = FALSE]
  <1>1. r \in Row /\ r.mark = n.row[f].mark /\ r.hold = FALSE
    BY RowType DEF Row
  <1>2. Suppress(n, f) = IF Has(n, f) THEN [n EXCEPT !.row[f] = r] ELSE n
    BY DEF Suppress
  <1> HIDE DEF r
  <1>3. Calms(n, [n EXCEPT !.row[f] = r], s)
    BY <1>1, RowEases, RowMilder DEF Calms, Has
  <1> QED BY <1>2, <1>3, EasesRefl

LEMMA InsertEffect ==
  ASSUME NEW n \in Station, NEW s, NEW f \in Frame, NEW r \in Row, r.mark # "none"
  PROVE  /\ Eases(n, Insert(n, f, r), s)
         /\ Insert(n, f, r).queue = n.queue
         /\ Has(Insert(n, f, r), f)
         /\ Insert(n, f, r).receipts = n.receipts
         /\ f # Line \/ r.mark \notin Finished => Calms(n, Insert(n, f, r), s)
  <1> DEFINE m == [n EXCEPT !.row[f] = r]
  <1>1. CASE Has(n, f) BY <1>1, EasesRefl DEF Insert, Calms
  <1>2. CASE ~Has(n, f)
    <2>1. Insert(n, f, r) = m BY <1>2 DEF Insert
    <2>2. /\ \A e \in Frame : m.row[e] = IF e = f THEN r ELSE n.row[e]
          /\ m.queue = n.queue /\ m.receipts = n.receipts
      BY PutRow
    <2>3. Eases(n, m, s) BY <1>2, RowEases
    <2>4. f # Line \/ r.mark \notin Finished => Milder(n, m) BY RowMilder
    <2> HIDE DEF m
    <2> QED BY <2>1, <2>2, <2>3, <2>4 DEF Calms, Has
  <1> QED BY <1>1, <1>2

LEMMA CancelCalms ==
  ASSUME NEW n \in Station, NEW s, NEW f
  PROVE  /\ Calms(n, Cancel(n, f), s) /\ Cancel(n, f) \in Station
         /\ f = Line => Cancel(n, f).queue = {}
         /\ Cancel(n, f).receipts = n.receipts
  <1> DEFINE m == [n EXCEPT !.queue = {}]
  <1>1. /\ m \in Station /\ m.row = n.row /\ m.copies = n.copies /\ m.queue = {}
        /\ m.receipts = n.receipts
    BY DEF Station
  <1>2. Cancel(n, f) = IF f = Line THEN m ELSE n BY DEF Cancel
  <1> HIDE DEF m
  <1> QED BY <1>1, <1>2, RestCalms, EasesRefl

LEMMA DispatchEffect ==
  ASSUME NEW n \in Station, NEW s, NEW f \in Frame
  PROVE  LET m == Dispatch(n, s, f)
         IN  /\ m \in Station /\ m.row = n.row
             /\ f # Line => m.queue = n.queue
             /\ \A e \in Frame : e # f \/ Own(s, f) => m.copies[e] = n.copies[e]
             /\ m.copies[f] \in {n.copies[f], n.copies[f] + 1}
  <1> DEFINE q == Hand(n, f)
             up == [q EXCEPT !.copies[f] = @ + 1]
             m == Dispatch(n, s, f)
  <1>0. n.row[f].hops \in Hops BY RowType DEF Row
  <1>1. /\ q \in Station /\ q.row = n.row /\ q.copies = n.copies
        /\ f # Line => q.queue = n.queue
    <2>1. CASE f = Line BY <1>0, <2>1 DEF Hand, Station
    <2>2. CASE f # Line
      <3>1. f \in Node BY <2>2, FrameFacts
      <3> QED BY <1>0, <2>2, <3>1 DEF Hand, Station
    <2> QED BY <2>1, <2>2
  <1>2. m = IF Own(s, f) \/ ~Queued(n, f) THEN q ELSE up
    BY DEF Dispatch
  <1> HIDE DEF q
  <1>3. /\ up \in Station /\ up.row = q.row /\ up.queue = q.queue
        /\ \A e \in Frame : up.copies[e] = IF e = f THEN q.copies[f] + 1 ELSE q.copies[e]
    BY <1>1 DEF Station
  <1> HIDE DEF up, m
  <1> QED BY <1>1, <1>2, <1>3 DEF m

LEMMA BumpEffect ==
  ASSUME NEW n \in Station, NEW f \in Frame, n.row[f].tries <= MaxRetries
  PROVE  LET m == BumpRetry(n, f)
         IN  /\ m \in Station
             /\ \A e \in Frame : /\ m.row[e].mark = n.row[e].mark
                                 /\ e # f => m.row[e] = n.row[e]
             /\ m.row[f].tries # 0
             /\ m.copies = n.copies /\ m.queue = n.queue
  <1> DEFINE r == [n.row[f] EXCEPT !.tries = n.row[f].tries + 1, !.hold = TRUE]
  <1>1. n.row[f] \in Row BY RowType
  <1>2. n.row[f].tries \in Nat /\ n.row[f].tries + 1 \in 0..(MaxRetries + 1)
        /\ n.row[f].tries + 1 # 0
    <2>1. n.row[f].tries \in 0..(MaxRetries + 1) BY <1>1 DEF Row
    <2> QED BY <2>1, BoundsAssumption, SMT
  <1>3. r \in Row /\ r.mark = n.row[f].mark /\ r.tries # 0
    BY <1>1, <1>2 DEF Row
  <1>4. BumpRetry(n, f) = [n EXCEPT !.row[f] = r] BY DEF BumpRetry
  <1> HIDE DEF r
  <1> QED BY <1>3, <1>4, PutRow

LEMMA BumpCalms ==
  ASSUME NEW n \in Station, NEW s, NEW f \in Frame, n.row[f].tries <= MaxRetries
  PROVE  Calms(n, BumpRetry(n, f), s)
  <1> DEFINE m == BumpRetry(n, f)
  <1>1. /\ m \in Station
        /\ \A e \in Frame : /\ m.row[e].mark = n.row[e].mark
                            /\ e # f => m.row[e] = n.row[e]
        /\ m.row[f].tries # 0
        /\ m.copies = n.copies /\ m.queue = n.queue
    BY BumpEffect
  <1> HIDE DEF m
  <1>2. Eases(n, m, s) BY <1>1 DEF Eases, EasesAt, Has, FirstDue, HoldUntil
  <1>3. Milder(n, m) BY <1>1, FrameFacts DEF Milder
  <1> QED BY <1>2, <1>3 DEF Calms, m

-----------------------------------------------------------------------------
(***************************************************************************)
(* The receive handler.                                                    *)
(***************************************************************************)
LEMMA EasesType ==
  ASSUME NEW n, NEW m, NEW s, Eases(n, m, s) \/ Calms(n, m, s)
  PROVE  m \in Station
  BY DEF Eases, Calms

LEMMA CalmsThen ==
  ASSUME NEW n, NEW m, NEW q, NEW s, Calms(n, m, s), m \in Station => Calms(m, q, s)
  PROVE  Calms(n, q, s)
  BY EasesType, CalmsTrans

LEMMA EasesThen ==
  ASSUME NEW n, NEW m, NEW q, NEW s, Eases(n, m, s), m \in Station => Eases(m, q, s)
  PROVE  Eases(n, q, s)
  BY EasesType, EasesTrans

LEMMA Unfinished ==
  /\ "queued" \notin Finished /\ "sent" \notin Finished /\ "relayed" \notin Finished
  /\ "failed" \notin Finished
  /\ LineKind # "direct" => "delivered" \notin Finished
  BY DEF Finished

LEMMA FinishCalms ==
  ASSUME NEW n \in Station, NEW s, NEW f \in Frame, f # Line
  PROVE  Calms(n, FinishAckWalk(n, f), s)
  <1> DEFINE q == SetHold(n, f, FALSE, 0)
  <1>1. Calms(n, q, s) BY HopFacts, SetHoldCalms
  <1> HIDE DEF q
  <1>2. q \in Station => Calms(q, Advance(q, f, "delivered"), s)
    BY MarkTypes, AdvanceEases
  <1>3. Calms(n, Advance(q, f, "delivered"), s) BY <1>1, <1>2, CalmsThen
  <1> QED BY <1>3 DEF FinishAckWalk, q

LEMMA OwnFrameCalms ==
  ASSUME NEW n \in Station, NEW s, NEW f \in Frame, NEW h \in Hops
  PROVE  Calms(n, OwnFrameHeard(n, f, h), s)
  <1> DEFINE further == HeardFurther(h, n.row[f].hops)
             c == [n EXCEPT !.carriedOn = TRUE]
             carried == IF f = Line /\ further THEN c ELSE n
             d == [n EXCEPT !.downstream = @ \cup {f}]
             w == Release(d, f)
             walked == IF further THEN Advance(w, f, "delivered") ELSE n
             held == IF BulletinKeepsWalking(LineKind) /\ further
                     THEN Release(carried, Line) ELSE carried
             marked == Advance(held, Line, "relayed")
             p == [marked EXCEPT !.painted = TRUE]
  <1>1. Calms(n, carried, s)
    <2>1. c \in Station /\ c.row = n.row /\ c.copies = n.copies /\ c.queue = n.queue
      BY DEF Station
    <2>2. Calms(n, c, s) BY <2>1, RestCalms
    <2> QED BY <2>2, EasesRefl
  <1>2. f # Line => Calms(n, walked, s)
    <2>1. d \in Station /\ d.row = n.row /\ d.copies = n.copies /\ d.queue = n.queue
      BY DEF Station
    <2>2. Calms(n, d, s) BY <2>1, RestCalms
    <2> HIDE DEF d
    <2>3. d \in Station => Calms(d, w, s) BY ReleaseCalms
    <2>4. Calms(n, w, s) BY <2>2, <2>3, CalmsThen
    <2> HIDE DEF w
    <2>5. w \in Station /\ f # Line => Calms(w, Advance(w, f, "delivered"), s)
      BY MarkTypes, AdvanceEases
    <2>6. f # Line => Calms(n, Advance(w, f, "delivered"), s) BY <2>4, <2>5, CalmsThen
    <2> QED BY <2>6, EasesRefl
  <1> HIDE DEF carried
  <1>3. carried \in Station => Calms(carried, held, s)
    BY FrameFacts, ReleaseCalms, EasesRefl
  <1>4. Calms(n, held, s) BY <1>1, <1>3, CalmsThen
  <1> HIDE DEF held
  <1>5. held \in Station => Calms(held, marked, s)
    BY MarkTypes, FrameFacts, Unfinished, AdvanceEases
  <1>6. Calms(n, marked, s) BY <1>4, <1>5, CalmsThen
  <1> HIDE DEF marked
  <1>7. marked \in Station => Calms(marked, p, s)
    <2>1. marked \in Station => /\ p \in Station /\ p.row = marked.row
            /\ p.copies = marked.copies /\ p.queue = marked.queue
      BY DEF Station
    <2> HIDE DEF p
    <2> QED BY <2>1, RestCalms
  <1>8. Calms(n, p, s) BY <1>6, <1>7, CalmsThen
  <1>9. marked \in Station => Calms(marked, Cancel(marked, Line), s) BY CancelCalms
  <1>10. Calms(n, Cancel(marked, Line), s) BY <1>6, <1>9, CalmsThen
  <1>11. OwnFrameHeard(n, f, h) \in
           (IF f # Line THEN {walked} ELSE {marked, p, Cancel(marked, Line)})
    BY DEF OwnFrameHeard, marked, held, carried
  <1> HIDE DEF walked, p
  <1> QED BY <1>2, <1>6, <1>8, <1>10, <1>11

\* A receipt may end a direct line here; AckArrived then empties the queue.
LEMMA AcceptEases ==
  ASSUME NEW n \in Station, NEW s, NEW f \in Frame, NEW h \in Hops, h # 0, NEW l,
         ~Has(n, f)
  PROVE  LET m == Accept(n, s, f, h, l)
         IN  /\ Eases(n, m, s)
             /\ f # Line /\ LineKind # "direct" => Milder(n, m)
             /\ f = Line => m.queue = n.queue /\ Has(m, f)
  <1> DEFINE stored == Insert(n, f, NewRow("queued", h - 1, FALSE))
             marked == IF f # Line /\ AckMarksDelivered(Own(s, Line), LineKind)
                       THEN Advance(stored, Line, "delivered") ELSE stored
             forUs == IF f # Line /\ ToUs(s, f) THEN Advance(marked, f, "relayed") ELSE marked
             up == FromUpstream(forUs, f, l)
             u == [forUs EXCEPT !.sides = @ \cup {f}]
             sided == IF up THEN u ELSE forUs
             armed == IF MayRelay(sided, s, f) /\ ~up
                      THEN SetHold(sided, f, TRUE, h - 1) ELSE sided
  <1>0. h - 1 \in Hops BY HopFacts
  <1>1. /\ Calms(n, stored, s) /\ stored.queue = n.queue /\ Has(stored, f)
    <2> DEFINE r == NewRow("queued", h - 1, FALSE)
    <2>1. r \in Row /\ r.mark = "queued" BY <1>0, MarkTypes, NewRowType
    <2> HIDE DEF r
    <2>2. /\ Calms(n, Insert(n, f, r), s) /\ Insert(n, f, r).queue = n.queue
          /\ Has(Insert(n, f, r), f)
      BY <2>1, Unfinished, InsertEffect
    <2> QED BY <2>2 DEF r
  <1> HIDE DEF stored
  <1>2. stored \in Station BY <1>1, EasesType
  <1>3. /\ Eases(n, marked, s)
        /\ LineKind # "direct" => Milder(n, marked)
        /\ f = Line => marked = stored
    <2>1. /\ Eases(stored, Advance(stored, Line, "delivered"), s)
          /\ LineKind # "direct" => Calms(stored, Advance(stored, Line, "delivered"), s)
      BY <1>2, MarkTypes, FrameFacts, Unfinished, AdvanceEases
    <2>2. Eases(n, stored, s) /\ Milder(n, stored) BY <1>1 DEF Calms
    <2>3. LineKind # "direct" => Milder(stored, Advance(stored, Line, "delivered"))
      BY <2>1 DEF Calms
    <2> QED BY <2>1, <2>2, <2>3, EasesTrans, MilderTrans
  <1> HIDE DEF marked
  <1>4. marked \in Station BY <1>3, EasesType
  <1>5. /\ Calms(marked, forUs, s)
        /\ f = Line => forUs = stored
    BY <1>3, <1>4, MarkTypes, AdvanceEases, EasesRefl
  <1> HIDE DEF forUs
  <1>6. forUs \in Station BY <1>5, EasesType
  <1>7. Calms(forUs, sided, s) /\ (f = Line => sided = stored)
    <2>1. CASE up
      <3>1. f \in Node /\ f # Line BY <2>1, FrameFacts DEF FromUpstream
      <3>2. u \in Station /\ u.row = forUs.row /\ u.copies = forUs.copies
            /\ u.queue = forUs.queue
        BY <1>6, <3>1 DEF Station
      <3> HIDE DEF u, up
      <3> QED BY <1>6, <2>1, <3>1, <3>2, RestCalms
    <2>2. CASE ~up BY <1>5, <1>6, <2>2, EasesRefl
    <2> QED BY <2>1, <2>2
  <1> HIDE DEF sided, up
  <1>8. Eases(n, sided, s) /\ (LineKind # "direct" => Milder(n, sided))
    BY <1>3, <1>5, <1>7, EasesTrans, MilderTrans DEF Calms
  <1>9. sided \in Station BY <1>7, EasesType
  <1>10. armed = Accept(n, s, f, h, l)
    BY DEF Accept, Spent, sided, up, forUs, marked, stored
  <1>11. \E b \in BOOLEAN : armed \in {sided, SetHold(sided, f, b, h - 1)}
    <2>1. armed \in {sided, SetHold(sided, f, TRUE, h - 1)} OBVIOUS
    <2> HIDE DEF armed
    <2> QED BY <2>1
  <1>12. PICK b \in BOOLEAN : armed \in {sided, SetHold(sided, f, b, h - 1)} BY <1>11
  <1> DEFINE q == SetHold(sided, f, b, h - 1)
  <1>13. Eases(n, q, s) /\ (Milder(n, sided) => Milder(n, q)) BY <1>0, <1>8, ArmedEases
  <1>14. q.queue = sided.queue /\ \A e \in Frame : q.row[e].mark = sided.row[e].mark
    BY <1>0, <1>9, SetHoldEffect
  <1>15. f = Line => sided.queue = n.queue /\ Has(sided, f) BY <1>1, <1>7
  <1>16. f = Line => q.queue = n.queue /\ Has(q, f) BY <1>14, <1>15 DEF Has
  <1> HIDE DEF q, armed
  <1>17. armed \in {sided, q} BY <1>12 DEF q
  <1> QED BY <1>8, <1>10, <1>13, <1>15, <1>16, <1>17

LEMMA AcknowledgeCalms ==
  ASSUME NEW n \in Station, NEW s \in Node, NEW h \in Hops
  PROVE  Calms(n, Acknowledge(n, s, h), s) /\ Acknowledge(n, s, h).queue = n.queue
  <1> DEFINE r == NewRow("sent", Ttl, ~HeardFromOrigin(h, Ttl))
             i == Insert(n, s, r)
             a == [i EXCEPT !.heardAt = h, !.keyed = @ + 1, !.jobs = @ \cup {<<s, Ttl>>}]
  <1>0. s \in Frame /\ s # Line BY FrameFacts
  <1>1. Calms(n, i, s) /\ i.queue = n.queue
    <2>1. (~HeardFromOrigin(h, Ttl)) \in BOOLEAN BY DEF HeardFromOrigin
    <2>2. r \in Row /\ r.mark = "sent" BY <2>1, HopFacts, MarkTypes, NewRowType
    <2> HIDE DEF r
    <2> QED BY <1>0, <2>2, InsertEffect DEF Mark
  <1> HIDE DEF i
  <1>2. i \in Station BY <1>1, EasesType
  <1>3. /\ a \in Station /\ a.row = i.row /\ a.copies = i.copies /\ a.queue = i.queue
    <2>1. i.keyed + 1 \in Nat BY <1>2, SMT DEF Station
    <2>2. /\ a = [i EXCEPT !.heardAt = h, !.keyed = i.keyed + 1,
                           !.jobs = i.jobs \cup {<<s, Ttl>>}]
          /\ i.jobs \cup {<<s, Ttl>>} \in SUBSET (Node \X Hops)
      BY <1>2, HopFacts DEF Station
    <2> QED BY <1>2, <2>1, <2>2 DEF Station
  <1> HIDE DEF a
  <1>4. Calms(i, a, s) BY <1>2, <1>3, RestCalms
  <1>5. Calms(n, a, s) /\ a.queue = n.queue BY <1>1, <1>3, <1>4, CalmsTrans
  <1> QED BY <1>5 DEF Acknowledge, a, i

LEMMA LineArrivedEases ==
  ASSUME NEW n \in Station, NEW s \in Node, NEW h \in Hops
  PROVE  LET m == LineArrived(n, s, h) IN Eases(n, m, s) /\ m.queue = n.queue
  <1> DEFINE answered == IF Answers(s, h) THEN Acknowledge(n, s, h) ELSE n
             noted == [answered EXCEPT !.receipts = @ \cup {Origin}]
             alled == SetDelivery(noted, Line, "all")
  <1>1. Calms(n, answered, s) /\ answered.queue = n.queue
    BY AcknowledgeCalms, EasesRefl
  <1> HIDE DEF answered
  <1>2. answered \in Station BY <1>1, EasesType
  <1>3. /\ noted \in Station /\ noted.row = answered.row
        /\ noted.copies = answered.copies /\ noted.queue = answered.queue
    BY <1>2, FrameFacts DEF Station
  <1> HIDE DEF noted
  <1>4. Calms(answered, noted, s) BY <1>2, <1>3, RestCalms
  <1>5. Eases(noted, alled, s) /\ alled.queue = noted.queue
    BY <1>3, MarkTypes, FrameFacts, SetDeliveryEases
  <1> HIDE DEF alled
  <1>6. LineArrived(n, s, h) \in {answered, noted, alled}
    BY DEF LineArrived, alled, noted, answered
  <1>7. Eases(n, noted, s) BY <1>1, <1>4, EasesTrans DEF Calms
  <1>8. Eases(n, alled, s) BY <1>5, <1>7, EasesTrans
  <1> QED BY <1>1, <1>3, <1>5, <1>6, <1>7, <1>8 DEF Calms

\* A receipt leaves a copy of the line in the queue only while the line goes on.
LEMMA AckArrivedEases ==
  ASSUME NEW n \in Station, NEW s \in Node, NEW f \in Node, NEW c
  PROVE  LET m == AckArrived(n, s, f, c)
         IN  /\ Eases(n, m, s)
             /\ m.queue = {} \/ (LineKind # "direct" /\ Milder(n, m))
  <1> DEFINE e == [n EXCEPT !.downstream = @ \cup {Line}]
             ended == IF Has(n, Line) /\ AckEndsRelay(LineKind, f = Dest) THEN e ELSE n
             marked == IF AckMarksDelivered(Own(s, Line), LineKind)
                       THEN Advance(ended, Line, "delivered") ELSE ended
             closed == LineKind = "closed" /\ Has(n, Line)
             b == [marked EXCEPT !.receipts = @ \cup {f, s}]
             noted == IF closed THEN b ELSE marked
             alled == IF closed /\ AllReceived(noted) THEN Advance(noted, Line, "all") ELSE noted
             drop == /\ closed /\ ~Own(s, Line)
                     /\ QueuedRepeatUnneeded(alled.row[Line].tries)
                     /\ ReachedNeighbours(alled, Line, c)
             rel == Release(alled, Line)
             pruned == IF drop THEN Cancel(rel, Line) ELSE alled
             keep == \/ closed /\ GroupStillWaiting(pruned, Line)
                     \/ Has(n, Line) /\ ~Own(s, Line) /\ BulletinKeepsWalking(LineKind)
             kept == IF Own(s, Line) THEN 0 ELSE pruned.row[Line].hops
             let == SetHold(pruned, Line, FALSE, kept)
  <1>1. Calms(n, ended, s)
    <2>1. e \in Station /\ e.row = n.row /\ e.copies = n.copies /\ e.queue = n.queue
      BY FrameFacts DEF Station
    <2>2. Calms(n, e, s) BY <2>1, RestCalms
    <2> QED BY <2>2, EasesRefl
  <1> HIDE DEF ended
  <1>2. ended \in Station BY <1>1, EasesType
  <1>3. Eases(n, marked, s) /\ (LineKind # "direct" => Milder(n, marked))
    <2>1. /\ Eases(ended, Advance(ended, Line, "delivered"), s)
          /\ LineKind # "direct" => Milder(ended, Advance(ended, Line, "delivered"))
      BY <1>2, MarkTypes, FrameFacts, Unfinished, AdvanceEases DEF Calms
    <2>2. Eases(n, ended, s) /\ Milder(n, ended) BY <1>1 DEF Calms
    <2> QED BY <2>1, <2>2, EasesTrans, MilderTrans
  <1> HIDE DEF marked
  <1>4. marked \in Station BY <1>3, EasesType
  <1>5. Calms(marked, noted, s)
    <2>1. /\ b \in Station /\ b.row = marked.row /\ b.queue = marked.queue
          /\ b.copies = marked.copies
      BY <1>4 DEF Station
    <2> HIDE DEF b
    <2>2. Calms(marked, b, s) BY <1>4, <2>1, RestCalms
    <2> QED BY <1>4, <2>2, EasesRefl
  <1> HIDE DEF noted
  <1>6. noted \in Station BY <1>5, EasesType
  <1>7. /\ Eases(noted, alled, s) /\ alled.receipts = noted.receipts
        /\ ~(closed /\ AllReceived(noted)) => alled = noted
    BY <1>6, MarkTypes, FrameFacts, AdvanceEases, EasesRefl DEF Calms
  <1> HIDE DEF alled
  <1>8. alled \in Station BY <1>7, EasesType
  <1>9. Calms(alled, pruned, s) /\ (drop => pruned.queue = {})
        /\ pruned.receipts = alled.receipts
    <2>1. rel \in Station /\ Calms(alled, rel, s)
      BY <1>8, FrameFacts, ReleaseCalms, EasesType
    <2>2. rel.receipts = alled.receipts BY <1>8 DEF Release, SetHold, Station
    <2> HIDE DEF rel
    <2>3. Calms(rel, Cancel(rel, Line), s) /\ Cancel(rel, Line).queue = {}
          /\ Cancel(rel, Line).receipts = rel.receipts
      BY <2>1, CancelCalms
    <2>4. Calms(alled, Cancel(rel, Line), s) BY <2>1, <2>3, CalmsTrans
    <2> HIDE DEF drop
    <2> QED BY <1>8, <2>2, <2>3, <2>4, EasesRefl
  <1> HIDE DEF drop
  <1> HIDE DEF pruned
  <1>10. pruned \in Station BY <1>9, EasesType
  <1>11. Calms(pruned, Cancel(let, Line), s) /\ Cancel(let, Line).queue = {}
    <2>1. kept \in Hops BY <1>10, FrameFacts, HopFacts, RowType DEF Row
    <2> HIDE DEF kept
    <2>2. Calms(pruned, let, s) BY <1>10, <2>1, FrameFacts, SetHoldCalms
    <2>3. let \in Station BY <2>2, EasesType
    <2> HIDE DEF let
    <2>4. Calms(let, Cancel(let, Line), s) /\ Cancel(let, Line).queue = {}
      BY <2>3, CancelCalms
    <2> QED BY <2>2, <2>4, CalmsTrans
  <1>12. AckArrived(n, s, f, c) = IF keep THEN pruned ELSE Cancel(let, Line)
    BY DEF AckArrived, pruned, drop, alled, noted, marked, ended
  <1>13. keep => LineKind # "direct" /\ ~(closed /\ AllReceived(noted))
    <2>1. AllReceived(noted) => AllReceived(pruned)
      BY <1>7, <1>9 DEF AllReceived
    <2> QED BY <2>1 DEF GroupStillWaiting, BulletinKeepsWalking
  <1> HIDE DEF keep, let, closed
  <1>14. keep => Milder(n, pruned)
    BY <1>3, <1>5, <1>7, <1>9, <1>13, MilderTrans DEF Calms
  <1>15. Eases(n, pruned, s)
    BY <1>3, <1>5, <1>7, <1>9, EasesTrans DEF Calms
  <1>16. Eases(n, Cancel(let, Line), s) BY <1>11, <1>15, EasesTrans DEF Calms
  <1> QED BY <1>11, <1>12, <1>13, <1>14, <1>15, <1>16

-----------------------------------------------------------------------------
(***************************************************************************)
(* What is true of a station between two steps.                            *)
(***************************************************************************)
Good(n, s) == n \in Station /\ Capped(n, s) /\ Calm(n)

LEMMA CalmsGood ==
  ASSUME NEW n, NEW m, NEW s, Good(n, s), Calms(n, m, s)
  PROVE  Good(m, s)
  BY EasesType, EasesCapped, MilderCalm DEF Good, Calms

LEMMA CopiesType == \A n \in Station, e \in Frame : n.copies[e] \in Nat
  BY DEF Station

\* A copy may go out while the cap is not spent.
LEMMA UnspentFits ==
  ASSUME NEW n \in Station, NEW f \in Frame, ~CopiesSpent(n, f)
  PROVE  /\ n.copies[f] + 1 <= Most(f)
         /\ f = Line => n.copies[f] + 1 <= Early(f)
  <1>1. n.copies[f] \in Nat /\ MaxRetries \in Nat BY CopiesType, BoundsAssumption
  <1>2. CASE f = Line
    <2>1. RelayMaxCopies(KindOf(f), NextToOrigin(n, f), MaxRetries) = 3
      BY <1>2, NetworkAssumption DEF KindOf, RelayMaxCopies, RELAY_MAX_COPIES
    <2>2. ~(n.copies[f] >= 3) BY <2>1 DEF CopiesSpent
    <2> QED BY <1>1, <1>2, <2>2, SMT DEF Most, Early, RELAY_MAX_COPIES
  <1>3. CASE f # Line
    <2>1. RelayMaxCopies(KindOf(f), NextToOrigin(n, f), MaxRetries) \in {2, 1 + MaxRetries}
      BY <1>3 DEF KindOf, RelayMaxCopies, RELAY_ACK_MAX_COPIES
    <2>2. ~(n.copies[f] >= 2) \/ ~(n.copies[f] >= 1 + MaxRetries)
      BY <2>1 DEF CopiesSpent
    <2> QED BY <1>1, <1>3, <2>2, SMT DEF Most
  <1> QED BY <1>2, <1>3

LEMMA DispatchGood ==
  ASSUME NEW n, NEW s, NEW f \in Frame, Good(n, s), Has(n, f),
         f = Line => n.row[Line].mark \notin Finished,
         ~Own(s, f) => /\ n.copies[f] + 1 <= Most(f)
                       /\ FirstDue(n, f) => n.copies[f] + 1 <= Early(f)
  PROVE  Good(Dispatch(n, s, f), s)
  <1> DEFINE m == Dispatch(n, s, f)
  <1>1. n \in Station BY DEF Good
  <1>2. /\ m \in Station /\ m.row = n.row
        /\ f # Line => m.queue = n.queue
        /\ \A e \in Frame : e # f \/ Own(s, f) => m.copies[e] = n.copies[e]
        /\ m.copies[f] \in {n.copies[f], n.copies[f] + 1}
    BY <1>1, DispatchEffect
  <1> HIDE DEF m
  <1>3. Calm(m) BY <1>2 DEF Good, Calm, Has
  <1>4. ASSUME NEW e \in Frame, ~Own(s, e) PROVE CappedAt(m, e)
    <2>1. CappedAt(n, e) BY <1>4 DEF Good, Capped
    <2>2. (Has(m, e) <=> Has(n, e)) /\ (FirstDue(m, e) <=> FirstDue(n, e))
      BY <1>2 DEF Has, FirstDue, HoldUntil
    <2>3. CASE m.copies[e] = n.copies[e] BY <2>1, <2>2, <2>3 DEF CappedAt
    <2>4. CASE m.copies[e] # n.copies[e]
      <3>1. e = f /\ m.copies[e] = n.copies[e] + 1 BY <1>2, <2>4
      <3> QED BY <1>4, <2>2, <3>1 DEF CappedAt
    <2> QED BY <2>3, <2>4
  <1> QED BY <1>2, <1>3, <1>4 DEF Good, Capped, m

LEMMA ResendGood ==
  ASSUME NEW n, NEW s, NEW g, Good(n, s)
  PROVE  LET m == ResendHeldAcks(n, s, g)
         IN  Good(m, s) /\ m.row = n.row /\ m.copies[Line] = n.copies[Line]
  <1> DEFINE resent == {a \in (Node \ {s}) \cap g.ready :
                         /\ Has(n, a) /\ n.row[a].hops > 0
                         /\ a \notin n.downstream /\ a \notin n.sides
                         /\ ~HoldUntil(n, a)
                         /\ MayRelay(n, s, a)
                         /\ ~CopiesSpent(n, a)}
             sent == {<<a, n.row[a].hops>> : a \in resent}
             count == [f \in Frame |-> IF f \in resent THEN n.copies[f] + 1 ELSE n.copies[f]]
             m == [n EXCEPT !.jobs = @ \cup sent, !.copies = count]
  <1>0. n \in Station BY DEF Good
  <1>1. \A a \in resent : /\ a \in Node /\ a \in Frame /\ a # Line /\ Has(n, a)
                           /\ n.row[a].hops \in Hops
                           /\ ~HoldUntil(n, a) /\ ~CopiesSpent(n, a)
    BY <1>0, FrameFacts, RowType DEF Row
  <1>2. m = ResendHeldAcks(n, s, g) BY <1>0 DEF ResendHeldAcks, Station
  <1> HIDE DEF resent
  <1>3. sent \subseteq Node \X Hops BY <1>1
  <1>4. count \in [Frame -> Nat]
    <2>1. n.copies \in [Frame -> Nat] BY <1>0 DEF Station
    <2> QED BY <2>1, SMT
  <1>5. \A e \in Frame : count[e] = IF e \in resent THEN n.copies[e] + 1 ELSE n.copies[e]
    OBVIOUS
  <1> HIDE DEF sent, count
  <1>6. /\ m \in Station /\ m.row = n.row /\ m.queue = n.queue /\ m.copies = count
    BY <1>0, <1>3, <1>4 DEF Station
  <1> HIDE DEF m
  <1>7. ASSUME NEW e \in Frame, ~Own(s, e) PROVE CappedAt(m, e)
    <2>1. CappedAt(n, e) BY <1>7 DEF Good, Capped
    <2>2. (Has(m, e) <=> Has(n, e)) /\ (FirstDue(m, e) <=> FirstDue(n, e))
      BY <1>6 DEF Has, FirstDue, HoldUntil
    <2>3. CASE e \notin resent BY <1>5, <1>6, <2>1, <2>2, <2>3 DEF CappedAt
    <2>4. CASE e \in resent
      <3>1. Has(n, e) /\ ~FirstDue(n, e) /\ ~CopiesSpent(n, e)
        BY <1>1, <2>4 DEF FirstDue
      <3>2. n.copies[e] + 1 <= Most(e) BY <1>0, <3>1, UnspentFits
      <3> QED BY <1>5, <1>6, <2>2, <2>4, <3>1, <3>2 DEF CappedAt
    <2> QED BY <2>3, <2>4
  <1>8. Calm(m) BY <1>6 DEF Good, Calm
  <1>9. m.copies[Line] = n.copies[Line] BY <1>1, <1>5, <1>6, FrameFacts
  <1> QED BY <1>2, <1>6, <1>7, <1>8, <1>9 DEF Good, Capped

LEMMA RestGood ==
  ASSUME NEW n, NEW m \in Station, NEW s, Good(n, s),
         m.row = n.row, m.copies = n.copies, m.queue = n.queue \/ m.queue = {}
  PROVE  Good(m, s)
  BY RestCalms, CalmsGood DEF Good

LEMMA RelayHeardGood ==
  ASSUME NEW n, NEW s \in Node, NEW f \in Frame, NEW h, NEW c, NEW g,
         Good(n, s), Has(n, f), ~Own(s, f)
  PROVE  Good(RelayHeardRetry(n, s, f, h, c, g), s)
  <1> DEFINE heard == [n EXCEPT !.downstream = @ \cup {f}]
             a == Release(heard, f)
             resent == IF f = Line THEN ResendHeldAcks(n, s, g) ELSE n
             result == RelayHeardRetry(n, s, f, h, c, g)
  <1>0. n \in Station BY DEF Good
  <1>1. Good(heard, s)
    <2>1. /\ heard \in Station /\ heard.row = n.row /\ heard.copies = n.copies
          /\ heard.queue = n.queue
      BY <1>0 DEF Station
    <2> HIDE DEF heard
    <2> QED BY <2>1, RestGood
  <1>2. Good(Cancel(a, f), s)
    <2> HIDE DEF heard
    <2>1. Calms(heard, a, s) BY <1>1, ReleaseCalms DEF Good
    <2>2. Good(a, s) BY <1>1, <2>1, CalmsGood
    <2> HIDE DEF a
    <2> QED BY <2>2, CancelCalms, CalmsGood DEF Good
  <1>3. /\ Good(resent, s) /\ resent.row = n.row
        /\ resent.copies[f] = n.copies[f] \/ f # Line
        /\ f # Line => resent = n
    BY ResendGood
  <1>4. \/ result \in {Cancel(a, f), heard, n, resent}
        \/ /\ result = Dispatch(resent, s, f)
           /\ MayRelay(resent, s, f) /\ ~CopiesSpent(resent, f)
           /\ f # Line => ~(n.copies[f] > 0)
    BY DEF RelayHeardRetry
  <1> HIDE DEF resent, a, heard, result
  <1>5. ASSUME MayRelay(resent, s, f), ~CopiesSpent(resent, f),
               f # Line => ~(n.copies[f] > 0)
        PROVE  Good(Dispatch(resent, s, f), s)
    <2>1. Has(resent, f) BY <1>3 DEF Has
    <2>2. f = Line => resent.row[Line].mark \notin Finished
      BY <1>5, NetworkAssumption DEF MayRelay, MayRebroadcast, KindOf, Finished
    <2>3. resent \in Station BY <1>3 DEF Good
    <2>4. resent.copies[f] + 1 <= Most(f) BY <1>5, <2>3, UnspentFits
    <2>5. resent.copies[f] + 1 <= Early(f)
      <3>1. CASE f = Line BY <1>5, <2>3, <3>1, UnspentFits
      <3>2. CASE f # Line
        <4>1. resent.copies[f] = 0 BY <1>0, <1>3, <1>5, <3>2, CopiesType
        <4> QED BY <3>2, <4>1 DEF Early
      <3> QED BY <3>1, <3>2
    <2> QED BY <1>3, <2>1, <2>2, <2>4, <2>5, DispatchGood
  <1> QED BY <1>1, <1>2, <1>3, <1>4, <1>5 DEF result

LEMMA AnswerAgainCalms ==
  ASSUME NEW n \in Station, NEW s \in Node, NEW h \in Hops
  PROVE  Calms(n, AnswerAgain(n, s, h), s)
  <1> DEFINE js == n.jobs \cup {<<s, n.row[s].hops>>}
             m == [n EXCEPT !.downstream = @ \ {s}, !.keyed = n.keyed + 1, !.jobs = js]
  <1>0. s \in Frame /\ n.row[s].hops \in Hops BY FrameFacts, HoldRow
  <1>1. CASE Has(n, s)
    <2>1. n.keyed + 1 \in Nat BY SMT DEF Station
    <2>2. js \in SUBSET (Node \X Hops) BY <1>0 DEF Station
    <2> HIDE DEF js
    <2>3. m \in Station BY <2>1, <2>2 DEF Station
    <2>4. m.row = n.row /\ m.copies = n.copies /\ m.queue = n.queue BY DEF Station
    <2>5. AnswerAgain(n, s, h) = m BY <1>1 DEF AnswerAgain, js
    <2> HIDE DEF m
    <2> QED BY <2>3, <2>4, <2>5, RestCalms
  <1>2. CASE ~Has(n, s) BY <1>2, AcknowledgeCalms DEF AnswerAgain
  <1> QED BY <1>1, <1>2

LEMMA MaybeAnswerGood ==
  ASSUME NEW n, NEW s \in Node, NEW f \in Frame, NEW h \in Hops, NEW c, NEW g,
         Good(n, s), Has(n, f), ~Own(s, f)
  PROVE  Good(MaybeAnswerRetry(n, s, f, h, c, g), s)
  <1> DEFINE member == s \in Members
             forUs == \/ LineKind = "direct" /\ s = Dest
                      \/ LineKind = "bulletin"
                      \/ LineKind = "closed" /\ member
             wanted == forUs /\ CopyWantsNewAck(h, n.row[f].hops) /\ ~OwnReceiptWalking(n, s)
             more == [n EXCEPT !.asked = n.asked + 1]
             counted == IF wanted THEN more ELSE n
             go == wanted /\ g.answers /\ OwnReceiptAllowed(counted.keyed, counted.asked)
             answered == IF go THEN AnswerAgain(counted, s, h) ELSE counted
  <1>0. n \in Station BY DEF Good
  <1>1. Good(counted, s) /\ counted.row = n.row
    <2>1. n.asked + 1 \in Nat BY <1>0, SMT DEF Station
    <2>2. more \in Station /\ more.row = n.row /\ more.copies = n.copies
          /\ more.queue = n.queue
      BY <1>0, <2>1 DEF Station
    <2> HIDE DEF more
    <2>3. Good(more, s) BY <2>2, RestGood
    <2> QED BY <2>2, <2>3
  <1>2. MaybeAnswerRetry(n, s, f, h, c, g) =
          IF f # Line \/ ~AcksLine(LineKind, h, Ttl) THEN RelayHeardRetry(n, s, f, h, c, g)
          ELSE IF LineKind = "closed" /\ ~member THEN answered
          ELSE RelayHeardRetry(answered, s, f, h, c, g)
    BY DEF MaybeAnswerRetry
  <1> HIDE DEF counted, go
  <1>3. Calms(counted, answered, s)
    BY <1>1, AnswerAgainCalms, EasesRefl DEF Good
  <1> HIDE DEF answered
  <1>4. Good(answered, s) BY <1>1, <1>3, CalmsGood
  <1>5. Has(answered, f)
    <2>1. Has(counted, f) BY <1>1 DEF Has
    <2> QED BY <1>3, <2>1 DEF Calms, Eases, EasesAt
  <1> QED BY <1>2, <1>4, <1>5, RelayHeardGood

\* The whole receive handler.
LEMMA OnEnvelopeGood ==
  ASSUME NEW n, NEW s \in Node, NEW f \in Frame, NEW h \in Hops, NEW l, NEW c, NEW g,
         Good(n, s)
  PROVE  Good(OnEnvelope(n, s, f, h, l, c, g), s)
  <1> DEFINE action == Decide(Has(n, f), h, n.row[f].mark \in {"queued", "sent"})
             acc == Accept(n, s, f, h, l)
             r == NewRow("queued", 0, FALSE)
             drop == Insert(n, f, r)
             sup == Suppress(n, f)
             rel == Advance(sup, f, "relayed")
             dup == IF DuplicateSuppresses(KindOf(f), h, n.row[f].hops) THEN Cancel(rel, f) ELSE n
             result == OnEnvelope(n, s, f, h, l, c, g)
  <1>0. n \in Station BY DEF Good
  <1>1. CASE Own(s, f)
    <2>1. result = OwnFrameHeard(n, f, h) BY <1>1 DEF OnEnvelope
    <2> QED BY <1>0, <2>1, OwnFrameCalms, CalmsGood
  <1>2. CASE ~Own(s, f) /\ Has(n, f)
    <2>1. action \in {"suppress", "ignore"} BY <1>2 DEF Decide
    <2>2. Calms(n, dup, s)
      <3>1. Calms(n, sup, s) BY <1>0, SuppressCalms
      <3> HIDE DEF sup
      <3>2. sup \in Station => Calms(sup, rel, s) BY MarkTypes, Unfinished, AdvanceEases
      <3>3. Calms(n, rel, s) BY <3>1, <3>2, CalmsThen
      <3> HIDE DEF rel
      <3>4. rel \in Station => Calms(rel, Cancel(rel, f), s) BY CancelCalms
      <3>5. Calms(n, Cancel(rel, f), s) BY <3>3, <3>4, CalmsThen
      <3> QED BY <1>0, <3>5, EasesRefl
    <2>3. \E t \in {dup, n} : result = MaybeAnswerRetry(t, s, f, h, c, g)
      BY <1>2, <2>1 DEF OnEnvelope, Decide
    <2> HIDE DEF dup
    <2>4. PICK t \in {dup, n} : result = MaybeAnswerRetry(t, s, f, h, c, g) BY <2>3
    <2>5. Calms(n, t, s) BY <1>0, <2>2, EasesRefl
    <2>6. Good(t, s) BY <2>5, CalmsGood
    <2>7. Has(t, f) BY <1>2, <2>5 DEF Calms, Eases, EasesAt
    <2> QED BY <1>2, <2>4, <2>6, <2>7, MaybeAnswerGood
  <1>3. CASE ~Own(s, f) /\ ~Has(n, f)
    <2> DEFINE taken == IF h = 0 THEN drop ELSE acc
    <2>1. /\ Eases(n, taken, s)
          /\ f # Line /\ LineKind # "direct" => Milder(n, taken)
          /\ f = Line => taken.queue = n.queue
      <3>1. CASE h = 0
        <4>1. r \in Row /\ r.mark = "queued" BY HopFacts, MarkTypes, NewRowType
        <4> HIDE DEF r
        <4>2. Calms(n, drop, s) /\ drop.queue = n.queue
          BY <1>0, <4>1, Unfinished, InsertEffect
        <4> HIDE DEF drop
        <4> QED BY <3>1, <4>2 DEF Calms
      <3>2. CASE h # 0 BY <1>0, <1>3, <3>2, AcceptEases
      <3> QED BY <3>1, <3>2
    <2>2. result = IF f = Line THEN LineArrived(taken, s, h) ELSE AckArrived(taken, s, f, c)
      BY <1>3 DEF OnEnvelope, Decide
    <2> HIDE DEF taken, result
    <2>3. taken \in Station BY <2>1, EasesType
    <2>4. CASE f = Line
      <3>1. Eases(taken, result, s) /\ result.queue = taken.queue
        BY <2>2, <2>3, <2>4, LineArrivedEases
      <3>2. n.queue = {} BY <1>3, <2>4 DEF Good, Calm, Has
      <3>3. Milder(n, result) BY <2>1, <2>4, <3>1, <3>2 DEF Milder
      <3>4. Eases(n, result, s) BY <2>1, <3>1, EasesTrans
      <3> QED BY <3>3, <3>4, CalmsGood DEF Calms, result
    <2>5. CASE f # Line
      <3>0. f \in Node BY <2>5, FrameFacts
      <3>1. /\ Eases(taken, result, s)
            /\ result.queue = {} \/ (LineKind # "direct" /\ Milder(taken, result))
        BY <2>2, <2>3, <2>5, <3>0, AckArrivedEases
      <3>2. Milder(n, result)
        <4>1. CASE result.queue = {} BY <4>1 DEF Milder
        <4>2. CASE LineKind # "direct" /\ Milder(taken, result)
          BY <2>1, <2>5, <4>2, MilderTrans
        <4> QED BY <3>1, <4>1, <4>2
      <3>3. Eases(n, result, s) BY <2>1, <3>1, EasesTrans
      <3> QED BY <3>2, <3>3, CalmsGood DEF Calms, result
    <2> QED BY <2>4, <2>5
  <1> QED BY <1>1, <1>2, <1>3

-----------------------------------------------------------------------------
(***************************************************************************)
(* The timers, the age limit, the flush and the restart.                   *)
(***************************************************************************)
\* A relay went out and its row is let go or waits for a repeat.
LEMMA RelayedGood ==
  ASSUME NEW n, NEW q \in Station, NEW s, NEW f \in Frame,
         Good(n, s), f = Line => n.row[Line].mark \notin Finished,
         n.copies[f] + 1 <= Most(f),
         q.copies = Dispatch(n, s, f).copies, q.queue = Dispatch(n, s, f).queue,
         \A e \in Frame : e # f => q.row[e] = n.row[e],
         Has(q, f), ~FirstDue(q, f),
         f = Line => q.row[Line].mark \notin Finished
  PROVE  Good(q, s)
  <1> DEFINE m == Dispatch(n, s, f)
  <1>1. n \in Station BY DEF Good
  <1>2. /\ f # Line => m.queue = n.queue
        /\ \A e \in Frame : e # f \/ Own(s, f) => m.copies[e] = n.copies[e]
        /\ m.copies[f] \in {n.copies[f], n.copies[f] + 1}
    BY <1>1, DispatchEffect
  <1>3. q.copies = m.copies /\ q.queue = m.queue OBVIOUS
  <1> HIDE DEF m
  <1>4. Calm(q)
    <2>1. CASE f = Line BY <2>1 DEF Calm, Has
    <2>2. CASE f # Line BY <1>2, <1>3, <2>2, FrameFacts DEF Good, Calm
    <2> QED BY <2>1, <2>2
  <1>5. ASSUME NEW e \in Frame, ~Own(s, e) PROVE CappedAt(q, e)
    <2>1. CappedAt(n, e) BY <1>5 DEF Good, Capped
    <2>2. CASE e = f
      <3>1. q.copies[e] <= Most(e) BY <1>2, <1>3, <2>1, <2>2 DEF CappedAt
      <3> QED BY <2>2, <3>1 DEF CappedAt
    <2>3. CASE e # f
      BY <1>2, <1>3, <2>1, <2>3 DEF CappedAt, Has, FirstDue, HoldUntil
    <2> QED BY <2>2, <2>3
  <1> QED BY <1>4, <1>5 DEF Good, Capped

\* What the hold pump does with a row it may relay.
LEMMA PumpedOutcomes ==
  ASSUME NEW n \in Station, NEW s \in Node, NEW f \in Frame, NEW c, MayRelay(n, s, f)
  PROVE  LET sent == Dispatch(n, s, f)
             tired == n.row[f].tries > 0 /\ CopiesSpent(n, f)
         IN  \/ Pumped(n, s, f, c) = Release(n, f)
             \/ Pumped(n, s, f, c) = Release(sent, f) /\ ~tired
             \/ /\ Pumped(n, s, f, c) = BumpRetry(Advance(sent, f, "relayed"), f)
                /\ n.row[f].tries < MaxRetries /\ ~tired
  <1> DEFINE sent == Dispatch(n, s, f)
             up == Advance(sent, f, "relayed")
             max == n.row[f].tries < MaxRetries
             tired == n.row[f].tries > 0 /\ CopiesSpent(n, f)
  <1>1. n.row[f].tries \in Nat /\ MaxRetries \in Nat
    BY HoldRow, BoundsAssumption, SMT
  <1> DEFINE heard == f \in n.downstream \/ (f = Line /\ ReachedNeighbours(n, f, c))
             r == n.row[f]
             walks == \/ KeepRelaying(KindOf(f), r.hops, r.tries, MaxRetries, heard)
                      \/ GroupWalkContinues(KindOf(f), r.hops, r.tries, MaxRetries, heard)
                      \/ AckRelayWalks(KindOf(f), r.hops, NextToOrigin(n, f), r.tries, MaxRetries, heard)
  <1>2. walks => max
    <2> HIDE DEF heard
    <2>1. \A h : AckWalkContinues(h, r.tries, MaxRetries) => max
      BY DEF AckWalkContinues
    <2>2. \A h : AckWalkContinues(h, r.tries, LesserOf(MaxRetries, 1)) => max
      BY <1>1, SMT DEF AckWalkContinues, LesserOf
    <2> HIDE DEF max
    <2> QED BY <2>1, <2>2 DEF KeepRelaying, GroupWalkContinues, AckRelayWalks,
                              NEXT_TO_ORIGIN_ACK_REPEATS
  <1>3. Pumped(n, s, f, c) =
          IF IsEcho(n, s, f, c) \/ (r.tries > 0 /\ (heard \/ CopiesSpent(n, f)))
          THEN Release(n, f)
          ELSE IF walks THEN BumpRetry(up, f) ELSE Release(sent, f)
    BY DEF Pumped
  <1> HIDE DEF walks, heard, sent, max
  <1> QED BY <1>2, <1>3 DEF sent, max

LEMMA PumpedGood ==
  ASSUME NEW n, NEW s \in Node, NEW f \in Frame, NEW c,
         Good(n, s), HoldUntil(n, f), ~Own(s, f)
  PROVE  Good(Pumped(n, s, f, c), s)
  <1> DEFINE zero == SetHold(n, f, FALSE, 0)
             sent == Dispatch(n, s, f)
             up == Advance(sent, f, "relayed")
             max == n.row[f].tries < MaxRetries
             tired == n.row[f].tries > 0 /\ CopiesSpent(n, f)
  <1>0. n \in Station /\ Has(n, f) BY DEF Good, HoldUntil
  <1>1. Good(Cancel(zero, f), s)
    <2>1. Calms(n, zero, s) BY <1>0, HopFacts, SetHoldCalms
    <2> HIDE DEF zero
    <2>2. Good(zero, s) BY <2>1, CalmsGood
    <2> QED BY <2>2, CancelCalms, CalmsGood DEF Good
  <1>2. CASE ~MayRelay(n, s, f)
    <2>1. Pumped(n, s, f, c) = Cancel(zero, f) BY <1>2 DEF Pumped
    <2> QED BY <1>1, <2>1
  <1>3. CASE MayRelay(n, s, f)
    <2>1. f = Line => n.row[Line].mark \notin Finished
      BY <1>3, NetworkAssumption DEF MayRelay, MayRebroadcast, KindOf, Finished
    <2>2. \/ Pumped(n, s, f, c) = Release(n, f)
          \/ Pumped(n, s, f, c) = Release(sent, f) /\ ~tired
          \/ Pumped(n, s, f, c) = BumpRetry(up, f) /\ max /\ ~tired
      BY <1>0, <1>3, PumpedOutcomes
    <2>3. Good(Release(n, f), s) BY <1>0, ReleaseCalms, CalmsGood
    <2>4. ~tired => n.copies[f] + 1 <= Most(f)
      <3>1. CASE n.row[f].tries = 0
        <4>1. CappedAt(n, f) /\ FirstDue(n, f) BY <3>1 DEF Good, Capped, FirstDue
        <4>2. n.copies[f] \in Nat /\ MaxRetries \in Nat
          BY <1>0, CopiesType, BoundsAssumption
        <4>3. n.copies[f] <= Early(f) BY <4>1 DEF CappedAt
        <4> QED BY <4>2, <4>3, SMT DEF Early, Most, RELAY_MAX_COPIES
      <3>2. CASE n.row[f].tries # 0
        <4>1. n.row[f].tries \in Nat BY <1>0, HoldRow, BoundsAssumption, SMT
        <4>2. n.row[f].tries > 0 BY <3>2, <4>1, SMT
        <4> QED BY <1>0, <4>2, UnspentFits
      <3> QED BY <3>1, <3>2
    <2>5. sent \in Station /\ sent.row = n.row BY <1>0, DispatchEffect
    <2>6. ~tired => Good(Release(sent, f), s)
      <3> DEFINE q == Release(sent, f)
      <3> DEFINE t == [sent.row[f] EXCEPT !.hold = FALSE, !.hops = sent.row[f].hops]
      <3>0. t \in Row /\ t.hold = FALSE /\ t.mark = sent.row[f].mark
        BY <2>5, RowType DEF Row
      <3>1. q = [sent EXCEPT !.row[f] = t]
        BY <1>0, <2>5 DEF Release, SetHold, Has
      <3> HIDE DEF t, sent, q
      <3>2. /\ q \in Station /\ q.copies = sent.copies /\ q.queue = sent.queue
            /\ \A e \in Frame : q.row[e] = IF e = f THEN t ELSE sent.row[e]
        BY <2>5, <3>0, <3>1, PutRow
      <3> HIDE DEF q
      <3>3. Has(q, f) /\ ~FirstDue(q, f)
        BY <1>0, <2>5, <3>0, <3>2 DEF Has, FirstDue, HoldUntil
      <3>4. f = Line => q.row[Line].mark \notin Finished BY <2>1, <2>5, <3>0, <3>2
      <3>5. \A e \in Frame : e # f => q.row[e] = n.row[e] BY <2>5, <3>2
      <3> HIDE DEF tired
      <3> QED BY <2>1, <2>4, <3>2, <3>3, <3>4, <3>5, RelayedGood DEF q, sent
    <2>7. ~tired /\ max => Good(BumpRetry(up, f), s)
      <3> DEFINE q == BumpRetry(up, f)
      <3> HIDE DEF sent
      <3>1. /\ up \in Station
            /\ \A e \in Frame : e # f => up.row[e] = sent.row[e]
            /\ up.row[f].tries = sent.row[f].tries
            /\ up.row[f].mark \in {"relayed", sent.row[f].mark}
            /\ Has(sent, f) <=> Has(up, f)
            /\ up.copies = sent.copies /\ up.queue = sent.queue
        <4>1. \/ up = sent
              \/ /\ Has(sent, f)
                 /\ up = [sent EXCEPT !.row[f] = [sent.row[f] EXCEPT !.mark = "relayed"]]
          BY DEF Advance
        <4> HIDE DEF up
        <4> QED BY <2>5, <4>1, MarkTypes, MarkEffect
      <3> HIDE DEF up
      <3>2. max => up.row[f].tries <= MaxRetries
        BY <1>0, <2>5, <3>1, HoldRow, BoundsAssumption, SMT
      <3> HIDE DEF max
      <3>3. max => /\ q \in Station
                   /\ \A e \in Frame : /\ q.row[e].mark = up.row[e].mark
                                       /\ e # f => q.row[e] = up.row[e]
                   /\ q.row[f].tries # 0
                   /\ q.copies = up.copies /\ q.queue = up.queue
        BY <3>1, <3>2, BumpEffect
      <3> HIDE DEF q
      <3>4. max => Has(q, f) /\ ~FirstDue(q, f)
        BY <1>0, <2>5, <3>1, <3>3 DEF Has, FirstDue
      <3>5. max /\ f = Line => q.row[Line].mark \notin Finished
        BY <2>1, <2>5, <3>1, <3>3, Unfinished
      <3>6. max => \A e \in Frame : e # f => q.row[e] = n.row[e] BY <2>5, <3>1, <3>3
      <3>7. max => q.copies = sent.copies /\ q.queue = sent.queue BY <3>1, <3>3
      <3> HIDE DEF tired
      <3> QED BY <2>1, <2>4, <3>3, <3>4, <3>5, <3>6, <3>7, RelayedGood DEF q, sent
    <2> QED BY <2>2, <2>3, <2>6, <2>7
  <1> QED BY <1>2, <1>3

LEMMA RetryGood ==
  ASSUME NEW n, NEW s \in Node, NEW f \in Frame,
         Good(n, s), Has(n, f), Own(s, f), n.row[f].tries < MaxRetries
  PROVE  Good(RetryStep(n, s, f), s)
  <1> DEFINE sent == Dispatch(n, s, f)
             zero == SetHold(n, f, FALSE, 0)
             done == SetHold(sent, f, FALSE, 0)
             bump == BumpRetry(sent, f)
  <1>0. n \in Station BY DEF Good
  <1>1. \/ RetryStep(n, s, f) = FinishAckWalk(n, f) /\ f # Line
        \/ RetryStep(n, s, f) = zero
        \/ /\ RetryStep(n, s, f) \in {done, bump}
           /\ f # Line \/ StillAwaitingAck(n, f)
    BY AckKind DEF RetryStep
  <1>2. f # Line => Good(FinishAckWalk(n, f), s) BY <1>0, FinishCalms, CalmsGood
  <1>3. Good(zero, s) BY <1>0, HopFacts, SetHoldCalms, CalmsGood
  <1>4. ASSUME f # Line \/ StillAwaitingAck(n, f)
        PROVE  Good(done, s) /\ Good(bump, s)
    <2>1. f = Line => n.row[Line].mark \notin Finished
      BY <1>4 DEF StillAwaitingAck, Unanswered, GroupStillWaiting, Finished
    <2>2. Good(sent, s) BY <2>1, DispatchGood
    <2>3. sent \in Station /\ sent.row = n.row BY <1>0, DispatchEffect
    <2> HIDE DEF sent
    <2>4. Good(done, s) BY <2>2, <2>3, HopFacts, SetHoldCalms, CalmsGood
    <2>5. sent.row[f].tries <= MaxRetries
      BY <1>0, <2>3, HoldRow, BoundsAssumption, SMT
    <2>6. Good(bump, s) BY <2>2, <2>3, <2>5, BumpCalms, CalmsGood
    <2> QED BY <2>4, <2>6
  <1> HIDE DEF zero, done, bump
  <1> QED BY <1>1, <1>2, <1>3, <1>4

LEMMA AckWaitGood ==
  ASSUME NEW n, NEW s \in Node, NEW f \in Frame, Good(n, s)
  PROVE  Good(AckWaitStep(n, f), s)
  <1> DEFINE closed == SetHold(n, f, FALSE, 0)
             failed == Advance(closed, f, "failed")
  <1>0. n \in Station BY DEF Good
  <1>1. \/ AckWaitStep(n, f) = FinishAckWalk(n, f) /\ f # Line
        \/ AckWaitStep(n, f) = BumpRetry(n, f) /\ n.row[f].tries = MaxRetries
        \/ AckWaitStep(n, f) \in {closed, failed}
    BY AckKind DEF AckWaitStep, AckWaitRunsOn
  <1>2. Good(closed, s) BY <1>0, HopFacts, SetHoldCalms, CalmsGood
  <1> HIDE DEF closed
  <1>3. Good(failed, s)
    BY <1>2, MarkTypes, Unfinished, AdvanceEases, CalmsGood DEF Good
  <1> HIDE DEF failed
  <1>4. n.row[f].tries = MaxRetries => Good(BumpRetry(n, f), s)
    <2>1. MaxRetries <= MaxRetries BY BoundsAssumption
    <2> QED BY <1>0, <2>1, BumpCalms, CalmsGood
  <1>5. f # Line => Good(FinishAckWalk(n, f), s) BY <1>0, FinishCalms, CalmsGood
  <1> QED BY <1>1, <1>2, <1>3, <1>4, <1>5

\* All rows replaced, each by itself or by one that is not on hold.
LEMMA RowsCalm ==
  ASSUME NEW n \in Station, NEW s, NEW R \in [Frame -> Row],
         \A f \in Frame : /\ R[f] = n.row[f] \/ R[f].hold = FALSE
                          /\ \/ R[f].mark = n.row[f].mark
                             \/ R[f].mark = "failed" /\ Has(n, f)
  PROVE  Calms(n, [n EXCEPT !.row = R], s)
  <1> DEFINE m == [n EXCEPT !.row = R]
  <1>1. m \in Station /\ m.row = R /\ m.copies = n.copies /\ m.queue = n.queue
    BY DEF Station
  <1> HIDE DEF m
  <1>2. Eases(n, m, s) BY <1>1 DEF Eases, EasesAt, Has, FirstDue, HoldUntil
  <1>3. Milder(n, m) BY <1>1, FrameFacts, Unfinished DEF Milder
  <1> QED BY <1>2, <1>3 DEF Calms, m

LEMMA FailingCalms ==
  ASSUME NEW n \in Station, NEW s, NEW F
  PROVE  Calms(n, Failing(n, s, F), s)
  <1> DEFINE lost(f) == [n.row[f] EXCEPT !.mark = "failed", !.hold = FALSE]
             fails(f) == f \in F /\ Own(s, f) /\ n.row[f].mark \in Failable
             R == [f \in Frame |-> IF fails(f) THEN lost(f) ELSE n.row[f]]
  <1>1. ASSUME NEW f \in Frame
        PROVE  /\ R[f] \in Row
               /\ R[f] = n.row[f] \/ R[f].hold = FALSE
               /\ \/ R[f].mark = n.row[f].mark
                  \/ R[f].mark = "failed" /\ Has(n, f)
    <2>0. n.row[f] \in Row BY RowType
    <2>1. CASE fails(f)
      <3>1. lost(f) \in Row /\ lost(f).mark = "failed" /\ lost(f).hold = FALSE
        BY <2>0, MarkTypes DEF Row
      <3>2. Has(n, f) BY <2>1 DEF Failable, Has
      <3>3. R[f] = lost(f) BY <2>1
      <3> HIDE DEF R, lost
      <3> QED BY <3>1, <3>2, <3>3
    <2>2. CASE ~fails(f)
      <3>1. R[f] = n.row[f] BY <2>2
      <3> HIDE DEF R
      <3> QED BY <2>0, <3>1
    <2> QED BY <2>1, <2>2
  <1>2. R \in [Frame -> Row] BY <1>1
  <1>3. Failing(n, s, F) = [n EXCEPT !.row = R] BY DEF Failing
  <1>4. Calms(n, [n EXCEPT !.row = R], s)
    <2> HIDE DEF R
    <2> QED BY <1>1, <1>2, RowsCalm
  <1> HIDE DEF R
  <1> QED BY <1>3, <1>4

LEMMA QuietCalms ==
  ASSUME NEW n \in Station, NEW s
  PROVE  Calms(n, [n EXCEPT !.row = [f \in Frame |->
                     IF Own(s, f) THEN n.row[f] ELSE [n.row[f] EXCEPT !.hold = FALSE]]], s)
  <1> DEFINE still(f) == [n.row[f] EXCEPT !.hold = FALSE]
             R == [f \in Frame |-> IF Own(s, f) THEN n.row[f] ELSE still(f)]
  <1>1. ASSUME NEW f \in Frame
        PROVE  /\ R[f] \in Row
               /\ R[f] = n.row[f] \/ R[f].hold = FALSE
               /\ R[f].mark = n.row[f].mark
    <2>0. n.row[f] \in Row BY RowType
    <2>1. still(f) \in Row /\ still(f).mark = n.row[f].mark /\ still(f).hold = FALSE
      BY <2>0 DEF Row
    <2>2. R[f] \in {n.row[f], still(f)} OBVIOUS
    <2> HIDE DEF R, still
    <2> QED BY <2>0, <2>1, <2>2
  <1>2. R \in [Frame -> Row] BY <1>1
  <1>3. Calms(n, [n EXCEPT !.row = R], s)
    <2> HIDE DEF R
    <2> QED BY <1>1, <1>2, RowsCalm
  <1> QED BY <1>3

LEMMA StoppedGood ==
  ASSUME NEW n, NEW s, Good(n, s)
  PROVE  Good(Stopped(n.row, n.receipts, n.heardAt), s)
  <1> DEFINE m == Stopped(n.row, n.receipts, n.heardAt)
  <1>1. /\ m \in Station /\ m.queue = {} /\ \A e \in Frame : m.copies[e] = 0
    BY DEF Good, Station, Stopped
  <1> HIDE DEF m
  <1>2. \A e \in Frame : 0 <= Most(e) /\ 0 <= Early(e)
    BY BoundsAssumption, SMT DEF Most, Early, RELAY_MAX_COPIES
  <1>3. \A e \in Frame : CappedAt(m, e) BY <1>1, <1>2 DEF CappedAt
  <1> QED BY <1>1, <1>3 DEF Good, Capped, Calm, m

-----------------------------------------------------------------------------
(***************************************************************************)
(* The steps and the theorems.                                             *)
(***************************************************************************)
AllGood == \A s \in Node : Good(node[s], s)

LEMMA Becoming ==
  ASSUME IInv, AllGood, NEW s \in Node, NEW n, Becomes(s, n), Good(n, s)
  PROVE  AllGood'
  BY TypeFacts DEF AllGood, Becomes

LEMMA SendLineGood ==
  ASSUME IInv, AllGood, SendLine
  PROVE  AllGood'
  <1> DEFINE n == node[Origin]
             r == NewRow("queued", Ttl, FALSE)
             stored == Insert(n, Line, r)
             handed == Dispatch(stored, Origin, Line)
             sent == SetDelivery(handed, Line, "sent")
             armed == SetHold(sent, Line, TRUE, Ttl)
  <1>0. Origin \in Node /\ Line \in Frame /\ Own(Origin, Line)
    BY FrameFacts DEF Own, OriginOf
  <1>1. n \in Station /\ ~Has(n, Line) /\ Good(n, Origin)
    BY <1>0, TypeFacts DEF SendLine, AllGood
  <1>2. Becomes(Origin, armed) BY DEF SendLine
  <1>3. r \in Row /\ r.mark = "queued"
    BY HopFacts, MarkTypes, NewRowType
  <1> HIDE DEF r, n
  <1>4. Good(stored, Origin) /\ stored.row[Line].mark = "queued"
    <2>1. Calms(n, stored, Origin) BY <1>0, <1>1, <1>3, Unfinished, InsertEffect
    <2>2. stored = [n EXCEPT !.row[Line] = r] BY <1>1 DEF Insert
    <2> HIDE DEF stored
    <2> QED BY <1>0, <1>1, <1>3, <2>1, <2>2, PutRow, CalmsGood
  <1> HIDE DEF stored
  <1>5. Good(handed, Origin)
    BY <1>0, <1>4, Unfinished, DispatchGood DEF Has
  <1> HIDE DEF handed
  <1>6. Good(sent, Origin)
    <2>1. Calms(handed, sent, Origin)
      BY <1>0, <1>5, MarkTypes, Unfinished, SetDeliveryEases DEF Good
    <2> QED BY <1>5, <2>1, CalmsGood
  <1> HIDE DEF sent
  <1>7. Good(armed, Origin)
    <2>1. Calms(sent, armed, Origin)
      BY <1>0, <1>6, HopFacts, SetHoldCalms DEF Good
    <2> QED BY <1>6, <2>1, CalmsGood
  <1> HIDE DEF armed
  <1> QED BY <1>0, <1>2, <1>7, Becoming

LEMMA KeyGood ==
  ASSUME IInv, AllGood, NEW s \in Node, KeyLine(s) \/ KeyAck(s)
  PROVE  AllGood'
  <1>0. node[s] \in Station /\ Good(node[s], s) BY TypeFacts DEF AllGood
  <1>1. CASE KeyLine(s)
    <2> DEFINE n == [node[s] EXCEPT !.queue = {}]
    <2>1. Becomes(s, n) BY <1>1 DEF KeyLine
    <2>2. n = Cancel(node[s], Line) BY DEF Cancel
    <2> HIDE DEF n
    <2>3. Good(n, s) BY <1>0, <2>2, CancelCalms, CalmsGood
    <2> QED BY <2>1, <2>3, Becoming
  <1>2. CASE KeyAck(s)
    <2>1. PICK job \in node[s].jobs : Becomes(s, [node[s] EXCEPT !.jobs = @ \ {job}])
      BY <1>2 DEF KeyAck
    <2> DEFINE n == [node[s] EXCEPT !.jobs = @ \ {job}]
    <2>2. Becomes(s, n) BY <2>1
    <2>3. /\ n \in Station /\ n.row = node[s].row /\ n.copies = node[s].copies
          /\ n.queue = node[s].queue
      BY <1>0 DEF Station
    <2> HIDE DEF n
    <2>4. Good(n, s) BY <1>0, <2>3, RestGood
    <2> QED BY <2>2, <2>4, Becoming
  <1> QED BY <1>1, <1>2

LEMMA ReceiveGood ==
  ASSUME IInv, AllGood, NEW s \in Node, Receive(s)
  PROVE  AllGood'
  <1>1. PICK m \in inbox[s] : \E c \in Around(s), g \in Gaps(s, m[1]) :
          Becomes(s, OnEnvelope(node[s], s, m[1], m[2],
                                IF m[1] = Line THEN 0 ELSE node[m[1]].heardAt, c, g))
    BY DEF Receive
  <1>2. PICK c \in Around(s), g \in Gaps(s, m[1]) :
          Becomes(s, OnEnvelope(node[s], s, m[1], m[2],
                                IF m[1] = Line THEN 0 ELSE node[m[1]].heardAt, c, g))
    BY <1>1
  <1> DEFINE f == m[1]
             h == m[2]
             l == IF f = Line THEN 0 ELSE node[f].heardAt
  <1>3. f \in Frame /\ h \in Hops /\ Good(node[s], s) BY TypeFacts DEF AllGood
  <1>4. Becomes(s, OnEnvelope(node[s], s, f, h, l, c, g)) BY <1>2
  <1> HIDE DEF l, f, h
  <1>5. Good(OnEnvelope(node[s], s, f, h, l, c, g), s) BY <1>3, OnEnvelopeGood
  <1> QED BY <1>4, <1>5, Becoming

LEMMA TimerGood ==
  ASSUME IInv, AllGood, NEW s \in Node, NEW f \in Frame,
         HoldDue(s, f) \/ RetryDue(s, f) \/ AckWaitDue(s, f)
  PROVE  AllGood'
  <1>0. Good(node[s], s) BY DEF AllGood
  <1>1. CASE HoldDue(s, f)
    <2>1. PICK c \in Around(s) : Becomes(s, Pumped(node[s], s, f, c))
      BY <1>1 DEF HoldDue
    <2>2. HoldUntil(node[s], f) /\ ~Own(s, f) BY <1>1 DEF HoldDue, RelayDue
    <2> QED BY <1>0, <2>1, <2>2, PumpedGood, Becoming
  <1>2. CASE RetryDue(s, f)
    <2>1. /\ Becomes(s, RetryStep(node[s], s, f)) /\ Own(s, f)
          /\ node[s].row[f].mark \in Retried /\ node[s].row[f].tries < MaxRetries
      BY <1>2 DEF RetryDue
    <2>2. Has(node[s], f) BY <2>1 DEF Has, Retried
    <2> QED BY <1>0, <2>1, <2>2, RetryGood, Becoming
  <1>3. CASE AckWaitDue(s, f)
    <2>1. Becomes(s, AckWaitStep(node[s], f)) BY <1>3 DEF AckWaitDue
    <2> QED BY <1>0, <2>1, AckWaitGood, Becoming
  <1> QED BY <1>1, <1>2, <1>3

LEMMA FaultGood ==
  ASSUME IInv, AllGood, NEW s \in Node,
         Flush(s) \/ Restart(s) \/ \E f \in Frame : Expire(s, f) \/ HoldAged(s, f)
  PROVE  AllGood'
  <1>0. node[s] \in Station /\ Good(node[s], s) BY TypeFacts DEF AllGood
  <1>1. CASE Flush(s)
    <2> DEFINE failed == Failing(node[s], s, Frame)
               quiet == [failed EXCEPT !.row = [f \in Frame |->
                          IF Own(s, f) THEN failed.row[f] ELSE [failed.row[f] EXCEPT !.hold = FALSE]]]
               n == IF Own(s, Line) /\ node[s].row[Line].mark \in Failable
                    THEN Cancel(quiet, Line) ELSE quiet
    <2>1. Becomes(s, n) BY <1>1 DEF Flush
    <2>2. Good(failed, s) BY <1>0, FailingCalms, CalmsGood
    <2> HIDE DEF failed
    <2>3. Good(quiet, s)
      <3>1. Calms(failed, quiet, s) BY <2>2, QuietCalms DEF Good
      <3> HIDE DEF quiet
      <3> QED BY <2>2, <3>1, CalmsGood
    <2> HIDE DEF quiet
    <2>4. Good(n, s) BY <2>3, CancelCalms, CalmsGood DEF Good
    <2> HIDE DEF n
    <2> QED BY <2>1, <2>4, Becoming
  <1>2. CASE Restart(s)
    <2>1. Becomes(s, Stopped(node[s].row, node[s].receipts, node[s].heardAt))
      BY <1>2 DEF Restart
    <2> QED BY <1>0, <2>1, StoppedGood, Becoming
  <1>3. ASSUME NEW f \in Frame, Expire(s, f) PROVE AllGood'
    <2> DEFINE failed == Failing(node[s], s, {f})
    <2>1. Becomes(s, Cancel(failed, f)) BY <1>3 DEF Expire
    <2>2. Good(failed, s) BY <1>0, FailingCalms, CalmsGood
    <2> HIDE DEF failed
    <2>3. Good(Cancel(failed, f), s) BY <2>2, CancelCalms, CalmsGood DEF Good
    <2> QED BY <2>1, <2>3, Becoming
  <1>4. ASSUME NEW f \in Frame, HoldAged(s, f) PROVE AllGood'
    <2>1. Becomes(s, SetHold(node[s], f, FALSE, 0)) BY <1>4 DEF HoldAged
    <2>2. Calms(node[s], SetHold(node[s], f, FALSE, 0), s)
      BY <1>0, HopFacts, SetHoldCalms
    <2>3. Good(SetHold(node[s], f, FALSE, 0), s) BY <1>0, <2>2, CalmsGood
    <2> QED BY <2>1, <2>3, Becoming
  <1> QED BY <1>1, <1>2, <1>3, <1>4

LEMMA InitGood ==
  ASSUME Init
  PROVE  AllGood
  <1>1. \A s \in Node : node[s] \in Station BY InitInvariant, TypeFacts
  <1>2. \A s \in Node : node[s] = Fresh BY DEF Init
  <1>3. Fresh.queue = {} /\ \A e \in Frame : Fresh.copies[e] = 0
    BY DEF Fresh, Stopped
  <1> HIDE DEF Fresh
  <1>4. \A e \in Frame : 0 <= Most(e) /\ 0 <= Early(e)
    BY BoundsAssumption, SMT DEF Most, Early, RELAY_MAX_COPIES
  <1> QED BY <1>1, <1>2, <1>3, <1>4 DEF AllGood, Good, Capped, CappedAt, Calm

\* No step leaves a finished line queued or a count past its cap.
LEMMA StepGood ==
  ASSUME IInv, AllGood, [Next]_vars
  PROVE  AllGood'
  <1>1. CASE SendLine BY <1>1, SendLineGood
  <1>2. CASE \E s \in Node : KeyLine(s) \/ KeyAck(s) BY <1>2, KeyGood
  <1>3. CASE \E s \in Node : Receive(s) BY <1>3, ReceiveGood
  <1>4. CASE \E s \in Node : Flush(s) \/ Restart(s) BY <1>4, FaultGood
  <1>5. CASE \E s \in Node, f \in Frame : HoldDue(s, f) \/ RetryDue(s, f) \/ AckWaitDue(s, f)
    BY <1>5, TimerGood
  <1>6. CASE \E s \in Node, f \in Frame : Expire(s, f) \/ HoldAged(s, f)
    BY <1>6, FaultGood
  <1>7. CASE UNCHANGED vars BY <1>7 DEF vars, AllGood
  <1> QED BY <1>1, <1>2, <1>3, <1>4, <1>5, <1>6, <1>7 DEF Next

\* What a station queues and counts stays within bounds in every behaviour.
THEOREM StationsGood == Spec => []AllGood
  <1>1. Init => AllGood BY InitGood
  <1>2. IInv /\ AllGood /\ [Next]_vars => AllGood' BY StepGood
  <1> QED BY <1>1, <1>2, Invariance, PTL DEF Spec

\* Once a direct line is [ok], or a group line [all], no copy of it waits in
\* the air queue: whichever of a receipt, a relay, a retry, the age limit or a
\* restart comes first (on_envelope, hold_pump and the ARQ loop of node.rs).
THEOREM FinishedQuiet == Spec => []FinishedIsNotKeyed
  <1>1. AllGood => FinishedIsNotKeyed
    BY DEF AllGood, Good, Calm, Finished, FinishedIsNotKeyed, LineMark
  <1> QED BY <1>1, StationsGood, PTL

\* A station keys someone else's frame at most once more than its cap, though
\* three paths count their copies: the first relay, which is not checked against
\* the cap, its repeats, and what later copies of the line ask for.
THEOREM CopiesCapped == Spec => []CopiesAreCapped
  <1>1. AllGood => CopiesAreCapped
    BY DEF AllGood, Good, Capped, CappedAt, Most, CopiesAreCapped
  <1> QED BY <1>1, StationsGood, PTL

-----------------------------------------------------------------------------
(***************************************************************************)
(* Giving a line up.                                                       *)
(***************************************************************************)
\* Who holds a receipt of its line has marked the line.
Told(n) == (\E r \in Node : Has(n, r)) => n.row[Line].mark \in {"delivered", "all"}

\* No receipt came, and no [no].
Spares(n, m) ==
  /\ \A r \in Node : Has(m, r) => Has(n, r)
  /\ m.row[Line].mark = "failed" => n.row[Line].mark = "failed"

LEMMA ReceiptStays ==
  ASSUME NEW n \in Station, NEW m, Later(n, m), n.row[Line].mark \in {"delivered", "all"}
  PROVE  m.row[Line].mark \in {"delivered", "all"}
  <1>1. /\ m \in Station /\ Has(m, Line)
        /\ Rank[n.row[Line].mark] <= Rank[m.row[Line].mark]
    BY FrameFacts DEF Later, Has
  <1>2. m.row[Line].mark \in Mark BY <1>1, FrameFacts, HoldRow
  <1>3. n.row[Line].mark \in Mark BY DEF Mark
  <1>4. Rank[n.row[Line].mark] \in {5, 6} BY RankValues
  <1>5. Rank[m.row[Line].mark] >= 5 BY <1>1, <1>2, <1>4, RankType, SMT
  <1> QED BY <1>2, <1>5, RankValues, SMT DEF Mark

\* A receipt that arrives at the sender marks the line at once.
LEMMA AckArrivedTells ==
  ASSUME NEW n \in Station, NEW f \in Node, NEW c, Has(n, Line)
  PROVE  AckArrived(n, Origin, f, c).row[Line].mark \in {"delivered", "all"}
  <1> DEFINE s == Origin
             e == [n EXCEPT !.downstream = @ \cup {Line}]
             ended == IF Has(n, Line) /\ AckEndsRelay(LineKind, f = Dest) THEN e ELSE n
             marked == IF AckMarksDelivered(Own(s, Line), LineKind)
                       THEN Advance(ended, Line, "delivered") ELSE ended
             closed == LineKind = "closed" /\ Has(n, Line)
             b == [marked EXCEPT !.receipts = @ \cup {f, s}]
             noted == IF closed THEN b ELSE marked
             alled == IF closed /\ AllReceived(noted) THEN Advance(noted, Line, "all") ELSE noted
             drop == /\ closed /\ ~Own(s, Line)
                     /\ QueuedRepeatUnneeded(alled.row[Line].tries)
                     /\ ReachedNeighbours(alled, Line, c)
             pruned == IF drop THEN Cancel(Release(alled, Line), Line) ELSE alled
             let == SetHold(pruned, Line, FALSE, 0)
  <1>0. Own(s, Line) BY DEF Own, OriginOf
  <1>1. ended \in Station /\ ended.row = n.row
    <2>1. e \in Station /\ e.row = n.row BY FrameFacts DEF Station
    <2> HIDE DEF e
    <2> QED BY <2>1
  <1> HIDE DEF ended
  <1>2. marked \in Station /\ marked.row[Line].mark \in {"delivered", "all"}
    <2>1. marked = Advance(ended, Line, "delivered")
      BY <1>0 DEF AckMarksDelivered
    <2> DEFINE t == [ended.row[Line] EXCEPT !.mark = "delivered"]
    <2>2. ended.row[Line] \in Row /\ ended.row[Line].mark \in Mark
      BY <1>1, FrameFacts, HoldRow, RowType DEF Has
    <2>3. t \in Row /\ t.mark = "delivered" BY <2>2, MarkTypes DEF Row
    <2>4. CASE Advances(ended.row[Line].mark, "delivered")
      <3>1. marked = [ended EXCEPT !.row[Line] = t]
        BY <1>1, <2>1, <2>4 DEF Advance, Has
      <3> HIDE DEF t, marked
      <3> QED BY <1>1, <2>3, <3>1, FrameFacts, PutRow
    <2>5. CASE ~Advances(ended.row[Line].mark, "delivered")
      <3>1. marked = ended BY <2>1, <2>5 DEF Advance
      <3>2. ended.row[Line].mark = "delivered" \/ ~(5 >= Rank[ended.row[Line].mark])
        BY <2>5, RankValues DEF Advances, CanAdvance
      <3>3. ended.row[Line].mark \in {"delivered", "all"}
        BY <2>2, <3>2, RankValues, SMT DEF Mark
      <3> HIDE DEF marked
      <3> QED BY <1>1, <3>1, <3>3
    <2> QED BY <2>4, <2>5
  <1> HIDE DEF marked
  <1>3. noted \in Station /\ noted.row = marked.row
    <2>1. b \in Station /\ b.row = marked.row BY <1>2, FrameFacts DEF Station
    <2> HIDE DEF b
    <2> QED BY <1>2, <2>1
  <1> HIDE DEF noted
  <1>4. alled \in Station /\ alled.row[Line].mark \in {"delivered", "all"}
    <2> DEFINE a == Advance(noted, Line, "all")
    <2>1. \/ a = noted
          \/ /\ Has(noted, Line)
             /\ a = [noted EXCEPT !.row[Line] = [noted.row[Line] EXCEPT !.mark = "all"]]
      BY DEF Advance
    <2> HIDE DEF a, closed
    <2>2. noted \in Station /\ Line \in Frame /\ "all" \in Mark
      BY <1>3, MarkTypes, FrameFacts
    <2>3. a \in Station /\ a.row[Line].mark \in {"all", noted.row[Line].mark}
      BY <2>1, <2>2, MarkEffect
    <2> QED BY <1>2, <1>3, <2>3 DEF a
  <1> HIDE DEF alled
  <1>5. pruned = alled BY <1>0
  <1>6. let \in Station /\ let.row[Line].mark = alled.row[Line].mark
    <2>1. Calms(alled, let, s) BY <1>4, <1>5, FrameFacts, HopFacts, SetHoldCalms
    <2> DEFINE t == [alled.row[Line] EXCEPT !.hold = FALSE, !.hops = 0]
    <2>2. t \in Row /\ t.mark = alled.row[Line].mark
      BY <1>4, FrameFacts, HopFacts, RowType DEF Row
    <2>3. let = [alled EXCEPT !.row[Line] = t]
      BY <1>4, <1>5 DEF SetHold, Has
    <2> HIDE DEF t, let
    <2> QED BY <1>4, <2>2, <2>3, FrameFacts, PutRow
  <1> HIDE DEF pruned, let
  <1>7. Cancel(let, Line).row = let.row BY <1>6 DEF Cancel, Station
  <1>8. AckArrived(n, s, f, c) \in {pruned, Cancel(let, Line)}
    BY <1>0 DEF AckArrived, let, pruned, drop, alled, noted, marked, ended
  <1> QED BY <1>4, <1>5, <1>6, <1>7, <1>8

\* Its own line heard back tells the sender nothing but [ra].
LEMMA OwnLineSpares ==
  ASSUME NEW n \in Station, NEW h
  PROVE  Spares(n, OwnFrameHeard(n, Line, h))
  <1> DEFINE further == HeardFurther(h, n.row[Line].hops)
             c == [n EXCEPT !.carriedOn = TRUE]
             carried == IF further THEN c ELSE n
             held == IF BulletinKeepsWalking(LineKind) /\ further
                     THEN Release(carried, Line) ELSE carried
             marked == Advance(held, Line, "relayed")
             p == [marked EXCEPT !.painted = TRUE]
  <1>1. carried \in Station /\ carried.row = n.row
    <2>1. c \in Station /\ c.row = n.row BY DEF Station
    <2> HIDE DEF c
    <2> QED BY <2>1
  <1> HIDE DEF carried
  <1>2. held \in Station /\ \A e \in Frame : held.row[e].mark = n.row[e].mark
    <2> DEFINE q == Release(carried, Line)
    <2>1. carried.row[Line].hops \in Hops BY <1>1, FrameFacts, RowType DEF Row
    <2>2. q \in Station /\ \A e \in Frame : q.row[e].mark = carried.row[e].mark
      <3> DEFINE t == [carried.row[Line] EXCEPT !.hold = FALSE, !.hops = carried.row[Line].hops]
      <3>1. t \in Row /\ t.mark = carried.row[Line].mark
        BY <1>1, FrameFacts, RowType DEF Row
      <3>2. q = IF Has(carried, Line) THEN [carried EXCEPT !.row[Line] = t] ELSE carried
        BY DEF Release, SetHold
      <3> HIDE DEF t, q
      <3> QED BY <1>1, <3>1, <3>2, FrameFacts, PutRow
    <2> HIDE DEF q, further
    <2> QED BY <1>1, <2>2 DEF q
  <1> HIDE DEF held
  <1>3. /\ marked \in Station
        /\ \A e \in Frame : Has(held, e) <=> Has(marked, e)
        /\ marked.row[Line].mark \in {"relayed", held.row[Line].mark}
    <2>1. \/ marked = held
          \/ /\ Has(held, Line)
             /\ marked = [held EXCEPT !.row[Line] = [held.row[Line] EXCEPT !.mark = "relayed"]]
      BY DEF Advance
    <2> HIDE DEF marked
    <2> QED BY <1>2, <2>1, MarkTypes, FrameFacts, MarkEffect
  <1> HIDE DEF marked
  <1>4. p.row = marked.row /\ Cancel(marked, Line).row = marked.row
    BY <1>3 DEF Station, Cancel
  <1>5. OwnFrameHeard(n, Line, h) \in {marked, p, Cancel(marked, Line)}
    BY DEF OwnFrameHeard, marked, held, carried
  <1> HIDE DEF p
  <1> QED BY <1>2, <1>3, <1>4, <1>5, FrameFacts DEF Spares, Has

SenderTold == Told(node[Origin])
GivesUp ==
  LineMark(Origin) # "failed" /\ LineMark(Origin)' = "failed" /\ faults' = faults
  => /\ node[Origin].row[Line].tries > MaxRetries
     /\ ~node[Origin].carriedOn
     /\ \A r \in Node : ~Has(node[Origin], r)

\* What the sender may do while it holds no receipt.
Fair(n, m) == Spares(n, m) \/ m.row[Line].mark \in {"delivered", "all"}

LEMMA FairStep ==
  ASSUME IInv, NEW s \in Node, NEW m, Becomes(s, m),
         s = Origin => Fair(node[Origin], m),
         \A r \in Node : ~Has(node[Origin], r)
  PROVE  SenderTold' /\ GivesUp
  <1>1. node'[Origin] = IF s = Origin THEN m ELSE node[Origin]
    BY TypeFacts, FrameFacts DEF Becomes
  <1> QED
    BY <1>1 DEF Fair, Spares, SenderTold, Told, GivesUp, LineMark

LEMMA SameMarksFair ==
  ASSUME NEW n, NEW m, \A e \in Frame : m.row[e].mark = n.row[e].mark
  PROVE  Fair(n, m)
  BY FrameFacts DEF Fair, Spares, Has

LEMMA SetHoldMarks ==
  ASSUME NEW n \in Station, NEW f \in Frame, NEW h \in Hops
  PROVE  \A e \in Frame : SetHold(n, f, FALSE, h).row[e].mark = n.row[e].mark
  <1> DEFINE t == [n.row[f] EXCEPT !.hold = FALSE, !.hops = h]
             q == SetHold(n, f, FALSE, h)
  <1>1. t \in Row /\ t.mark = n.row[f].mark BY RowType DEF Row
  <1>2. q = IF Has(n, f) THEN [n EXCEPT !.row[f] = t] ELSE n BY DEF SetHold
  <1> HIDE DEF t, q
  <1>3. \A e \in Frame : q.row[e].mark = n.row[e].mark
    <2>1. CASE Has(n, f) BY <1>1, <1>2, <2>1, PutRow
    <2>2. CASE ~Has(n, f) BY <1>2, <2>2
    <2> QED BY <2>1, <2>2
  <1> QED BY <1>3 DEF q

LEMMA SenderReceives ==
  ASSUME IInv, Receive(Origin), \A r \in Node : ~Has(node[Origin], r)
  PROVE  \E m : Becomes(Origin, m) /\ Fair(node[Origin], m)
  <1> DEFINE n == node[Origin]
  <1>0. Origin \in Node /\ n \in Station BY FrameFacts, TypeFacts
  <1>1. PICK q \in inbox[Origin] : \E c \in Around(Origin), g \in Gaps(Origin, q[1]) :
          Becomes(Origin, OnEnvelope(n, Origin, q[1], q[2],
                                     IF q[1] = Line THEN 0 ELSE node[q[1]].heardAt, c, g))
    BY DEF Receive
  <1>2. PICK c \in Around(Origin), g \in Gaps(Origin, q[1]) :
          Becomes(Origin, OnEnvelope(n, Origin, q[1], q[2],
                                     IF q[1] = Line THEN 0 ELSE node[q[1]].heardAt, c, g))
    BY <1>1
  <1> DEFINE f == q[1]
             h == q[2]
             l == IF f = Line THEN 0 ELSE node[f].heardAt
             m == OnEnvelope(n, Origin, f, h, l, c, g)
  <1>3. f \in Frame /\ h \in Hops /\ Heard(Origin, q, Holders) BY <1>0, TypeFacts
  <1>4. Becomes(Origin, m) BY <1>2
  <1>5. CASE f = Line
    <2>1. m = OwnFrameHeard(n, Line, h) BY <1>5 DEF OnEnvelope, Own, OriginOf
    <2>2. Spares(n, OwnFrameHeard(n, Line, h)) BY <1>0, OwnLineSpares
    <2> HIDE DEF m, n, f, h
    <2> QED BY <1>4, <2>1, <2>2 DEF Fair, n
  <1>6. CASE f # Line
    <2>1. f \in Node /\ Receipted(f, Holders) /\ ~Own(Origin, f) /\ ~Has(n, f)
      BY <1>3, <1>6, FrameFacts DEF Heard, Receipted, Own, OriginOf
    <2> DEFINE r == NewRow("queued", 0, FALSE)
               drop == Insert(n, f, r)
               acc == Accept(n, Origin, f, h, l)
               taken == IF h = 0 THEN drop ELSE acc
    <2>2. m = AckArrived(taken, Origin, f, c)
      BY <1>6, <2>1 DEF OnEnvelope, Decide
    <2>3. Eases(n, taken, Origin) /\ Has(taken, Line)
      <3>1. Has(n, Line)
        BY <2>1 DEF IInv, Receipted, Holders, HasLine
      <3>2. h + Dist[OriginOf(f)][Origin] <= Ttl + 1 BY <1>3 DEF Heard
      <3> HIDE DEF f, h, l, n
      <3>3. CASE h = 0
        <4>1. r \in Row /\ r.mark = "queued" BY HopFacts, MarkTypes, NewRowType
        <4> HIDE DEF r
        <4>2. Eases(n, drop, Origin) BY <1>0, <1>3, <4>1, InsertEffect
        <4>3. drop = [n EXCEPT !.row[f] = r] BY <2>1 DEF Insert
        <4> HIDE DEF drop
        <4>4. drop.row[Line] = n.row[Line] BY <1>0, <1>3, <1>6, <4>1, <4>3, FrameFacts, PutRow
        <4> QED BY <3>1, <3>3, <4>2, <4>4 DEF Has
      <3>4. CASE h # 0
        <4>1. Keeps(n, acc, Origin, Holders)
          <5>1. Within(f, h - 1, Origin)
            BY <1>0, <1>3, <3>2, <3>4, DistType, HopFacts, SMT DEF Within
          <5> QED BY <1>0, <1>3, <1>6, <2>1, <3>4, <5>1, KeepsAccept
        <4>2. Eases(n, acc, Origin) BY <1>0, <1>3, <2>1, <3>4, AcceptEases
        <4> HIDE DEF acc
        <4> QED BY <3>1, <3>4, <4>1, <4>2, FrameFacts, KeepsType
      <3> QED BY <3>3, <3>4
    <2> HIDE DEF taken, m
    <2>4. taken \in Station BY <2>3, EasesType
    <2>5. m.row[Line].mark \in {"delivered", "all"}
      BY <2>1, <2>2, <2>3, <2>4, AckArrivedTells
    <2> QED BY <1>4, <2>5 DEF Fair
  <1> QED BY <1>5, <1>6

LEMMA SenderRetries ==
  ASSUME IInv, NEW f \in Frame, RetryDue(Origin, f),
         \A r \in Node : ~Has(node[Origin], r)
  PROVE  \E m : Becomes(Origin, m) /\ Fair(node[Origin], m)
  <1> DEFINE n == node[Origin]
             sent == Dispatch(n, Origin, Line)
             m == RetryStep(n, Origin, f)
  <1>0. n \in Station /\ Line \in Frame BY FrameFacts, TypeFacts
  <1>1. Becomes(Origin, m) /\ Has(n, f) /\ n.row[f].tries < MaxRetries
    BY DEF RetryDue, Has, Retried
  <1>2. f = Line BY <1>1, FrameFacts
  <1>3. m \in {SetHold(n, Line, FALSE, 0), SetHold(sent, Line, FALSE, 0), BumpRetry(sent, Line)}
    BY <1>2, AckKind, FrameFacts DEF RetryStep
  <1>4. sent \in Station /\ sent.row = n.row BY <1>0, DispatchEffect
  <1> HIDE DEF sent, n
  <1>5. \A e \in Frame : SetHold(n, Line, FALSE, 0).row[e].mark = n.row[e].mark
    BY <1>0, HopFacts, SetHoldMarks
  <1>6. \A e \in Frame : SetHold(sent, Line, FALSE, 0).row[e].mark = n.row[e].mark
    <2>1. \A e \in Frame : SetHold(sent, Line, FALSE, 0).row[e].mark = sent.row[e].mark
      BY <1>0, <1>4, HopFacts, SetHoldMarks
    <2> QED BY <1>4, <2>1
  <1>7. \A e \in Frame : BumpRetry(sent, Line).row[e].mark = n.row[e].mark
    <2>1. sent.row[Line].tries <= MaxRetries
      BY <1>0, <1>1, <1>2, <1>4, HoldRow, BoundsAssumption, SMT
    <2> QED BY <1>0, <1>4, <2>1, BumpEffect
  <1>8. \A e \in Frame : m.row[e].mark = n.row[e].mark BY <1>3, <1>5, <1>6, <1>7
  <1> HIDE DEF m
  <1>9. Fair(n, m) BY <1>8, SameMarksFair
  <1> QED BY <1>1, <1>9 DEF n

LEMMA SenderWaits ==
  ASSUME IInv, NEW f \in Frame, AckWaitDue(Origin, f),
         \A r \in Node : ~Has(node[Origin], r)
  PROVE  SenderTold' /\ GivesUp
  <1> DEFINE n == node[Origin]
             closed == SetHold(n, Line, FALSE, 0)
             failed == Advance(closed, Line, "failed")
             m == AckWaitStep(n, f)
             spent == n.row[Line].tries > MaxRetries /\ ~n.carriedOn
  <1>0. n \in Station /\ Line \in Frame /\ Origin \in Node BY FrameFacts, TypeFacts
  <1>1. /\ Becomes(Origin, m) /\ Has(n, f) /\ n.row[f].mark \in Retried
        /\ n.row[f].tries >= MaxRetries /\ faults' = faults
    BY DEF AckWaitDue, Has, Retried
  <1>2. f = Line BY <1>1, FrameFacts
  <1>3. \/ m = BumpRetry(n, Line) /\ n.row[Line].tries = MaxRetries
        \/ m = closed
        \/ m = failed /\ spent
    <2>1. n.row[Line].tries \in Nat /\ MaxRetries \in Nat
      BY <1>0, HoldRow, BoundsAssumption, SMT
    <2>2. \/ m = BumpRetry(n, Line) /\ n.row[Line].tries = MaxRetries
          \/ m = closed
          \/ /\ m = failed /\ ~n.carriedOn
             /\ ~AckWaitRunsOn(n.row[Line].mark, n.row[Line].tries, MaxRetries)
             /\ n.row[Line].mark # "delivered"
      BY <1>2, AckKind, FrameFacts DEF AckWaitStep, AckWaitRunsOn
    <2>3. ~AckWaitRunsOn(n.row[Line].mark, n.row[Line].tries, MaxRetries)
            /\ n.row[Line].mark # "delivered" => n.row[Line].tries > MaxRetries
      BY <1>1, <1>2, <2>1, SMT DEF AckWaitRunsOn, Retried
    <2> QED BY <2>2, <2>3
  <1>4. closed \in Station /\ \A e \in Frame : closed.row[e].mark = n.row[e].mark
    BY <1>0, HopFacts, SetHoldMarks, SetHoldCalms, EasesType
  <1>5. \A e \in Frame : Has(failed, e) <=> Has(closed, e)
    <2>1. \/ failed = closed
          \/ /\ Has(closed, Line)
             /\ failed = [closed EXCEPT !.row[Line] = [closed.row[Line] EXCEPT !.mark = "failed"]]
      BY DEF Advance
    <2> HIDE DEF failed, closed
    <2>2. closed \in Station /\ Line \in Frame /\ "failed" \in Mark
      BY <1>4, MarkTypes, FrameFacts
    <2> QED BY <2>1, <2>2, MarkEffect
  <1> HIDE DEF failed, closed, n
  <1>6. CASE m = BumpRetry(n, Line) /\ n.row[Line].tries = MaxRetries
    <2>1. n.row[Line].tries <= MaxRetries BY <1>6, BoundsAssumption
    <2>2. \A e \in Frame : m.row[e].mark = n.row[e].mark
      BY <1>0, <1>6, <2>1, BumpEffect
    <2> HIDE DEF m
    <2> QED BY <1>0, <1>1, <2>2, SameMarksFair, FairStep DEF n
  <1>7. CASE m = closed
    <2> HIDE DEF m
    <2> QED BY <1>0, <1>1, <1>4, <1>7, SameMarksFair, FairStep DEF n
  <1>8. CASE m = failed /\ spent
    <2> HIDE DEF m
    <2>1. node'[Origin] = m BY <1>0, <1>1, TypeFacts DEF Becomes, n
    <2>2. \A r \in Node : ~Has(m, r) BY <1>4, <1>5, <1>8, FrameFacts DEF Has, n
    <2> QED BY <1>8, <2>1, <2>2 DEF SenderTold, Told, GivesUp, n
  <1> QED BY <1>3, <1>6, <1>7, <1>8

\* No fault brings a row.
LEMMA FaultAddsNone ==
  ASSUME IInv, NEW s \in Node,
         Flush(s) \/ Restart(s) \/ \E f \in Frame : Expire(s, f) \/ HoldAged(s, f)
  PROVE  \E m : /\ Becomes(s, m)
                /\ \A r \in Node : Has(m, r) => Has(node[s], r)
  <1> DEFINE n == node[s]
  <1>0. n \in Station BY TypeFacts
  <1>1. ASSUME NEW F PROVE \A e \in Frame : Has(Failing(n, s, F), e) => Has(n, e)
    BY <1>0 DEF Failing, Has, Failable, Station
  <1>2. ASSUME NEW m, NEW f PROVE Cancel(m, f) \in {m, [m EXCEPT !.queue = {}]}
    BY DEF Cancel
  <1>3. CASE Flush(s)
    <2> DEFINE failed == Failing(n, s, Frame)
               quiet == [failed EXCEPT !.row = [f \in Frame |->
                          IF Own(s, f) THEN failed.row[f] ELSE [failed.row[f] EXCEPT !.hold = FALSE]]]
               m == IF Own(s, Line) /\ n.row[Line].mark \in Failable
                    THEN Cancel(quiet, Line) ELSE quiet
    <2>1. Becomes(s, m) BY <1>3 DEF Flush
    <2>2. failed \in Station BY <1>0, FailingCalms, EasesType
    <2>3. \A e \in Frame : Has(failed, e) => Has(n, e) BY <1>1
    <2> HIDE DEF failed
    <2>4. quiet \in Station BY <2>2, QuietCalms, EasesType
    <2>5. \A e \in Frame : Has(quiet, e) => Has(failed, e) BY <2>2 DEF Has, Station, Row
    <2> HIDE DEF quiet
    <2>6. Cancel(quiet, Line).row = quiet.row BY <2>4 DEF Cancel, Station
    <2>7. m.row = quiet.row BY <2>6
    <2> HIDE DEF m, n
    <2>8. \A r \in Node : Has(m, r) => Has(n, r)
      BY <2>3, <2>5, <2>7, FrameFacts DEF Has
    <2> QED BY <2>1, <2>8 DEF n
  <1>4. CASE Restart(s)
    <2> DEFINE m == Stopped(n.row, n.receipts, n.heardAt)
    <2>1. Becomes(s, m) BY <1>4 DEF Restart
    <2>2. m.row = n.row BY DEF Stopped
    <2> HIDE DEF m
    <2> QED BY <2>1, <2>2 DEF Has
  <1>5. ASSUME NEW f \in Frame, Expire(s, f)
        PROVE  \E m : Becomes(s, m) /\ \A r \in Node : Has(m, r) => Has(n, r)
    <2> DEFINE failed == Failing(n, s, {f})
               m == Cancel(failed, f)
    <2>1. Becomes(s, m) BY <1>5 DEF Expire
    <2>2. failed \in Station BY <1>0, FailingCalms, EasesType
    <2>3. \A e \in Frame : Has(failed, e) => Has(n, e) BY <1>1
    <2> HIDE DEF failed
    <2>4. m.row = failed.row BY <2>2 DEF Cancel, Station
    <2> HIDE DEF m, n
    <2>5. \A r \in Node : Has(m, r) => Has(n, r) BY <2>3, <2>4, FrameFacts DEF Has
    <2> QED BY <2>1, <2>5 DEF n
  <1>6. ASSUME NEW f \in Frame, HoldAged(s, f)
        PROVE  \E m : Becomes(s, m) /\ \A r \in Node : Has(m, r) => Has(n, r)
    <2> DEFINE m == SetHold(n, f, FALSE, 0)
    <2>1. Becomes(s, m) BY <1>6 DEF HoldAged
    <2> HIDE DEF n
    <2>2. \A e \in Frame : m.row[e].mark = n.row[e].mark BY <1>0, HopFacts, SetHoldMarks
    <2> HIDE DEF m
    <2>3. \A r \in Node : Has(m, r) => Has(n, r) BY <2>2, FrameFacts DEF Has
    <2> QED BY <2>1, <2>3 DEF n
  <1> QED BY <1>3, <1>4, <1>5, <1>6

\* Each step keeps the sender told, and gives up only as GivesUp says.
LEMMA StepTold ==
  ASSUME IInv, SenderTold, [Next]_vars
  PROVE  SenderTold' /\ GivesUp
  <1>0. /\ Origin \in Node /\ node[Origin] \in Station
        /\ Later(node[Origin], node'[Origin])
    BY FrameFacts, TypeFacts, StepInvariant DEF Forward
  <1>1. CASE \E r \in Node : Has(node[Origin], r)
    <2>1. node[Origin].row[Line].mark \in {"delivered", "all"}
      BY <1>1 DEF SenderTold, Told
    <2>2. node'[Origin].row[Line].mark \in {"delivered", "all"}
      BY <1>0, <2>1, ReceiptStays
    <2> QED BY <2>2 DEF SenderTold, Told, GivesUp, LineMark
  <1>2. CASE \A r \in Node : ~Has(node[Origin], r)
    <2>1. ASSUME NEW s \in Node, NEW m, Becomes(s, m), s # Origin
          PROVE  SenderTold' /\ GivesUp
      BY <1>2, <2>1, FairStep
    <2>2. ASSUME NEW m, Becomes(Origin, m), Fair(node[Origin], m)
          PROVE  SenderTold' /\ GivesUp
      BY <1>0, <1>2, <2>2, FairStep
    <2>3. CASE SendLine
      <3>1. LineMark(Origin) = "none" /\ LineMark(Origin)' = "sent" BY <2>3, SendLineStep
      <3>2. IInv' /\ Forward BY StepInvariant
      <3>3. \A r \in Node : node'[Origin].row[r] = node[Origin].row[r]
        <4> DEFINE n == node[Origin]
                   row == NewRow("queued", Ttl, FALSE)
                   stored == Insert(n, Line, row)
                   handed == Dispatch(stored, Origin, Line)
                   sent == SetDelivery(handed, Line, "sent")
                   armed == SetHold(sent, Line, TRUE, Ttl)
        <4>1. Becomes(Origin, armed) /\ ~Has(n, Line) BY <2>3 DEF SendLine
        <4>2. row \in Row /\ row.mark = "queued" BY HopFacts, MarkTypes, NewRowType
        <4> HIDE DEF row, n
        <4>3. stored \in Station /\ \A r \in Node : stored.row[r] = n.row[r]
          <5>1. stored = [n EXCEPT !.row[Line] = row] BY <4>1 DEF Insert
          <5> HIDE DEF stored
          <5> QED BY <1>0, <4>2, <5>1, FrameFacts, PutRow DEF n
        <4> HIDE DEF stored
        <4>4. handed \in Station /\ handed.row = stored.row
          BY <4>3, FrameFacts, DispatchEffect
        <4> HIDE DEF handed
        <4>5. sent \in Station /\ \A r \in Node : sent.row[r] = handed.row[r]
          <5>1. \/ sent = handed
                \/ /\ Has(handed, Line)
                   /\ sent = [handed EXCEPT !.row[Line] = [handed.row[Line] EXCEPT !.mark = "sent"]]
            BY DEF SetDelivery
          <5> HIDE DEF sent
          <5>2. "sent" \in Mark /\ Line \in Frame BY MarkTypes, FrameFacts
          <5> QED BY <4>4, <5>1, <5>2, FrameFacts, MarkEffect
        <4> HIDE DEF sent
        <4>6. \A r \in Node : armed.row[r] = sent.row[r]
          BY <4>5, FrameFacts DEF SetHold, Station
        <4>7. node'[Origin] = armed BY <1>0, <4>1, TypeFacts DEF Becomes
        <4> HIDE DEF armed
        <4> QED BY <4>3, <4>4, <4>5, <4>6, <4>7 DEF n
      <3> QED BY <1>2, <3>1, <3>3 DEF SenderTold, Told, GivesUp, LineMark, Has
    <2>4. ASSUME NEW s \in Node, KeyLine(s) PROVE SenderTold' /\ GivesUp
      <3> DEFINE m == [node[s] EXCEPT !.queue = {}]
      <3>1. Becomes(s, m) BY <2>4 DEF KeyLine
      <3>2. m.row = node[s].row BY TypeFacts DEF Station
      <3> HIDE DEF m
      <3> QED BY <2>1, <2>2, <3>1, <3>2, SameMarksFair
    <2>5. ASSUME NEW s \in Node, KeyAck(s) PROVE SenderTold' /\ GivesUp
      <3>1. PICK job \in node[s].jobs : Becomes(s, [node[s] EXCEPT !.jobs = @ \ {job}])
        BY <2>5 DEF KeyAck
      <3> DEFINE m == [node[s] EXCEPT !.jobs = @ \ {job}]
      <3>2. Becomes(s, m) BY <3>1
      <3>3. m.row = node[s].row BY TypeFacts DEF Station
      <3> HIDE DEF m
      <3> QED BY <2>1, <2>2, <3>2, <3>3, SameMarksFair
    <2>6. ASSUME NEW s \in Node, Receive(s) PROVE SenderTold' /\ GivesUp
      <3>1. \E m : Becomes(s, m) BY <2>6 DEF Receive
      <3> QED BY <1>2, <2>1, <2>2, <2>6, <3>1, SenderReceives
    <2>7. ASSUME NEW s \in Node, NEW f \in Frame, HoldDue(s, f) PROVE SenderTold' /\ GivesUp
      <3>1. \E m : Becomes(s, m) BY <2>7 DEF HoldDue
      <3>2. s # Origin
        BY <1>2, <2>7, FrameFacts DEF HoldDue, RelayDue, HoldUntil, Own, OriginOf
      <3> QED BY <2>1, <3>1, <3>2
    <2>8. ASSUME NEW s \in Node, NEW f \in Frame, RetryDue(s, f) PROVE SenderTold' /\ GivesUp
      <3>1. \E m : Becomes(s, m) BY <2>8 DEF RetryDue
      <3> QED BY <1>2, <2>1, <2>2, <2>8, <3>1, SenderRetries
    <2>9. ASSUME NEW s \in Node, NEW f \in Frame, AckWaitDue(s, f) PROVE SenderTold' /\ GivesUp
      <3>1. \E m : Becomes(s, m) BY <2>9 DEF AckWaitDue
      <3> QED BY <1>2, <2>1, <2>9, <3>1, SenderWaits
    <2>10. ASSUME Fault PROVE GivesUp
      <3>1. faults' # faults BY <2>10, TypeFacts, SMT DEF Fault
      <3> QED BY <3>1 DEF GivesUp
    <2>11. ASSUME NEW s \in Node, Flush(s) \/ Restart(s) \/ \E f \in Frame : Expire(s, f) \/ HoldAged(s, f)
           PROVE  SenderTold' /\ GivesUp
      <3>1. Fault BY <2>11 DEF Flush, Restart, Expire, HoldAged
      <3>2. \A r \in Node : ~Has(node'[Origin], r)
        <4>1. PICK m : Becomes(s, m) /\ (s = Origin => \A r \in Node : Has(m, r) => Has(node[Origin], r))
          BY <2>11, FaultAddsNone
        <4>2. node'[Origin] = IF s = Origin THEN m ELSE node[Origin]
          BY <1>0, <4>1, TypeFacts DEF Becomes
        <4> QED BY <1>2, <4>1, <4>2
      <3> QED BY <2>10, <3>1, <3>2 DEF SenderTold, Told
    <2>12. CASE UNCHANGED vars
      BY <1>2, <2>12 DEF vars, SenderTold, Told, GivesUp, LineMark
    <2> QED BY <2>3, <2>4, <2>5, <2>6, <2>7, <2>8, <2>9, <2>11, <2>12 DEF Next
  <1> QED BY <1>1, <1>2

\* The retries turn a line [no] only once they are spent, and only while no
\* receipt and no relay of it was heard: any receipt that reaches the sender
\* marks the line in the same step (ack_wait_due in node.rs, Engine::on_rx).
THEOREM GivesUpUnheard == Spec => GivesUpOnlyUnheard
  <1>1. Init => SenderTold
    <2> SUFFICES ASSUME Init PROVE SenderTold
      OBVIOUS
    <2>1. \A r \in Node : ~Has(node[Origin], r)
      BY FrameFacts DEF Init, Fresh, Stopped, NoRow, Has
    <2> QED BY <2>1 DEF SenderTold, Told
  <1>2. IInv /\ SenderTold /\ [Next]_vars => SenderTold' BY StepTold
  <1>3. Spec => []SenderTold BY <1>1, <1>2, Invariance, PTL DEF Spec
  <1>4. IInv /\ SenderTold /\ [Next]_vars => [GivesUp]_vars BY StepTold
  <1> HIDE DEF GivesUp
  <1>5. Spec => [][GivesUp]_vars BY <1>3, <1>4, Invariance, PTL DEF Spec
  <1> QED BY <1>5 DEF GivesUpOnlyUnheard, GivesUp

-----------------------------------------------------------------------------
(***************************************************************************)
(* Receipts travel toward the originator.  A station weighs a receipt once, *)
(* when it stores it: one from the originator's side goes to its sides and *)
(* is not armed, and what is not in its sides was heard no nearer to the   *)
(* originator than the station heard the line.  That this lasts needs the  *)
(* line's hop count to last, and so that no line on hold is dropped by the *)
(* pump, which zeroes it.  A restart forgets the sides, and the age limit  *)
(* zeroes the hop count: all of this holds until the first fault.          *)
(***************************************************************************)
\* A receipt the station relayed, has on hold, or would pass on again.
Carried(n, s, a) ==
  \/ n.copies[a] > 0
  \/ Has(n, a) /\ MayRelay(n, s, a) /\ (n.row[a].hold \/ a \notin n.sides)

\* Its sender, who heard the line with H[a] hops left, is not nearer to the
\* originator than the station.
Toward(n, s, a, H) == s \notin {a, Origin} /\ Has(n, Line) /\ H[a] <= n.row[Line].hops

Home(n, s, H) == \A a \in Node : Carried(n, s, a) => Has(n, a) /\ Toward(n, s, a, H)

\* The pump will not drop the line.
Ready(n, s) ==
  s # Origin /\ HoldUntil(n, Line) /\ n.row[Line].hops > 0 => MayRelay(n, s, Line)

\* A receipt is keyed by a station that stores it; group receipts are noted by
\* one that has the line.
Stored(n) == \A j \in n.jobs : Has(n, j[1])
Unheard(n) == ~Has(n, Line) => n.receipts = {}

Homed(n, s, H) == n \in Station /\ Home(n, s, H) /\ Stored(n) /\ Unheard(n)
Homely(n, s, H) == Homed(n, s, H) /\ Ready(n, s)

\* What most of a handler does: no row comes or goes, no receipt is carried
\* that was not, the line keeps its hop count.
Steady(n, m, s) ==
  /\ m \in Station
  /\ \A e \in Frame : Has(m, e) <=> Has(n, e)
  /\ \A a \in Node : Carried(m, s, a) => Carried(n, s, a)
  /\ \A j \in m.jobs : j \in n.jobs \/ Has(n, j[1])
  /\ s # Origin => m.row[Line].hops = n.row[Line].hops
  /\ m.heardAt = n.heardAt
  /\ m.receipts = n.receipts \/ Has(n, Line)

Stays(n, m, s) == Steady(n, m, s) /\ (Ready(n, s) => Ready(m, s))

LEMMA MayRelayReceipt ==
  ASSUME NEW n, NEW s, NEW a \in Node
  PROVE  MayRelay(n, s, a) <=> n.row[a].hops > 0 /\ s # a /\ s # Origin
  BY FrameFacts DEF MayRelay, MayRebroadcast, KindOf, Own, OriginOf, ToUs

LEMMA MayRelayLine ==
  ASSUME NEW n, NEW s
  PROVE  MayRelay(n, s, Line) <=>
           /\ n.row[Line].hops > 0 /\ s # Origin
           /\ ~(LineKind = "direct" /\ s = Dest)
           /\ n.row[Line].mark # "all"
           /\ n.row[Line].mark = "delivered" => LineKind = "closed"
  BY NetworkAssumption DEF MayRelay, MayRebroadcast, KindOf, Own, OriginOf, ToUs

LEMMA SteadyRefl ==
  ASSUME NEW n \in Station, NEW s
  PROVE  Stays(n, n, s)
  BY DEF Stays, Steady

LEMMA SteadyTrans ==
  ASSUME NEW n, NEW m, NEW q, NEW s, Steady(n, m, s), Steady(m, q, s)
  PROVE  Steady(n, q, s)
  <1>1. \A e \in Frame : Has(q, e) <=> Has(n, e) BY DEF Steady
  <1>2. \A a \in Node : Carried(q, s, a) => Carried(n, s, a) BY DEF Steady
  <1>3. ASSUME NEW j \in q.jobs PROVE j \in n.jobs \/ Has(n, j[1])
    <2>1. j[1] \in Frame BY <1>3, FrameFacts DEF Steady, Station
    <2>2. j \in m.jobs \/ Has(m, j[1]) BY <1>3 DEF Steady
    <2> QED BY <2>1, <2>2 DEF Steady
  <1> QED BY <1>1, <1>2, <1>3, FrameFacts DEF Steady

LEMMA StaysThen ==
  ASSUME NEW n, NEW m, NEW q, NEW s, Stays(n, m, s), m \in Station => Stays(m, q, s)
  PROVE  Stays(n, q, s)
  <1>1. Steady(n, m, s) /\ Stays(m, q, s) BY DEF Stays, Steady
  <1>2. Steady(n, q, s) BY <1>1, SteadyTrans DEF Stays
  <1> QED BY <1>1, <1>2 DEF Stays

LEMMA StaysType ==
  ASSUME NEW n, NEW m, NEW s, Steady(n, m, s) \/ Stays(n, m, s)
  PROVE  m \in Station
  BY DEF Stays, Steady

\* One row replaced.
LEMMA RowSteady ==
  ASSUME NEW n \in Station, NEW s, NEW f \in Frame, NEW r \in Row,
         Has(n, f), r.mark # "none",
         \/ r.hops = n.row[f].hops
         \/ IF f = Line THEN s = Origin ELSE r.hops = 0,
         f # Line => \/ r.hold => n.row[f].hold
                     \/ r.hops = 0 \/ Own(s, f)
  PROVE  LET m == [n EXCEPT !.row[f] = r]
         IN  Steady(n, m, s) /\ (f # Line => Stays(n, m, s))
  <1> DEFINE m == [n EXCEPT !.row[f] = r]
  <1>1. /\ m \in Station
        /\ \A e \in Frame : m.row[e] = IF e = f THEN r ELSE n.row[e]
        /\ m.copies = n.copies /\ m.receipts = n.receipts /\ m.sides = n.sides
        /\ m.jobs = n.jobs /\ m.heardAt = n.heardAt
    BY PutRow
  <1> HIDE DEF m
  <1>2. \A e \in Frame : Has(m, e) <=> Has(n, e) BY <1>1 DEF Has
  <1>3. ASSUME NEW a \in Node, Carried(m, s, a) PROVE Carried(n, s, a)
    <2>1. a \in Frame /\ a # Line BY FrameFacts
    <2>2. CASE a # f
      <3>1. m.row[a] = n.row[a] BY <1>1, <2>1, <2>2
      <3> QED BY <1>1, <1>2, <1>3, <2>1, <3>1, MayRelayReceipt DEF Carried
    <2>3. CASE a = f
      <3>1. m.row[a] = r BY <1>1, <2>3
      <3>2. CASE n.copies[a] > 0 BY <3>2 DEF Carried
      <3>3. CASE ~(n.copies[a] > 0)
        <4>1. r.hops > 0 /\ s # a /\ s # Origin /\ (r.hold \/ a \notin n.sides)
          BY <1>1, <1>3, <3>1, <3>3, MayRelayReceipt DEF Carried
        <4>2. r.hops # 0 BY <4>1, SMT
        <4>3. r.hops = n.row[a].hops BY <2>1, <2>3, <4>2
        <4>4. r.hold => n.row[a].hold BY <2>1, <2>3, <4>1, <4>2 DEF Own, OriginOf
        <4>5. MayRelay(n, s, a) BY <4>1, <4>3, MayRelayReceipt
        <4> QED BY <2>3, <4>1, <4>4, <4>5 DEF Carried
      <3> QED BY <3>2, <3>3
    <2> QED BY <2>2, <2>3
  <1>4. s # Origin => m.row[Line].hops = n.row[Line].hops
    BY <1>1, FrameFacts
  <1>5. Steady(n, m, s) BY <1>1, <1>2, <1>3, <1>4 DEF Steady
  <1>6. f # Line => (Ready(n, s) => Ready(m, s))
    <2>1. f # Line => m.row[Line] = n.row[Line] BY <1>1, FrameFacts
    <2> QED BY <2>1, MayRelayLine DEF Ready, HoldUntil, Has
  <1> QED BY <1>5, <1>6 DEF Stays, m

\* Anything but the rows and the counts replaced, no task added.
LEMMA RestStays ==
  ASSUME NEW n \in Station, NEW m \in Station, NEW s,
         m.row = n.row, m.copies = n.copies, n.sides \subseteq m.sides,
         m.jobs \subseteq n.jobs, m.heardAt = n.heardAt,
         m.receipts = n.receipts \/ Has(n, Line)
  PROVE  Stays(n, m, s)
  <1>1. ASSUME NEW a \in Node, Carried(m, s, a) PROVE Carried(n, s, a)
    BY <1>1, MayRelayReceipt DEF Carried, Has
  <1>2. Steady(n, m, s) BY <1>1 DEF Steady, Has
  <1>3. Ready(n, s) => Ready(m, s) BY MayRelayLine DEF Ready, HoldUntil, Has
  <1> QED BY <1>2, <1>3 DEF Stays

LEMMA SetHoldStays ==
  ASSUME NEW n \in Station, NEW s, NEW f \in Frame, NEW armed \in BOOLEAN, NEW h \in Hops,
         armed => f = Line /\ s = Origin,
         \/ h = n.row[f].hops
         \/ IF f = Line THEN s = Origin ELSE h = 0
  PROVE  Stays(n, SetHold(n, f, armed, h), s)
  <1> DEFINE r == [n.row[f] EXCEPT !.hold = armed, !.hops = h]
             m == [n EXCEPT !.row[f] = r]
  <1>1. /\ r \in Row /\ r.mark = n.row[f].mark /\ r.hold = armed /\ r.hops = h
    BY RowType DEF Row
  <1>2. SetHold(n, f, armed, h) = IF Has(n, f) THEN m ELSE n
    BY DEF SetHold
  <1> HIDE DEF r
  <1>3. CASE Has(n, f)
    <2>1. r.mark # "none" BY <1>1, <1>3 DEF Has
    <2>2. f # Line => (r.hold => n.row[f].hold) BY <1>1
    <2>3. \/ r.hops = n.row[f].hops
          \/ IF f = Line THEN s = Origin ELSE r.hops = 0
      BY <1>1
    <2>4. Steady(n, m, s) /\ (f # Line => Stays(n, m, s))
      BY <1>1, <1>3, <2>1, <2>2, <2>3, RowSteady
    <2>5. f = Line => Ready(m, s)
      <3>1. \A e \in Frame : m.row[e] = IF e = f THEN r ELSE n.row[e] BY <1>1, PutRow
      <3> HIDE DEF m
      <3> QED BY <1>1, <3>1, FrameFacts DEF Ready, HoldUntil
    <2> QED BY <1>2, <1>3, <2>4, <2>5 DEF Stays
  <1>4. CASE ~Has(n, f) BY <1>2, <1>4, SteadyRefl
  <1> QED BY <1>3, <1>4

LEMMA ReleaseStays ==
  ASSUME NEW n \in Station, NEW s, NEW f \in Frame
  PROVE  Stays(n, Release(n, f), s)
  <1>1. n.row[f].hops \in Hops BY RowType DEF Row
  <1> QED BY <1>1, SetHoldStays DEF Release

\* The marks under which a line may be relayed.
Open(mark) == mark # "all" /\ (mark = "delivered" => LineKind = "closed")

LEMMA MarkStays ==
  ASSUME NEW n \in Station, NEW s, NEW f \in Frame, NEW mark \in Mark, NEW m,
         \/ m = n
         \/ /\ Has(n, f)
            /\ m = [n EXCEPT !.row[f] = [n.row[f] EXCEPT !.mark = mark]]
  PROVE  /\ Steady(n, m, s)
         /\ f # Line \/ s = Origin \/ Open(mark) => Stays(n, m, s)
  <1> DEFINE r == [n.row[f] EXCEPT !.mark = mark]
             q == [n EXCEPT !.row[f] = r]
  <1>1. /\ r \in Row /\ r.mark = mark /\ r.hold = n.row[f].hold /\ r.supp = n.row[f].supp
        /\ r.hops = n.row[f].hops /\ mark # "none"
    BY RowType DEF Row, Mark
  <1>2. m = n \/ (Has(n, f) /\ m = q) OBVIOUS
  <1> HIDE DEF r
  <1>3. CASE m = n BY <1>3, SteadyRefl DEF Stays
  <1>4. CASE Has(n, f) /\ m = q
    <2>1. Steady(n, q, s) /\ (f # Line => Stays(n, q, s)) BY <1>1, <1>4, RowSteady
    <2>2. \A e \in Frame : q.row[e] = IF e = f THEN r ELSE n.row[e] BY <1>1, PutRow
    <2> HIDE DEF q
    <2>3. ASSUME f = Line, s = Origin \/ Open(mark), Ready(n, s) PROVE Ready(q, s)
      BY <1>1, <1>4, <2>2, <2>3, FrameFacts, MayRelayLine DEF Ready, HoldUntil, Has, Open
    <2> QED BY <1>4, <2>1, <2>3 DEF Stays
  <1> QED BY <1>2, <1>3, <1>4

LEMMA AdvanceStays ==
  ASSUME NEW n \in Station, NEW s, NEW f \in Frame, NEW mark \in Mark
  PROVE  /\ Steady(n, Advance(n, f, mark), s)
         /\ f # Line \/ s = Origin \/ Open(mark) => Stays(n, Advance(n, f, mark), s)
  <1> DEFINE m == Advance(n, f, mark)
  <1>1. \/ m = n
        \/ /\ Has(n, f)
           /\ m = [n EXCEPT !.row[f] = [n.row[f] EXCEPT !.mark = mark]]
    BY DEF Advance
  <1> HIDE DEF m
  <1> QED BY <1>1, MarkStays DEF m

LEMMA SetDeliveryStays ==
  ASSUME NEW n \in Station, NEW s, NEW f \in Frame, NEW mark \in Mark
  PROVE  /\ Steady(n, SetDelivery(n, f, mark), s)
         /\ f # Line \/ s = Origin \/ Open(mark) => Stays(n, SetDelivery(n, f, mark), s)
  <1> DEFINE m == SetDelivery(n, f, mark)
  <1>1. \/ m = n
        \/ /\ Has(n, f)
           /\ m = [n EXCEPT !.row[f] = [n.row[f] EXCEPT !.mark = mark]]
    BY DEF SetDelivery
  <1> HIDE DEF m
  <1> QED BY <1>1, MarkStays DEF m

LEMMA SuppressStays ==
  ASSUME NEW n \in Station, NEW s, NEW f \in Frame
  PROVE  Stays(n, Suppress(n, f), s)
  <1> DEFINE r == [n.row[f] EXCEPT !.supp = TRUE, !.hold = FALSE]
             m == [n EXCEPT !.row[f] = r]
  <1>1. r \in Row /\ r.mark = n.row[f].mark /\ r.hold = FALSE /\ r.hops = n.row[f].hops
    BY RowType DEF Row
  <1>2. Suppress(n, f) = IF Has(n, f) THEN m ELSE n BY DEF Suppress
  <1> HIDE DEF r
  <1>3. CASE Has(n, f)
    <2>1. Steady(n, m, s) /\ (f # Line => Stays(n, m, s))
      BY <1>1, <1>3, RowSteady DEF Has
    <2>2. \A e \in Frame : m.row[e] = IF e = f THEN r ELSE n.row[e] BY <1>1, PutRow
    <2> HIDE DEF m
    <2>3. f = Line => Ready(m, s) BY <1>1, <2>2, FrameFacts DEF Ready, HoldUntil
    <2> QED BY <1>2, <1>3, <2>1, <2>3 DEF Stays
  <1>4. CASE ~Has(n, f) BY <1>2, <1>4, SteadyRefl
  <1> QED BY <1>3, <1>4

\* A row that waits for its repeat was on hold already, or is the station's own.
LEMMA BumpStays ==
  ASSUME NEW n \in Station, NEW s, NEW f \in Frame, n.row[f].tries <= MaxRetries, Has(n, f),
         f = Line => s = Origin \/ MayRelay(n, s, Line),
         f # Line => n.row[f].hold \/ Own(s, f)
  PROVE  Stays(n, BumpRetry(n, f), s)
  <1> DEFINE r == [n.row[f] EXCEPT !.tries = n.row[f].tries + 1, !.hold = TRUE]
             m == [n EXCEPT !.row[f] = r]
  <1>1. n.row[f] \in Row BY RowType
  <1>2. n.row[f].tries + 1 \in 0..(MaxRetries + 1)
    <2>1. n.row[f].tries \in 0..(MaxRetries + 1) BY <1>1 DEF Row
    <2> QED BY <2>1, BoundsAssumption, SMT
  <1>3. r \in Row /\ r.mark = n.row[f].mark /\ r.hops = n.row[f].hops
    BY <1>1, <1>2 DEF Row
  <1>4. BumpRetry(n, f) = m BY DEF BumpRetry
  <1> HIDE DEF r
  <1>5. Steady(n, m, s) /\ (f # Line => Stays(n, m, s))
    BY <1>3, RowSteady DEF Has
  <1>6. \A e \in Frame : m.row[e] = IF e = f THEN r ELSE n.row[e] BY <1>3, PutRow
  <1> HIDE DEF m
  <1>7. f = Line => Ready(m, s)
    BY <1>3, <1>6, FrameFacts, MayRelayLine DEF Ready
  <1> QED BY <1>4, <1>5, <1>7 DEF Stays

LEMMA CancelStays ==
  ASSUME NEW n \in Station, NEW s, NEW f
  PROVE  Stays(n, Cancel(n, f), s)
  <1> DEFINE m == [n EXCEPT !.queue = {}]
  <1>1. /\ m \in Station /\ m.row = n.row /\ m.copies = n.copies /\ m.sides = n.sides
        /\ m.jobs = n.jobs /\ m.heardAt = n.heardAt /\ m.receipts = n.receipts
    BY DEF Station
  <1>2. Cancel(n, f) = IF f = Line THEN m ELSE n BY DEF Cancel
  <1> HIDE DEF m
  <1> QED BY <1>1, <1>2, RestStays, SteadyRefl

\* Tasks and counts added, of rows the station has and receipts it carries.
LEMMA SendStays ==
  ASSUME NEW n \in Station, NEW m \in Station, NEW s,
         m.row = n.row, m.sides = n.sides, m.heardAt = n.heardAt, m.receipts = n.receipts,
         \A j \in m.jobs : j \in n.jobs \/ Has(n, j[1]),
         \A a \in Node : m.copies[a] = n.copies[a] \/ Carried(n, s, a)
  PROVE  Stays(n, m, s)
  <1>1. ASSUME NEW a \in Node, Carried(m, s, a) PROVE Carried(n, s, a)
    BY <1>1, MayRelayReceipt DEF Carried, Has
  <1>2. Steady(n, m, s) BY <1>1 DEF Steady, Has
  <1>3. Ready(n, s) => Ready(m, s) BY MayRelayLine DEF Ready, HoldUntil, Has
  <1> QED BY <1>2, <1>3 DEF Stays

LEMMA DispatchStays ==
  ASSUME NEW n \in Station, NEW s, NEW f \in Frame, Has(n, f),
         f = Line \/ Own(s, f) \/ Carried(n, s, f)
  PROVE  Stays(n, Dispatch(n, s, f), s)
  <1> DEFINE q == Hand(n, f)
             up == [q EXCEPT !.copies[f] = @ + 1]
             m == Dispatch(n, s, f)
  <1>0. n.row[f].hops \in Hops BY RowType DEF Row
  <1>1. /\ q \in Station /\ q.row = n.row /\ q.copies = n.copies /\ q.sides = n.sides
        /\ q.heardAt = n.heardAt /\ q.receipts = n.receipts
        /\ \A j \in q.jobs : j \in n.jobs \/ Has(n, j[1])
    <2>1. CASE f = Line BY <1>0, <2>1 DEF Hand, Station
    <2>2. CASE f # Line
      <3>1. f \in Node BY <2>2, FrameFacts
      <3>2. q = [n EXCEPT !.jobs = @ \cup {<<f, n.row[f].hops>>}] BY <2>2 DEF Hand
      <3> HIDE DEF q
      <3> QED BY <1>0, <3>1, <3>2 DEF Station
    <2> QED BY <2>1, <2>2
  <1>2. m = IF Own(s, f) \/ ~Queued(n, f) THEN q ELSE up
    BY DEF Dispatch
  <1> HIDE DEF q
  <1>3. /\ up \in Station /\ up.row = q.row /\ up.sides = q.sides /\ up.jobs = q.jobs
        /\ up.heardAt = q.heardAt /\ up.receipts = q.receipts
        /\ \A e \in Frame : up.copies[e] = IF e = f THEN q.copies[f] + 1 ELSE q.copies[e]
    BY <1>1 DEF Station
  <1> HIDE DEF up, m
  <1>4. m \in Station /\ m.row = n.row /\ m.sides = n.sides /\ m.heardAt = n.heardAt
        /\ m.receipts = n.receipts
        /\ \A j \in m.jobs : j \in n.jobs \/ Has(n, j[1])
    BY <1>1, <1>2, <1>3
  <1>5. ASSUME NEW a \in Node PROVE m.copies[a] = n.copies[a] \/ Carried(n, s, a)
    BY <1>1, <1>2, <1>3, FrameFacts
  <1> QED BY <1>4, <1>5, SendStays DEF m

LEMMA SteadyHomed ==
  ASSUME NEW n, NEW m, NEW s, NEW H, Homed(n, s, H), Steady(n, m, s)
  PROVE  Homed(m, s, H)
  <1>1. m \in Station /\ \A e \in Frame : Has(m, e) <=> Has(n, e) BY DEF Steady
  <1>2. ASSUME NEW a \in Node, Carried(m, s, a) PROVE Has(m, a) /\ Toward(m, s, a, H)
    <2>1. Has(n, a) /\ Toward(n, s, a, H) BY <1>2 DEF Steady, Homed, Home
    <2>2. m.row[Line].hops = n.row[Line].hops BY <2>1 DEF Toward, Steady
    <2> QED BY <1>1, <2>1, <2>2, FrameFacts DEF Toward
  <1>3. ASSUME NEW j \in m.jobs PROVE Has(m, j[1])
    <2>1. j[1] \in Frame BY <1>1, <1>3, FrameFacts DEF Station
    <2>2. j \in n.jobs \/ Has(n, j[1]) BY <1>3 DEF Steady
    <2> QED BY <1>1, <2>1, <2>2 DEF Homed, Stored
  <1>4. Unheard(m) BY <1>1, FrameFacts DEF Steady, Homed, Unheard
  <1> QED BY <1>1, <1>2, <1>3, <1>4 DEF Homed, Home, Stored

LEMMA StaysHomely ==
  ASSUME NEW n, NEW m, NEW s, NEW H, Homely(n, s, H), Stays(n, m, s)
  PROVE  Homely(m, s, H)
  BY SteadyHomed DEF Homely, Stays

LEMMA FinishStays ==
  ASSUME NEW n \in Station, NEW s, NEW f \in Frame, f # Line
  PROVE  Stays(n, FinishAckWalk(n, f), s)
  <1> DEFINE q == SetHold(n, f, FALSE, 0)
  <1>1. Stays(n, q, s) BY HopFacts, SetHoldStays
  <1> HIDE DEF q
  <1>2. q \in Station => Stays(q, Advance(q, f, "delivered"), s)
    BY MarkTypes, AdvanceStays
  <1>3. Stays(n, Advance(q, f, "delivered"), s) BY <1>1, <1>2, StaysThen
  <1> QED BY <1>3 DEF FinishAckWalk, q

LEMMA OwnFrameStays ==
  ASSUME NEW n \in Station, NEW s \in Node, NEW f \in Frame, NEW h \in Hops, Own(s, f)
  PROVE  Stays(n, OwnFrameHeard(n, f, h), s)
  <1> DEFINE further == HeardFurther(h, n.row[f].hops)
             c == [n EXCEPT !.carriedOn = TRUE]
             carried == IF f = Line /\ further THEN c ELSE n
             d == [n EXCEPT !.downstream = @ \cup {f}]
             w == Release(d, f)
             walked == IF further THEN Advance(w, f, "delivered") ELSE n
             held == IF BulletinKeepsWalking(LineKind) /\ further
                     THEN Release(carried, Line) ELSE carried
             marked == Advance(held, Line, "relayed")
             p == [marked EXCEPT !.painted = TRUE]
  <1>1. Stays(n, carried, s)
    <2>1. /\ c \in Station /\ c.row = n.row /\ c.copies = n.copies /\ c.sides = n.sides
          /\ c.jobs = n.jobs /\ c.heardAt = n.heardAt /\ c.receipts = n.receipts
      BY DEF Station
    <2> HIDE DEF c
    <2>2. Stays(n, c, s) BY <2>1, RestStays
    <2> QED BY <2>2, SteadyRefl
  <1>2. f # Line => Stays(n, walked, s)
    <2>1. /\ d \in Station /\ d.row = n.row /\ d.copies = n.copies /\ d.sides = n.sides
          /\ d.jobs = n.jobs /\ d.heardAt = n.heardAt /\ d.receipts = n.receipts
      BY DEF Station
    <2> HIDE DEF d
    <2>2. Stays(n, d, s) BY <2>1, RestStays
    <2>3. d \in Station => Stays(d, w, s) BY ReleaseStays
    <2>4. Stays(n, w, s) BY <2>2, <2>3, StaysThen
    <2> HIDE DEF w
    <2>5. w \in Station /\ f # Line => Stays(w, Advance(w, f, "delivered"), s)
      BY MarkTypes, AdvanceStays
    <2>6. f # Line => Stays(n, Advance(w, f, "delivered"), s) BY <2>4, <2>5, StaysThen
    <2> QED BY <2>6, SteadyRefl
  <1> HIDE DEF carried
  <1>3. carried \in Station => Stays(carried, held, s)
    BY FrameFacts, ReleaseStays, SteadyRefl
  <1>4. Stays(n, held, s) BY <1>1, <1>3, StaysThen
  <1> HIDE DEF held
  <1>5. held \in Station => Stays(held, marked, s)
    BY MarkTypes, FrameFacts, AdvanceStays DEF Open
  <1>6. Stays(n, marked, s) BY <1>4, <1>5, StaysThen
  <1> HIDE DEF marked
  <1>7. marked \in Station => Stays(marked, p, s)
    <2>1. marked \in Station => /\ p \in Station /\ p.row = marked.row
            /\ p.copies = marked.copies /\ p.sides = marked.sides
            /\ p.jobs = marked.jobs /\ p.heardAt = marked.heardAt
            /\ p.receipts = marked.receipts
      BY DEF Station
    <2> HIDE DEF p
    <2> QED BY <2>1, RestStays
  <1>8. Stays(n, p, s) BY <1>6, <1>7, StaysThen
  <1>9. marked \in Station => Stays(marked, Cancel(marked, Line), s) BY CancelStays
  <1>10. Stays(n, Cancel(marked, Line), s) BY <1>6, <1>9, StaysThen
  <1>11. OwnFrameHeard(n, f, h) \in
           (IF f # Line THEN {walked} ELSE {marked, p, Cancel(marked, Line)})
    BY DEF OwnFrameHeard, marked, held, carried
  <1> HIDE DEF walked, p
  <1> QED BY <1>2, <1>6, <1>8, <1>10, <1>11

LEMMA SameCarried ==
  ASSUME NEW n, NEW m, NEW s, NEW a \in Node, m.row[a] = n.row[a],
         m.copies[a] = n.copies[a], n.sides \subseteq m.sides, Carried(m, s, a)
  PROVE  Carried(n, s, a)
  BY MayRelayReceipt DEF Carried, Has

\* A row added.
LEMMA InsertPut ==
  ASSUME NEW n \in Station, NEW f \in Frame, ~Has(n, f), NEW r \in Row
  PROVE  LET m == Insert(n, f, r)
         IN  /\ m \in Station
             /\ \A e \in Frame : m.row[e] = IF e = f THEN r ELSE n.row[e]
             /\ m.receipts = n.receipts /\ m.sides = n.sides /\ m.copies = n.copies
             /\ m.jobs = n.jobs /\ m.heardAt = n.heardAt
  <1> DEFINE m == Insert(n, f, r)
  <1>1. m = [n EXCEPT !.row[f] = r] BY DEF Insert
  <1> HIDE DEF m
  <1> QED BY <1>1, PutRow DEF m

LEMMA KeepsStored ==
  ASSUME NEW n, NEW m \in Station, Stored(n), m.jobs = n.jobs,
         \A e \in Frame : Has(n, e) => Has(m, e)
  PROVE  Stored(m)
  <1> SUFFICES ASSUME NEW j \in m.jobs PROVE Has(m, j[1])
    BY DEF Stored
  <1>1. j[1] \in Frame BY FrameFacts DEF Station
  <1> QED BY <1>1 DEF Stored

LEMMA NoneCounted ==
  ASSUME NEW n, NEW s, NEW f \in Node, NEW H, Homed(n, s, H), ~Has(n, f)
  PROVE  n.copies[f] = 0
  <1>1. ~(n.copies[f] > 0) BY DEF Homed, Home, Carried
  <1>2. n.copies[f] \in Nat BY CopiesType, FrameFacts DEF Homed
  <1> QED BY <1>1, <1>2, SMT

\* A receipt is stored: from the originator's side it goes to the sides and is
\* not armed; any other was heard no nearer to the originator than the line.
LEMMA AcceptHomed ==
  ASSUME NEW n, NEW s \in Node, NEW f \in Node, NEW h \in Hops, h # 0, NEW H,
         Homed(n, s, H), ~Has(n, f), f # s, H[f] \in Nat
  PROVE  LET m == Accept(n, s, f, h, H[f])
         IN  /\ Homed(m, s, H)
             /\ \A e \in Frame : Has(m, e) <=> Has(n, e) \/ e = f
             /\ m.heardAt = n.heardAt
             /\ LineKind # "direct" /\ Ready(n, s) => Ready(m, s)
  <1> DEFINE row == NewRow("queued", h - 1, FALSE)
             stored == Insert(n, f, row)
             marked == IF f # Line /\ AckMarksDelivered(Own(s, Line), LineKind)
                       THEN Advance(stored, Line, "delivered") ELSE stored
             u == IF f # Line /\ ToUs(s, f) THEN Advance(marked, f, "relayed") ELSE marked
             up == FromUpstream(u, f, H[f])
             side == [u EXCEPT !.sides = @ \cup {f}]
             sided == IF up THEN side ELSE u
             arms == MayRelay(sided, s, f) /\ ~up
             armed == SetHold(sided, f, TRUE, h - 1)
             m == IF arms THEN armed ELSE sided
  <1>0. h - 1 \in Hops /\ f \in Frame /\ f # Line BY HopFacts, FrameFacts
  <1>1. m = Accept(n, s, f, h, H[f]) BY DEF Accept, Spent
  <1>2. /\ stored \in Station
        /\ \A e \in Frame : stored.row[e] = IF e = f THEN row ELSE n.row[e]
        /\ stored.receipts = n.receipts /\ stored.copies = n.copies
        /\ stored.heardAt = n.heardAt /\ stored.jobs = n.jobs
        /\ stored.sides = n.sides
        /\ row.hold = FALSE /\ row.mark # "none"
    <2>1. row \in Row /\ row.mark = "queued" /\ row.hold = FALSE
      BY <1>0, MarkTypes, NewRowType DEF NewRow
    <2> HIDE DEF row
    <2>2. n \in Station BY DEF Homed
    <2> QED BY <1>0, <2>1, <2>2, InsertPut
  <1> HIDE DEF stored, row
  <1>3. \A e \in Frame : Has(stored, e) <=> Has(n, e) \/ e = f BY <1>2 DEF Has
  <1>4. ASSUME NEW a \in Node, a # f, Carried(stored, s, a) PROVE Carried(n, s, a)
    <2>1. stored.row[a] = n.row[a] BY <1>2, <1>4, FrameFacts
    <2> QED BY <1>2, <1>4, <2>1, SameCarried
  <1>5. Stored(stored) BY <1>2, <1>3, KeepsStored DEF Homed
  <1>6. n.copies[f] = 0 BY NoneCounted
  <1>7. /\ Steady(stored, marked, s)
        /\ LineKind # "direct" => Stays(stored, marked, s)
        /\ \A e \in Frame : marked.row[e].hold = stored.row[e].hold
        /\ marked.copies = stored.copies
    <2> DEFINE q == Advance(stored, Line, "delivered")
    <2>1. AckMarksDelivered(Own(s, Line), LineKind) /\ LineKind # "direct" =>
            s = Origin \/ Open("delivered")
      BY NetworkAssumption DEF AckMarksDelivered, Own, OriginOf, BulletinKeepsWalking, Open
    <2>2. /\ Steady(stored, q, s)
          /\ s = Origin \/ Open("delivered") => Stays(stored, q, s)
      BY <1>2, MarkTypes, FrameFacts, AdvanceStays
    <2>3. (\A e \in Frame : q.row[e].hold = stored.row[e].hold) /\ q.copies = stored.copies
      <3>1. \/ q = stored
            \/ /\ Has(stored, Line)
               /\ q = [stored EXCEPT !.row[Line] = [stored.row[Line] EXCEPT !.mark = "delivered"]]
        BY DEF Advance
      <3> HIDE DEF q
      <3> QED BY <1>2, <3>1, MarkTypes, FrameFacts, MarkEffect
    <2> HIDE DEF q
    <2>4. marked \in {stored, q}
          /\ (marked = q /\ LineKind # "direct" => marked = stored \/ s = Origin \/ Open("delivered"))
      BY <2>1 DEF q
    <2> HIDE DEF marked
    <2> QED BY <1>2, <2>2, <2>3, <2>4, SteadyRefl DEF Stays
  <1> HIDE DEF marked
  <1>8. marked \in Station BY <1>7, StaysType
  <1>9. /\ Stays(marked, u, s)
        /\ \A e \in Frame : u.row[e].hold = marked.row[e].hold
        /\ u.copies = marked.copies
    <2> DEFINE q == Advance(marked, f, "relayed")
    <2>1. Stays(marked, q, s) BY <1>0, <1>8, MarkTypes, AdvanceStays
    <2>2. (\A e \in Frame : q.row[e].hold = marked.row[e].hold) /\ q.copies = marked.copies
      <3>1. \/ q = marked
            \/ /\ Has(marked, f)
               /\ q = [marked EXCEPT !.row[f] = [marked.row[f] EXCEPT !.mark = "relayed"]]
        BY DEF Advance
      <3> HIDE DEF q
      <3> QED BY <1>0, <1>8, <3>1, MarkTypes, MarkEffect
    <2> HIDE DEF q
    <2>3. u \in {marked, q} BY DEF q
    <2> HIDE DEF u
    <2> QED BY <1>8, <2>1, <2>2, <2>3, SteadyRefl
  <1> HIDE DEF u
  <1>10. /\ Steady(stored, u, s) /\ u \in Station
         /\ LineKind # "direct" => (Ready(stored, s) => Ready(u, s))
         /\ u.row[f].hold = FALSE /\ u.copies[f] = 0
    BY <1>0, <1>2, <1>6, <1>7, <1>9, SteadyTrans, StaysType DEF Stays
  <1>11. /\ sided \in Station /\ sided.row = u.row /\ sided.copies = u.copies
         /\ sided.jobs = u.jobs /\ sided.heardAt = u.heardAt /\ sided.receipts = u.receipts
         /\ u.sides \subseteq sided.sides
         /\ up => f \in sided.sides
    <2>1. /\ side \in Station /\ side.row = u.row /\ side.copies = u.copies
          /\ side.jobs = u.jobs /\ side.heardAt = u.heardAt /\ side.receipts = u.receipts
          /\ side.sides = u.sides \cup {f}
      BY <1>10 DEF Station
    <2> HIDE DEF side, up
    <2> QED BY <1>10, <2>1
  <1>12. ~up => Has(u, Line) /\ H[f] <= u.row[Line].hops
    <2>1. u.row[Line].hops \in Nat BY <1>10, HoldRow, FrameFacts, HopFacts
    <2>2. ~up => Has(u, Line) /\ ~(u.row[Line].hops + 1 <= H[f])
      BY <1>0 DEF FromUpstream, AckUpstreamByHops
    <2> QED BY <2>1, <2>2, SMT
  <1>13. \E b \in BOOLEAN : m = sided \/ (m = SetHold(sided, f, b, h - 1) /\ ~up)
    <2>1. m = sided \/ (m = SetHold(sided, f, TRUE, h - 1) /\ ~up) OBVIOUS
    <2> HIDE DEF m, sided, up
    <2> QED BY <2>1
  <1>14. PICK b \in BOOLEAN : m = sided \/ (m = SetHold(sided, f, b, h - 1) /\ ~up)
    BY <1>13
  <1> DEFINE q == SetHold(sided, f, b, h - 1)
  <1>15. /\ m \in Station /\ m.copies = u.copies /\ m.jobs = u.jobs
         /\ m.heardAt = u.heardAt /\ m.receipts = u.receipts
         /\ u.sides \subseteq m.sides
         /\ \A e \in Frame : /\ m.row[e].mark = u.row[e].mark
                             /\ e # f => m.row[e] = u.row[e]
         /\ up => m.row[f].hold = FALSE /\ f \in m.sides
    <2>0. sided \in Station BY <1>11
    <2> HIDE DEF m, sided, up
    <2>1. /\ q \in Station
          /\ \A e \in Frame : /\ q.row[e].mark = sided.row[e].mark
                              /\ e # f => q.row[e] = sided.row[e]
          /\ q.copies = sided.copies /\ q.receipts = sided.receipts
          /\ q.sides = sided.sides /\ q.jobs = sided.jobs
          /\ q.heardAt = sided.heardAt
      BY <1>0, <2>0, SetHoldEffect
    <2>2. m = sided \/ (m = q /\ ~up) BY <1>14
    <2> HIDE DEF q
    <2>3. CASE m = sided BY <1>10, <1>11, <2>3
    <2>4. CASE m = q /\ ~up BY <1>11, <2>1, <2>4
    <2> QED BY <2>2, <2>3, <2>4
  <1> HIDE DEF m, armed, arms, sided, up, q
  <1>16. ASSUME NEW a \in Node, a # f, Carried(m, s, a) PROVE Carried(n, s, a)
    <2>1. m.row[a] = u.row[a] BY <1>15, <1>16, FrameFacts
    <2>2. Carried(u, s, a) BY <1>15, <1>16, <2>1, SameCarried
    <2> QED BY <1>4, <1>10, <1>16, <2>2 DEF Steady
  <1>17. \A e \in Frame : /\ Has(m, e) <=> Has(stored, e)
                          /\ Has(m, e) <=> Has(n, e) \/ e = f
    <2>1. \A e \in Frame : Has(m, e) <=> Has(u, e) BY <1>15 DEF Has
    <2> QED BY <1>3, <1>10, <2>1 DEF Steady
  <1>18. /\ s # Origin => m.row[Line].hops = n.row[Line].hops
         /\ m.row[Line] = u.row[Line] /\ stored.row[Line] = n.row[Line]
    BY <1>0, <1>2, <1>10, <1>15, FrameFacts DEF Steady
  <1>19. Carried(m, s, f) => Toward(m, s, f, H)
    <2> SUFFICES ASSUME Carried(m, s, f) PROVE Toward(m, s, f, H)
      OBVIOUS
    <2>1. ~(m.copies[f] > 0) BY <1>10, <1>15, SMT
    <2>2. s # Origin /\ ~up BY <1>15, <2>1, MayRelayReceipt DEF Carried
    <2> QED BY <1>12, <1>15, <1>18, <2>2, FrameFacts DEF Toward, Has
  <1>20. Home(m, s, H)
    <2> SUFFICES ASSUME NEW a \in Node, Carried(m, s, a)
                 PROVE  Has(m, a) /\ Toward(m, s, a, H)
      BY DEF Home
    <2>1. CASE a = f BY <1>0, <1>17, <1>19, <2>1
    <2>2. CASE a # f
      <3>1. Has(n, a) /\ Toward(n, s, a, H) BY <1>16, <2>2 DEF Homed, Home
      <3> QED BY <1>17, <1>18, <3>1, FrameFacts DEF Toward
    <2> QED BY <2>1, <2>2
  <1>21. Stored(m)
    <2> SUFFICES ASSUME NEW j \in m.jobs PROVE Has(m, j[1])
      BY DEF Stored
    <2>1. j[1] \in Frame BY <1>15, FrameFacts DEF Station
    <2>2. j \in stored.jobs \/ Has(stored, j[1]) BY <1>10, <1>15 DEF Steady
    <2> QED BY <1>5, <1>17, <2>1, <2>2 DEF Stored
  <1>22. Unheard(m)
    BY <1>2, <1>3, <1>10, <1>15, <1>17, FrameFacts DEF Unheard, Homed, Steady
  <1>23. LineKind # "direct" /\ Ready(n, s) => Ready(m, s)
    <2>1. Ready(n, s) => Ready(stored, s)
      BY <1>18, MayRelayLine DEF Ready, HoldUntil, Has
    <2>2. Ready(u, s) => Ready(m, s)
      BY <1>18, MayRelayLine DEF Ready, HoldUntil, Has
    <2> QED BY <1>10, <2>1, <2>2
  <1>24. m.heardAt = n.heardAt BY <1>2, <1>10, <1>15 DEF Steady
  <1> QED BY <1>1, <1>15, <1>17, <1>20, <1>21, <1>22, <1>23, <1>24 DEF Homed

\* The line is stored by a station that holds no receipt it carries yet.
LEMMA AcceptLineHomely ==
  ASSUME NEW n, NEW s \in Node, NEW h \in Hops, h # 0, NEW l, NEW H,
         Homed(n, s, H), ~Has(n, Line), s # Origin
  PROVE  LET m == Accept(n, s, Line, h, l)
         IN  /\ Homely(m, s, H)
             /\ \A e \in Frame : Has(m, e) <=> Has(n, e) \/ e = Line
             /\ m.heardAt = n.heardAt /\ m.receipts = {}
  <1> DEFINE row == NewRow("queued", h - 1, FALSE)
             stored == Insert(n, Line, row)
             armed == SetHold(stored, Line, TRUE, h - 1)
             m == IF MayRelay(stored, s, Line) THEN armed ELSE stored
  <1>0. h - 1 \in Hops /\ Line \in Frame BY HopFacts, FrameFacts
  <1>1. m = Accept(n, s, Line, h, l) BY DEF Accept, Spent, FromUpstream
  <1>2. row \in Row /\ row.mark = "queued" /\ row.hold = FALSE /\ row.hops = h - 1
    BY <1>0, MarkTypes, NewRowType DEF NewRow
  <1> HIDE DEF row
  <1>3. /\ stored \in Station
        /\ \A e \in Frame : stored.row[e] = IF e = Line THEN row ELSE n.row[e]
        /\ stored.receipts = n.receipts /\ stored.copies = n.copies
        /\ stored.heardAt = n.heardAt /\ stored.jobs = n.jobs
        /\ stored.sides = n.sides
    <2>1. n \in Station BY DEF Homed
    <2> QED BY <1>0, <1>2, <2>1, InsertPut
  <1> HIDE DEF stored
  <1>4. \A e \in Frame : Has(stored, e) <=> Has(n, e) \/ e = Line
    BY <1>2, <1>3, MarkTypes DEF Has, Mark
  <1>5. Stored(stored) BY <1>3, <1>4, KeepsStored DEF Homed
  <1>6. ASSUME NEW a \in Node PROVE ~Carried(stored, s, a)
    <2>1. stored.row[a] = n.row[a] BY <1>3, FrameFacts
    <2>2. Carried(stored, s, a) => Carried(n, s, a) BY <1>3, <2>1, SameCarried
    <2> QED BY <2>2 DEF Homed, Home, Toward
  <1>7. \E b \in BOOLEAN :
          \/ m = stored
          \/ m = SetHold(stored, Line, b, h - 1) /\ MayRelay(stored, s, Line)
    <2>1. m = stored \/ (m = SetHold(stored, Line, TRUE, h - 1) /\ MayRelay(stored, s, Line))
      OBVIOUS
    <2> HIDE DEF m
    <2> QED BY <2>1
  <1>8. PICK b \in BOOLEAN :
          \/ m = stored
          \/ m = SetHold(stored, Line, b, h - 1) /\ MayRelay(stored, s, Line)
    BY <1>7
  <1> DEFINE q == SetHold(stored, Line, b, h - 1)
  <1>9. /\ q \in Station
        /\ \A e \in Frame : /\ q.row[e].mark = stored.row[e].mark
                            /\ e # Line => q.row[e] = stored.row[e]
        /\ q.copies = stored.copies /\ q.receipts = stored.receipts
        /\ q.sides = stored.sides /\ q.jobs = stored.jobs
        /\ q.heardAt = stored.heardAt
        /\ q.row[Line].hops = h - 1
    BY <1>0, <1>3, <1>4, SetHoldEffect
  <1>10. m = stored \/ (m = q /\ MayRelay(stored, s, Line)) BY <1>8
  <1> HIDE DEF m, q, armed
  <1>11. \A e \in Frame : Has(m, e) <=> Has(stored, e) BY <1>9, <1>10 DEF Has
  <1>12. ASSUME NEW a \in Node PROVE ~Carried(m, s, a)
    <2>1. q.row[a] = stored.row[a] BY <1>9, FrameFacts
    <2>2. Carried(q, s, a) => Carried(stored, s, a) BY <1>9, <2>1, SameCarried
    <2> QED BY <1>6, <1>10, <2>2
  <1>13. Ready(m, s)
    <2>1. CASE m = stored BY <1>0, <1>2, <1>3, <2>1 DEF Ready, HoldUntil
    <2>2. CASE m = q /\ MayRelay(stored, s, Line)
      <3>1. q.row[Line].hops = stored.row[Line].hops /\ q.row[Line].mark = stored.row[Line].mark
        BY <1>0, <1>2, <1>3, <1>9
      <3> QED BY <2>2, <3>1, MayRelayLine DEF Ready
    <2> QED BY <1>10, <2>1, <2>2
  <1>14. Stored(m)
    <2> SUFFICES ASSUME NEW j \in m.jobs PROVE Has(m, j[1])
      BY DEF Stored
    <2>1. m \in Station /\ m.jobs = stored.jobs BY <1>3, <1>9, <1>10
    <2>2. j[1] \in Frame BY <2>1, FrameFacts DEF Station
    <2> QED BY <1>5, <1>11, <2>1, <2>2 DEF Stored
  <1>15. m.receipts = {} /\ m.heardAt = n.heardAt
    BY <1>3, <1>9, <1>10 DEF Homed, Unheard
  <1>16. m \in Station BY <1>3, <1>9, <1>10
  <1> QED BY <1>1, <1>4, <1>11, <1>12, <1>13, <1>14, <1>15, <1>16
          DEF Homely, Homed, Home, Unheard

\* What a step may add to a station's rows: its own receipt, which tells where
\* it heard the line, and the frame it was handed.
Adds(n, m, s, f) ==
  /\ \A e \in Frame : /\ Has(n, e) => Has(m, e)
                      /\ Has(m, e) => Has(n, e) \/ e \in {s, f}
  /\ m.heardAt = n.heardAt \/ ~Has(n, s)

LEMMA AddsTrans ==
  ASSUME NEW n, NEW m, NEW q, NEW s \in Node, NEW f, Adds(n, m, s, f), Adds(m, q, s, f)
  PROVE  Adds(n, q, s, f)
  BY FrameFacts DEF Adds

LEMMA SteadyAdds ==
  ASSUME NEW n, NEW m, NEW s, NEW f, Steady(n, m, s) \/ Stays(n, m, s)
  PROVE  Adds(n, m, s, f)
  BY DEF Adds, Steady, Stays

\* A row that is no relay of ours is added.
LEMMA InsertHomed ==
  ASSUME NEW n, NEW s \in Node, NEW f \in Frame, NEW r \in Row, NEW H,
         Homed(n, s, H), ~Has(n, f), r.mark # "none",
         f # Line => r.hops = 0 \/ f = s
  PROVE  LET m == Insert(n, f, r)
         IN  /\ Homed(m, s, H)
             /\ \A e \in Frame : m.row[e] = IF e = f THEN r ELSE n.row[e]
             /\ \A e \in Frame : Has(m, e) <=> Has(n, e) \/ e = f
             /\ m.receipts = n.receipts /\ m.heardAt = n.heardAt
  <1> DEFINE m == Insert(n, f, r)
  <1>0. n \in Station BY DEF Homed
  <1>1. /\ m \in Station
        /\ \A e \in Frame : m.row[e] = IF e = f THEN r ELSE n.row[e]
        /\ m.receipts = n.receipts /\ m.sides = n.sides /\ m.copies = n.copies
        /\ m.jobs = n.jobs /\ m.heardAt = n.heardAt
    BY <1>0, InsertPut
  <1> HIDE DEF m
  <1>2. \A e \in Frame : Has(m, e) <=> Has(n, e) \/ e = f BY <1>1 DEF Has
  <1>3. ASSUME NEW a \in Node, Carried(m, s, a) PROVE Has(m, a) /\ Toward(m, s, a, H)
    <2>1. a # f
      <3>1. SUFFICES ASSUME a = f PROVE FALSE OBVIOUS
      <3>2. ~(m.copies[a] > 0) BY <1>1, <3>1, NoneCounted, SMT
      <3>3. ~MayRelay(m, s, a) BY <1>1, <3>1, FrameFacts, HopFacts, MayRelayReceipt, SMT
      <3> QED BY <1>3, <3>2, <3>3 DEF Carried
    <2>2. m.row[a] = n.row[a] BY <1>1, <2>1, FrameFacts
    <2>3. Carried(n, s, a) BY <1>1, <1>3, <2>2, SameCarried
    <2>4. Has(n, a) /\ Toward(n, s, a, H) BY <2>3 DEF Homed, Home
    <2>5. f # Line BY <2>4 DEF Toward
    <2> QED BY <1>1, <1>2, <2>4, <2>5, FrameFacts DEF Toward
  <1>4. Stored(m) BY <1>1, <1>2, KeepsStored DEF Homed
  <1>5. Unheard(m) BY <1>1, <1>2, FrameFacts DEF Homed, Unheard
  <1> QED BY <1>1, <1>2, <1>3, <1>4, <1>5 DEF Homed, Home, m

LEMMA AcknowledgeHomely ==
  ASSUME NEW n, NEW s \in Node, NEW h \in Hops, NEW H, Homely(n, s, H), ~Has(n, s)
  PROVE  LET m == Acknowledge(n, s, h)
         IN  Homely(m, s, H) /\ Adds(n, m, s, s) /\ m.receipts = n.receipts
  <1> DEFINE r == NewRow("sent", Ttl, ~HeardFromOrigin(h, Ttl))
             i == Insert(n, s, r)
             js == i.jobs \cup {<<s, Ttl>>}
             a == [i EXCEPT !.heardAt = h, !.keyed = i.keyed + 1, !.jobs = js]
  <1>0. s \in Frame /\ s # Line BY FrameFacts
  <1>1. r \in Row /\ r.mark = "sent"
    <2>1. (~HeardFromOrigin(h, Ttl)) \in BOOLEAN BY DEF HeardFromOrigin
    <2> QED BY <2>1, HopFacts, MarkTypes, NewRowType
  <1>2. a = Acknowledge(n, s, h) BY DEF Acknowledge
  <1> HIDE DEF r
  <1>3. /\ Homed(i, s, H)
        /\ \A e \in Frame : i.row[e] = IF e = s THEN r ELSE n.row[e]
        /\ \A e \in Frame : Has(i, e) <=> Has(n, e) \/ e = s
        /\ i.receipts = n.receipts /\ i.heardAt = n.heardAt
    BY <1>0, <1>1, InsertHomed DEF Homely
  <1> HIDE DEF i
  <1>4. i \in Station BY <1>3 DEF Homed
  <1>5. /\ a \in Station /\ a.row = i.row /\ a.copies = i.copies /\ a.sides = i.sides
        /\ a.receipts = i.receipts /\ a.jobs = js
    <2>1. i.keyed + 1 \in Nat BY <1>4, SMT DEF Station
    <2>2. js \in SUBSET (Node \X Hops) BY <1>4, HopFacts DEF Station
    <2> HIDE DEF js
    <2> QED BY <1>4, <2>1, <2>2 DEF Station
  <1> HIDE DEF a
  <1>6. \A e \in Frame : Has(a, e) <=> Has(n, e) \/ e = s BY <1>3, <1>5 DEF Has
  <1>7. Home(a, s, H)
    <2> SUFFICES ASSUME NEW b \in Node, Carried(a, s, b)
                 PROVE  Has(a, b) /\ Toward(a, s, b, H)
      BY DEF Home
    <2>1. Carried(i, s, b) BY <1>5, SameCarried
    <2>2. Has(i, b) /\ Toward(i, s, b, H) BY <1>3, <2>1 DEF Homed, Home
    <2> QED BY <1>5, <2>2 DEF Toward, Has
  <1>8. Stored(a)
    <2> SUFFICES ASSUME NEW j \in a.jobs PROVE Has(a, j[1])
      BY DEF Stored
    <2>1. CASE j \in i.jobs BY <1>3, <1>5, <2>1 DEF Homed, Stored, Has
    <2>2. CASE j = <<s, Ttl>> BY <1>0, <1>6, <2>2
    <2> QED BY <1>5, <2>1, <2>2
  <1>9. Unheard(a) BY <1>3, <1>5 DEF Homed, Unheard, Has
  <1>10. Ready(a, s)
    <2>1. a.row[Line] = n.row[Line] BY <1>0, <1>3, <1>5, FrameFacts
    <2> QED BY <2>1, MayRelayLine DEF Homely, Ready, HoldUntil, Has
  <1> QED BY <1>2, <1>3, <1>5, <1>6, <1>7, <1>8, <1>9, <1>10 DEF Homely, Homed, Adds

\* The first copy of the line is answered, and nobody's receipt is noted yet.
LEMMA LineArrivedHomely ==
  ASSUME NEW n, NEW s \in Node, NEW h \in Hops, NEW H, Homely(n, s, H),
         ~Has(n, s), s # Origin, Has(n, Line), n.receipts = {}
  PROVE  LET m == LineArrived(n, s, h)
         IN  Homely(m, s, H) /\ Adds(n, m, s, Line)
  <1> DEFINE ack == Acknowledge(n, s, h)
             answered == IF Answers(s, h) THEN ack ELSE n
             noted == [answered EXCEPT !.receipts = @ \cup {Origin}]
             m == LineArrived(n, s, h)
  <1>1. Homely(answered, s, H) /\ Adds(n, answered, s, s) /\ answered.receipts = {}
    <2>1. Homely(ack, s, H) /\ Adds(n, ack, s, s) /\ ack.receipts = n.receipts
      BY AcknowledgeHomely
    <2>2. Adds(n, n, s, s) BY DEF Adds
    <2> HIDE DEF ack
    <2> QED BY <2>1, <2>2
  <1> HIDE DEF answered
  <1>2. answered \in Station /\ Has(answered, Line)
    BY <1>1, FrameFacts DEF Homely, Homed, Adds
  <1>3. /\ noted \in Station /\ noted.row = answered.row /\ noted.copies = answered.copies
        /\ noted.sides = answered.sides /\ noted.jobs = answered.jobs
        /\ noted.heardAt = answered.heardAt /\ noted.receipts = {Origin}
    BY <1>1, <1>2, FrameFacts DEF Station
  <1>4. m = IF LineKind # "closed" \/ s \notin Members THEN answered
            ELSE IF AllReceived(noted) THEN SetDelivery(noted, Line, "all") ELSE noted
    BY DEF LineArrived, noted, answered
  <1> HIDE DEF noted, m
  <1>5. Stays(answered, noted, s) BY <1>2, <1>3, RestStays
  <1>6. s \in Members => ~AllReceived(noted) BY <1>3 DEF AllReceived
  <1>7. m \in {answered, noted} BY <1>4, <1>6
  <1>8. Homely(noted, s, H) BY <1>1, <1>5, StaysHomely
  <1>9. Adds(n, m, s, s) BY <1>1, <1>3, <1>7 DEF Adds, Has
  <1> QED BY <1>1, <1>7, <1>8, <1>9 DEF Adds, m

\* A receipt marks the line and may end its walk; while it goes on, it may
\* still be relayed.
LEMMA AckArrivedSteady ==
  ASSUME NEW n \in Station, NEW s \in Node, NEW f \in Node, NEW c
  PROVE  LET m == AckArrived(n, s, f, c)
         IN  /\ Steady(n, m, s)
             /\ LineKind = "direct" \/ Ready(n, s) => Ready(m, s)
  <1> DEFINE e == [n EXCEPT !.downstream = @ \cup {Line}]
             ended == IF Has(n, Line) /\ AckEndsRelay(LineKind, f = Dest) THEN e ELSE n
             marked == IF AckMarksDelivered(Own(s, Line), LineKind)
                       THEN Advance(ended, Line, "delivered") ELSE ended
             closed == LineKind = "closed" /\ Has(n, Line)
             b == [marked EXCEPT !.receipts = @ \cup {f, s}]
             noted == IF closed THEN b ELSE marked
             alled == IF closed /\ AllReceived(noted) THEN Advance(noted, Line, "all") ELSE noted
             drop == /\ closed /\ ~Own(s, Line)
                     /\ QueuedRepeatUnneeded(alled.row[Line].tries)
                     /\ ReachedNeighbours(alled, Line, c)
             rel == Release(alled, Line)
             pruned == IF drop THEN Cancel(rel, Line) ELSE alled
             keep == \/ closed /\ GroupStillWaiting(pruned, Line)
                     \/ Has(n, Line) /\ ~Own(s, Line) /\ BulletinKeepsWalking(LineKind)
             kept == IF Own(s, Line) THEN 0 ELSE pruned.row[Line].hops
             let == SetHold(pruned, Line, FALSE, kept)
  <1>1. Stays(n, ended, s)
    <2>1. /\ e \in Station /\ e.row = n.row /\ e.copies = n.copies /\ e.sides = n.sides
          /\ e.jobs = n.jobs /\ e.heardAt = n.heardAt /\ e.receipts = n.receipts
      BY FrameFacts DEF Station
    <2> HIDE DEF e
    <2>2. Stays(n, e, s) BY <2>1, RestStays
    <2> QED BY <2>2, SteadyRefl
  <1> HIDE DEF ended
  <1>2. ended \in Station BY <1>1, StaysType
  <1>3. Steady(ended, marked, s) /\ (LineKind # "direct" => Stays(ended, marked, s))
    <2> DEFINE q == Advance(ended, Line, "delivered")
    <2>1. AckMarksDelivered(Own(s, Line), LineKind) /\ LineKind # "direct" =>
            s = Origin \/ Open("delivered")
      BY NetworkAssumption DEF AckMarksDelivered, Own, OriginOf, BulletinKeepsWalking, Open
    <2>2. /\ Steady(ended, q, s)
          /\ s = Origin \/ Open("delivered") => Stays(ended, q, s)
      BY <1>2, MarkTypes, FrameFacts, AdvanceStays
    <2> HIDE DEF q
    <2>3. marked \in {ended, q}
          /\ (marked = q /\ LineKind # "direct" => marked = ended \/ s = Origin \/ Open("delivered"))
      BY <2>1 DEF q
    <2> HIDE DEF marked
    <2> QED BY <1>2, <2>2, <2>3, SteadyRefl DEF Stays
  <1> HIDE DEF marked
  <1>4. marked \in Station BY <1>3, StaysType
  <1>5. Stays(marked, noted, s)
    <2>1. /\ b \in Station /\ b.row = marked.row /\ b.copies = marked.copies
          /\ b.sides = marked.sides /\ b.jobs = marked.jobs /\ b.heardAt = marked.heardAt
      BY <1>4 DEF Station
    <2>2. Has(n, Line) => Has(marked, Line)
      BY <1>1, <1>3, FrameFacts DEF Stays, Steady
    <2> HIDE DEF b
    <2>3. closed => Stays(marked, b, s) BY <1>4, <2>1, <2>2, RestStays
    <2> QED BY <1>4, <2>3, SteadyRefl
  <1> HIDE DEF noted
  <1>6. noted \in Station BY <1>5, StaysType
  <1>7. /\ Steady(noted, alled, s) /\ alled \in Station /\ alled.receipts = noted.receipts
        /\ ~(closed /\ AllReceived(noted)) => alled = noted
    <2> DEFINE q == Advance(noted, Line, "all")
    <2>1. Steady(noted, q, s) BY <1>6, MarkTypes, FrameFacts, AdvanceStays
    <2>2. q.receipts = noted.receipts BY <1>6 DEF Advance, Station
    <2> HIDE DEF q
    <2>3. alled \in {noted, q} /\ (~(closed /\ AllReceived(noted)) => alled = noted) BY DEF q
    <2> HIDE DEF alled
    <2>4. Steady(noted, noted, s) BY <1>6, SteadyRefl DEF Stays
    <2> QED BY <2>1, <2>2, <2>3, <2>4, StaysType
  <1> HIDE DEF alled
  <1>8. Stays(alled, pruned, s) /\ pruned.receipts = alled.receipts
    <2>1. rel \in Station /\ Stays(alled, rel, s)
      BY <1>7, FrameFacts, ReleaseStays, StaysType
    <2>2. rel.receipts = alled.receipts BY <1>7 DEF Release, SetHold, Station
    <2> HIDE DEF rel
    <2>3. rel \in Station => Stays(rel, Cancel(rel, Line), s) BY CancelStays
    <2>4. Stays(alled, Cancel(rel, Line), s) BY <2>1, <2>3, StaysThen
    <2>5. Cancel(rel, Line).receipts = rel.receipts BY <2>1 DEF Cancel, Station
    <2> HIDE DEF drop
    <2> QED BY <1>7, <2>2, <2>4, <2>5, SteadyRefl
  <1> HIDE DEF drop, pruned
  <1>9. pruned \in Station BY <1>8, StaysType
  <1>10. Stays(pruned, Cancel(let, Line), s) /\ Ready(Cancel(let, Line), s)
    <2>1. kept \in Hops /\ (kept = pruned.row[Line].hops \/ s = Origin)
      BY <1>9, FrameFacts, HopFacts, RowType DEF Row, Own, OriginOf
    <2> HIDE DEF kept
    <2>2. Stays(pruned, let, s) BY <1>9, <2>1, FrameFacts, SetHoldStays
    <2>3. let \in Station /\ ~HoldUntil(let, Line)
      <3> DEFINE r == [pruned.row[Line] EXCEPT !.hold = FALSE, !.hops = kept]
      <3>0. r \in Row /\ r.hold = FALSE BY <1>9, <2>1, FrameFacts, RowType DEF Row
      <3>1. let = IF Has(pruned, Line) THEN [pruned EXCEPT !.row[Line] = r] ELSE pruned
        BY DEF SetHold
      <3> HIDE DEF r, let
      <3>2. Has(pruned, Line) => let.row[Line] = r /\ let \in Station
        BY <1>9, <3>0, <3>1, FrameFacts, PutRow
      <3> QED BY <1>9, <3>0, <3>1, <3>2 DEF HoldUntil
    <2> HIDE DEF let
    <2>4. let \in Station => Stays(let, Cancel(let, Line), s) BY CancelStays
    <2>5. Ready(let, s) BY <2>3 DEF Ready
    <2>6. Stays(pruned, Cancel(let, Line), s) BY <2>2, <2>4, StaysThen
    <2> QED BY <2>3, <2>4, <2>5, <2>6 DEF Stays
  <1>11. AckArrived(n, s, f, c) = IF keep THEN pruned ELSE Cancel(let, Line)
    BY DEF AckArrived, pruned, drop, alled, noted, marked, ended
  <1>12. keep => LineKind # "direct" /\ ~(closed /\ AllReceived(noted))
    <2>1. AllReceived(noted) => AllReceived(pruned)
      BY <1>7, <1>8 DEF AllReceived
    <2> QED BY <2>1 DEF GroupStillWaiting, BulletinKeepsWalking
  <1> HIDE DEF keep, let, closed
  <1>13. Steady(n, pruned, s)
    BY <1>1, <1>3, <1>5, <1>7, <1>8, SteadyTrans DEF Stays
  <1>14. keep /\ Ready(n, s) => Ready(pruned, s)
    BY <1>1, <1>3, <1>5, <1>7, <1>8, <1>12 DEF Stays
  <1>15. Steady(n, Cancel(let, Line), s) BY <1>10, <1>13, SteadyTrans DEF Stays
  <1> QED BY <1>10, <1>11, <1>12, <1>13, <1>14, <1>15

\* The receipts of others go once more, those the station carries.
LEMMA ResendStays ==
  ASSUME NEW n \in Station, NEW s, NEW g
  PROVE  Stays(n, ResendHeldAcks(n, s, g), s)
  <1> DEFINE resent == {a \in (Node \ {s}) \cap g.ready :
                         /\ Has(n, a) /\ n.row[a].hops > 0
                         /\ a \notin n.downstream /\ a \notin n.sides
                         /\ ~HoldUntil(n, a)
                         /\ MayRelay(n, s, a)
                         /\ ~CopiesSpent(n, a)}
             sent == {<<a, n.row[a].hops>> : a \in resent}
             count == [f \in Frame |-> IF f \in resent THEN n.copies[f] + 1 ELSE n.copies[f]]
             m == [n EXCEPT !.jobs = n.jobs \cup sent, !.copies = count]
  <1>1. \A a \in resent : /\ a \in Node /\ Has(n, a) /\ Carried(n, s, a)
                          /\ n.row[a].hops \in Hops
    BY FrameFacts, RowType DEF Row, Carried
  <1>2. m = ResendHeldAcks(n, s, g) BY DEF ResendHeldAcks, Station
  <1> HIDE DEF resent
  <1>3. sent \subseteq Node \X Hops /\ \A j \in sent : Has(n, j[1]) BY <1>1
  <1>4. count \in [Frame -> Nat]
    <2>1. n.copies \in [Frame -> Nat] BY DEF Station
    <2> QED BY <2>1, SMT
  <1>5. \A e \in Frame : count[e] = IF e \in resent THEN n.copies[e] + 1 ELSE n.copies[e]
    OBVIOUS
  <1> HIDE DEF sent, count
  <1>6. /\ m \in Station /\ m.row = n.row /\ m.sides = n.sides /\ m.heardAt = n.heardAt
        /\ m.receipts = n.receipts /\ m.copies = count /\ m.jobs = n.jobs \cup sent
    BY <1>3, <1>4 DEF Station
  <1> HIDE DEF m
  <1>7. \A j \in m.jobs : j \in n.jobs \/ Has(n, j[1]) BY <1>3, <1>6
  <1>8. \A a \in Node : m.copies[a] = n.copies[a] \/ Carried(n, s, a)
    BY <1>1, <1>5, <1>6, FrameFacts
  <1>9. Stays(n, m, s) BY <1>6, <1>7, <1>8, SendStays
  <1> QED BY <1>2, <1>9

LEMMA RelayHeardStays ==
  ASSUME NEW n \in Station, NEW s \in Node, NEW f \in Frame, NEW h, NEW c, NEW g,
         Has(n, f)
  PROVE  Stays(n, RelayHeardRetry(n, s, f, h, c, g), s)
  <1> DEFINE heard == [n EXCEPT !.downstream = @ \cup {f}]
             a == Release(heard, f)
             resent == IF f = Line THEN ResendHeldAcks(n, s, g) ELSE n
             result == RelayHeardRetry(n, s, f, h, c, g)
  <1>1. Stays(n, heard, s)
    <2>1. /\ heard \in Station /\ heard.row = n.row /\ heard.copies = n.copies
          /\ heard.sides = n.sides /\ heard.jobs = n.jobs
          /\ heard.heardAt = n.heardAt /\ heard.receipts = n.receipts
      BY DEF Station
    <2> HIDE DEF heard
    <2> QED BY <2>1, RestStays
  <1>2. Stays(n, Cancel(a, f), s)
    <2> HIDE DEF heard
    <2>1. heard \in Station => Stays(heard, a, s) BY ReleaseStays
    <2>2. Stays(n, a, s) BY <1>1, <2>1, StaysThen
    <2> HIDE DEF a
    <2>3. a \in Station => Stays(a, Cancel(a, f), s) BY CancelStays
    <2> QED BY <2>2, <2>3, StaysThen
  <1>3. Stays(n, resent, s) /\ (f # Line => resent = n)
    BY ResendStays, SteadyRefl
  <1>4. \/ result \in {Cancel(a, f), heard, n, resent}
        \/ /\ result = Dispatch(resent, s, f)
           /\ MayRelay(resent, s, f) /\ f \notin n.sides
    BY DEF RelayHeardRetry
  <1> HIDE DEF resent, a, heard, result
  <1>5. ASSUME MayRelay(resent, s, f), f \notin n.sides
        PROVE  Stays(n, Dispatch(resent, s, f), s)
    <2>1. resent \in Station /\ Has(resent, f) BY <1>3 DEF Stays, Steady
    <2>2. f = Line \/ Carried(resent, s, f)
      BY <1>3, <1>5, <2>1 DEF Carried
    <2>3. Stays(resent, Dispatch(resent, s, f), s) BY <2>1, <2>2, DispatchStays
    <2> QED BY <1>3, <2>3, StaysThen
  <1> QED BY <1>1, <1>2, <1>3, <1>4, <1>5, SteadyRefl DEF result

LEMMA AnswerAgainHomely ==
  ASSUME NEW n, NEW s \in Node, NEW h \in Hops, NEW H, Homely(n, s, H)
  PROVE  LET m == AnswerAgain(n, s, h) IN Homely(m, s, H) /\ Adds(n, m, s, s)
  <1> DEFINE js == n.jobs \cup {<<s, n.row[s].hops>>}
             m == [n EXCEPT !.downstream = @ \ {s}, !.keyed = n.keyed + 1, !.jobs = js]
  <1>0. n \in Station BY DEF Homely, Homed
  <1>1. CASE Has(n, s)
    <2>0. s \in Frame /\ n.row[s].hops \in Hops BY <1>0, FrameFacts, HoldRow
    <2>1. n.keyed + 1 \in Nat BY <1>0, SMT DEF Station
    <2>2. js \in SUBSET (Node \X Hops) BY <1>0, <2>0 DEF Station
    <2>3. \A j \in js : j \in n.jobs \/ Has(n, j[1]) BY <1>1
    <2> HIDE DEF js
    <2>4. m \in Station BY <1>0, <2>1, <2>2 DEF Station
    <2>5. /\ m.row = n.row /\ m.copies = n.copies /\ m.sides = n.sides /\ m.jobs = js
          /\ m.heardAt = n.heardAt /\ m.receipts = n.receipts
      BY <1>0 DEF Station
    <2>6. AnswerAgain(n, s, h) = m BY <1>1 DEF AnswerAgain, js
    <2> HIDE DEF m
    <2>7. Stays(n, m, s) BY <1>0, <2>3, <2>4, <2>5, SendStays
    <2> QED BY <2>6, <2>7, StaysHomely, SteadyAdds
  <1>2. CASE ~Has(n, s) BY <1>2, AcknowledgeHomely DEF AnswerAgain
  <1> QED BY <1>1, <1>2

LEMMA MaybeAnswerHomely ==
  ASSUME NEW n, NEW s \in Node, NEW f \in Frame, NEW h \in Hops, NEW c, NEW g, NEW H,
         Homely(n, s, H), Has(n, f)
  PROVE  LET m == MaybeAnswerRetry(n, s, f, h, c, g)
         IN  Homely(m, s, H) /\ Adds(n, m, s, f)
  <1> DEFINE member == s \in Members
             forUs == \/ LineKind = "direct" /\ s = Dest
                      \/ LineKind = "bulletin"
                      \/ LineKind = "closed" /\ member
             wanted == forUs /\ CopyWantsNewAck(h, n.row[f].hops) /\ ~OwnReceiptWalking(n, s)
             more == [n EXCEPT !.asked = n.asked + 1]
             counted == IF wanted THEN more ELSE n
             go == wanted /\ g.answers /\ OwnReceiptAllowed(counted.keyed, counted.asked)
             again == AnswerAgain(counted, s, h)
             answered == IF go THEN again ELSE counted
             m == MaybeAnswerRetry(n, s, f, h, c, g)
  <1>0. n \in Station BY DEF Homely, Homed
  <1>1. Stays(n, counted, s)
    <2>1. n.asked + 1 \in Nat BY <1>0, SMT DEF Station
    <2>2. /\ more \in Station /\ more.row = n.row /\ more.copies = n.copies
          /\ more.sides = n.sides /\ more.jobs = n.jobs
          /\ more.heardAt = n.heardAt /\ more.receipts = n.receipts
      BY <1>0, <2>1 DEF Station
    <2> HIDE DEF more
    <2>3. Stays(n, more, s) BY <1>0, <2>2, RestStays
    <2> QED BY <1>0, <2>3, SteadyRefl
  <1>2. m = IF f # Line \/ ~AcksLine(LineKind, h, Ttl) THEN RelayHeardRetry(n, s, f, h, c, g)
            ELSE IF LineKind = "closed" /\ ~member THEN answered
            ELSE RelayHeardRetry(answered, s, f, h, c, g)
    BY DEF MaybeAnswerRetry
  <1> HIDE DEF counted, go, m
  <1>3. Homely(counted, s, H) /\ Adds(n, counted, s, s)
    BY <1>1, StaysHomely, SteadyAdds
  <1>4. Homely(answered, s, H) /\ Adds(n, answered, s, s)
    <2>1. Homely(again, s, H) /\ Adds(counted, again, s, s) BY <1>3, AnswerAgainHomely
    <2> HIDE DEF again
    <2>2. Adds(n, again, s, s) BY <1>3, <2>1, AddsTrans
    <2> QED BY <1>3, <2>1, <2>2
  <1> HIDE DEF answered
  <1>5. answered \in Station /\ Has(answered, f) BY <1>4 DEF Homely, Homed, Adds
  <1> DEFINE p == RelayHeardRetry(n, s, f, h, c, g)
             q == RelayHeardRetry(answered, s, f, h, c, g)
  <1>6. Stays(n, p, s) /\ Stays(answered, q, s) BY <1>0, <1>5, RelayHeardStays
  <1>7. m \in {p, q, answered} BY <1>2
  <1> HIDE DEF p, q
  <1>8. Homely(p, s, H) /\ Adds(n, p, s, s) BY <1>6, StaysHomely, SteadyAdds
  <1>9. Homely(q, s, H) /\ Adds(answered, q, s, s) BY <1>4, <1>6, StaysHomely, SteadyAdds
  <1>10. Adds(n, q, s, s) BY <1>4, <1>9, AddsTrans
  <1>11. Homely(m, s, H) /\ Adds(n, m, s, s) BY <1>4, <1>7, <1>8, <1>9, <1>10
  <1> QED BY <1>11 DEF Adds, m

\* The whole receive handler.
LEMMA OnEnvelopeHomely ==
  ASSUME NEW n, NEW s \in Node, NEW f \in Frame, NEW h \in Hops, NEW l, NEW c, NEW g, NEW H,
         Homely(n, s, H), Has(n, s) => Has(n, Line),
         f # Line => l = H[f] /\ l \in Nat
  PROVE  LET m == OnEnvelope(n, s, f, h, l, c, g)
         IN  Homely(m, s, H) /\ Adds(n, m, s, f)
  <1> DEFINE action == Decide(Has(n, f), h, n.row[f].mark \in {"queued", "sent"})
             acc == Accept(n, s, f, h, l)
             r == NewRow("queued", 0, FALSE)
             drop == Insert(n, f, r)
             sup == Suppress(n, f)
             rel == Advance(sup, f, "relayed")
             dup == IF DuplicateSuppresses(KindOf(f), h, n.row[f].hops) THEN Cancel(rel, f) ELSE n
             m == OnEnvelope(n, s, f, h, l, c, g)
  <1>0. n \in Station BY DEF Homely, Homed
  <1>1. CASE Own(s, f)
    <2>1. m = OwnFrameHeard(n, f, h) BY <1>1 DEF OnEnvelope
    <2>2. Stays(n, OwnFrameHeard(n, f, h), s) BY <1>0, <1>1, OwnFrameStays
    <2> HIDE DEF m
    <2> QED BY <2>1, <2>2, StaysHomely, SteadyAdds DEF m
  <1>2. CASE ~Own(s, f) /\ Has(n, f)
    <2>1. action \in {"suppress", "ignore"} BY <1>2 DEF Decide
    <2>2. Stays(n, dup, s)
      <3>1. Stays(n, sup, s) BY <1>0, SuppressStays
      <3> HIDE DEF sup
      <3>2. sup \in Station => Stays(sup, rel, s) BY MarkTypes, AdvanceStays DEF Open
      <3>3. Stays(n, rel, s) BY <3>1, <3>2, StaysThen
      <3> HIDE DEF rel
      <3>4. rel \in Station => Stays(rel, Cancel(rel, f), s) BY CancelStays
      <3>5. Stays(n, Cancel(rel, f), s) BY <3>3, <3>4, StaysThen
      <3> QED BY <1>0, <3>5, SteadyRefl
    <2>3. \E t \in {dup, n} : m = MaybeAnswerRetry(t, s, f, h, c, g)
      BY <1>2, <2>1 DEF OnEnvelope, Decide
    <2> HIDE DEF dup, m
    <2>4. PICK t \in {dup, n} : m = MaybeAnswerRetry(t, s, f, h, c, g) BY <2>3
    <2>5. Stays(n, t, s) BY <1>0, <2>2, SteadyRefl
    <2>6. Homely(t, s, H) /\ Adds(n, t, s, f) BY <2>5, StaysHomely, SteadyAdds
    <2>7. Has(t, f) BY <1>2, <2>6 DEF Adds
    <2>8. Homely(m, s, H) /\ Adds(t, m, s, f) BY <2>4, <2>6, <2>7, MaybeAnswerHomely
    <2>9. Adds(n, m, s, f) BY <2>6, <2>8, AddsTrans
    <2> QED BY <2>8, <2>9 DEF m
  <1>3. CASE ~Own(s, f) /\ ~Has(n, f)
    <2> DEFINE taken == IF h = 0 THEN drop ELSE acc
    <2>1. m = IF f = Line THEN LineArrived(taken, s, h) ELSE AckArrived(taken, s, f, c)
      BY <1>3 DEF OnEnvelope, Decide
    <2>2. /\ Homed(taken, s, H) /\ Adds(n, taken, s, f)
          /\ f = Line \/ LineKind # "direct" => Ready(taken, s)
          /\ \A e \in Frame : Has(taken, e) <=> Has(n, e) \/ e = f
          /\ f = Line => taken.receipts = {}
      <3>1. CASE h = 0
        <4>1. r \in Row /\ r.mark = "queued" /\ r.hops = 0 /\ r.hold = FALSE
          BY HopFacts, MarkTypes, NewRowType DEF NewRow
        <4> HIDE DEF r
        <4>2. /\ Homed(drop, s, H)
              /\ \A e \in Frame : drop.row[e] = IF e = f THEN r ELSE n.row[e]
              /\ \A e \in Frame : Has(drop, e) <=> Has(n, e) \/ e = f
              /\ drop.receipts = n.receipts /\ drop.heardAt = n.heardAt
          BY <1>3, <4>1, InsertHomed DEF Homely
        <4> HIDE DEF drop
        <4>3. Ready(drop, s)
          <5>1. CASE f = Line BY <4>1, <4>2, <5>1 DEF Ready, HoldUntil
          <5>2. CASE f # Line
            <6>1. drop.row[Line] = n.row[Line] BY <4>2, <5>2, FrameFacts
            <6> QED BY <6>1, MayRelayLine DEF Homely, Ready, HoldUntil, Has
          <5> QED BY <5>1, <5>2
        <4>4. f = Line => drop.receipts = {}
          BY <1>3, <4>2 DEF Homely, Homed, Unheard
        <4> QED BY <3>1, <4>2, <4>3, <4>4 DEF Adds
      <3>2. CASE h # 0 /\ f # Line
        <4>1. f \in Node /\ f # s /\ H[f] \in Nat /\ l = H[f]
          BY <1>3, <3>2, FrameFacts DEF Own, OriginOf
        <4>2. /\ Homed(acc, s, H) /\ acc.heardAt = n.heardAt
              /\ \A e \in Frame : Has(acc, e) <=> Has(n, e) \/ e = f
              /\ LineKind # "direct" => Ready(acc, s)
          BY <1>3, <3>2, <4>1, AcceptHomed DEF Homely
        <4> HIDE DEF acc
        <4> QED BY <3>2, <4>2 DEF Adds
      <3>3. CASE h # 0 /\ f = Line
        <4>1. s # Origin BY <1>3, <3>3 DEF Own, OriginOf
        <4>2. /\ Homely(acc, s, H)
              /\ \A e \in Frame : Has(acc, e) <=> Has(n, e) \/ e = Line
              /\ acc.heardAt = n.heardAt /\ acc.receipts = {}
          BY <1>3, <3>3, <4>1, AcceptLineHomely DEF Homely
        <4> HIDE DEF acc
        <4> QED BY <3>3, <4>2 DEF Adds, Homely
      <3> QED BY <3>1, <3>2, <3>3
    <2> HIDE DEF taken, m
    <2>3. CASE f = Line
      <3>1. s # Origin BY <1>3, <2>3 DEF Own, OriginOf
      <3>2. ~Has(taken, s) /\ Has(taken, Line)
        BY <1>3, <2>2, <2>3, FrameFacts
      <3>3. Homely(m, s, H) /\ Adds(taken, m, s, Line)
        BY <2>1, <2>2, <2>3, <3>1, <3>2, LineArrivedHomely DEF Homely
      <3>4. Adds(n, m, s, f) BY <2>2, <2>3, <3>3, AddsTrans
      <3> QED BY <3>3, <3>4 DEF m
    <2>4. CASE f # Line
      <3>0. f \in Node /\ taken \in Station BY <2>2, <2>4, FrameFacts DEF Homed
      <3>1. /\ Steady(taken, m, s)
            /\ LineKind = "direct" \/ Ready(taken, s) => Ready(m, s)
        BY <2>1, <2>4, <3>0, AckArrivedSteady
      <3>2. Homely(m, s, H) BY <2>2, <3>1, SteadyHomed DEF Homely
      <3>3. Adds(taken, m, s, f) BY <3>1, SteadyAdds
      <3>4. Adds(n, m, s, f) BY <2>2, <3>3, AddsTrans
      <3> QED BY <3>2, <3>4 DEF m
    <2> QED BY <2>3, <2>4
  <1> QED BY <1>1, <1>2, <1>3

-----------------------------------------------------------------------------
\* The timers: the hold pump lets no line go that may still be relayed.
LEMMA PumpedStays ==
  ASSUME NEW n \in Station, NEW s \in Node, NEW f \in Frame, NEW c,
         HoldUntil(n, f), ~Own(s, f), n.row[f].hops > 0, Ready(n, s)
  PROVE  Stays(n, Pumped(n, s, f, c), s)
  <1> DEFINE zero == SetHold(n, f, FALSE, 0)
             sent == Dispatch(n, s, f)
             up == Advance(sent, f, "relayed")
             max == n.row[f].tries < MaxRetries
  <1>0. Has(n, f) /\ (f = Line => s # Origin)
    BY DEF HoldUntil, Own, OriginOf
  <1>1. CASE ~MayRelay(n, s, f)
    <2>1. f # Line BY <1>0, <1>1 DEF Ready
    <2>2. Pumped(n, s, f, c) = Cancel(zero, f) BY <1>1 DEF Pumped
    <2>3. Stays(n, zero, s) BY <2>1, HopFacts, SetHoldStays
    <2> HIDE DEF zero
    <2>4. zero \in Station => Stays(zero, Cancel(zero, f), s) BY CancelStays
    <2>5. Stays(n, Cancel(zero, f), s) BY <2>3, <2>4, StaysThen
    <2> QED BY <2>2, <2>5
  <1>2. CASE MayRelay(n, s, f)
    <2>1. \/ Pumped(n, s, f, c) \in {Release(n, f), Release(sent, f)}
          \/ Pumped(n, s, f, c) = BumpRetry(up, f) /\ max
      BY <1>2, PumpedOutcomes
    <2>2. f = Line \/ Carried(n, s, f) BY <1>0, <1>2, FrameFacts DEF Carried, HoldUntil
    <2>3. Stays(n, sent, s) BY <1>0, <2>2, DispatchStays
    <2>4. sent \in Station /\ sent.row = n.row BY DispatchEffect
    <2> HIDE DEF sent
    <2>5. Stays(n, Release(n, f), s) BY ReleaseStays
    <2>6. Stays(n, Release(sent, f), s) BY <2>3, <2>4, ReleaseStays, StaysThen
    <2>7. Stays(sent, up, s) BY <2>4, MarkTypes, AdvanceStays DEF Open
    <2>8. Stays(n, up, s) BY <2>3, <2>7, StaysThen
    <2>9. /\ up \in Station /\ up.row[f].tries = n.row[f].tries
          /\ up.row[f].hold = n.row[f].hold /\ Has(up, f)
          /\ up.row[f].mark \in {"relayed", n.row[f].mark}
      <3>1. \/ up = sent
            \/ /\ Has(sent, f)
               /\ up = [sent EXCEPT !.row[f] = [sent.row[f] EXCEPT !.mark = "relayed"]]
        BY DEF Advance
      <3> HIDE DEF up
      <3>2. "relayed" \in Mark BY MarkTypes
      <3> QED BY <1>0, <2>4, <3>1, <3>2, MarkEffect DEF Has
    <2> HIDE DEF up
    <2>10. max => up.row[f].tries <= MaxRetries
      BY <2>9, HoldRow, BoundsAssumption, SMT
    <2>11. f = Line => MayRelay(up, s, Line)
      <3>1. f = Line => up.row[Line].hops = n.row[Line].hops
        BY <1>0, <2>8 DEF Stays, Steady
      <3> QED BY <1>2, <2>9, <3>1, MayRelayLine
    <2>12. f # Line => up.row[f].hold BY <2>9 DEF HoldUntil
    <2> HIDE DEF max
    <2>13. max => Stays(up, BumpRetry(up, f), s)
      BY <2>9, <2>10, <2>11, <2>12, BumpStays
    <2>14. max => Stays(n, BumpRetry(up, f), s) BY <2>8, <2>13, StaysThen
    <2> QED BY <2>1, <2>5, <2>6, <2>14
  <1> QED BY <1>1, <1>2

\* The line's sender relays nothing, and a station does not relay its own receipt.
LEMMA RetryStays ==
  ASSUME NEW n \in Station, NEW s \in Node, NEW f \in Frame,
         Has(n, f), Own(s, f), n.row[f].tries < MaxRetries
  PROVE  Stays(n, RetryStep(n, s, f), s)
  <1> DEFINE sent == Dispatch(n, s, f)
             zero == SetHold(n, f, FALSE, 0)
             done == SetHold(sent, f, FALSE, 0)
             bump == BumpRetry(sent, f)
  <1>0. f = Line => s = Origin BY DEF Own, OriginOf
  <1>1. \/ RetryStep(n, s, f) = FinishAckWalk(n, f) /\ f # Line
        \/ RetryStep(n, s, f) \in {zero, done, bump}
    BY AckKind DEF RetryStep
  <1>2. f # Line => Stays(n, FinishAckWalk(n, f), s) BY FinishStays
  <1>3. Stays(n, zero, s) BY <1>0, HopFacts, SetHoldStays
  <1>4. Stays(n, sent, s) BY DispatchStays
  <1>5. sent \in Station /\ sent.row = n.row BY DispatchEffect
  <1> HIDE DEF sent
  <1>6. Stays(sent, done, s) BY <1>0, <1>5, HopFacts, SetHoldStays
  <1>7. sent.row[f].tries <= MaxRetries
    BY <1>5, HoldRow, BoundsAssumption, SMT
  <1>8. Stays(sent, bump, s) BY <1>0, <1>5, <1>7, BumpStays DEF Has
  <1> HIDE DEF done, bump, zero
  <1>9. Stays(n, done, s) /\ Stays(n, bump, s) BY <1>4, <1>6, <1>8, StaysThen
  <1> QED BY <1>1, <1>2, <1>3, <1>9

LEMMA AckWaitStays ==
  ASSUME NEW n \in Station, NEW s \in Node, NEW f \in Frame, Has(n, f), Own(s, f)
  PROVE  Stays(n, AckWaitStep(n, f), s)
  <1> DEFINE closed == SetHold(n, f, FALSE, 0)
             failed == Advance(closed, f, "failed")
  <1>0. f = Line => s = Origin BY DEF Own, OriginOf
  <1>1. \/ AckWaitStep(n, f) = FinishAckWalk(n, f) /\ f # Line
        \/ AckWaitStep(n, f) = BumpRetry(n, f) /\ n.row[f].tries = MaxRetries
        \/ AckWaitStep(n, f) \in {closed, failed}
    BY AckKind DEF AckWaitStep, AckWaitRunsOn
  <1>2. Stays(n, closed, s) BY <1>0, HopFacts, SetHoldStays
  <1> HIDE DEF closed
  <1>3. closed \in Station => Stays(closed, failed, s)
    BY <1>0, MarkTypes, AdvanceStays
  <1>4. Stays(n, failed, s) BY <1>2, <1>3, StaysThen
  <1> HIDE DEF failed
  <1>5. n.row[f].tries = MaxRetries => Stays(n, BumpRetry(n, f), s)
    <2>1. MaxRetries <= MaxRetries BY BoundsAssumption
    <2> QED BY <1>0, <2>1, BumpStays
  <1>6. f # Line => Stays(n, FinishAckWalk(n, f), s) BY FinishStays
  <1> QED BY <1>1, <1>2, <1>4, <1>5, <1>6

-----------------------------------------------------------------------------
\* What the receipts say of where their senders heard the line.
HeardAt == [a \in Node |-> node[a].heardAt]

\* A receipt stored or under way is its sender's.
Answered ==
  \A t, a \in Node :
    Has(node[t], a) \/ (\E j \in inbox[t] : j[1] = a) => Has(node[a], a)

AllHome == Answered /\ \A s \in Node : Homely(node[s], s, HeardAt)

\* One station takes a step: its receipt, once stored, says what it said.
LEMMA HomeStep ==
  ASSUME TypeOK, AllHome, NEW s \in Node, NEW m, NEW f \in Frame, Becomes(s, m),
         Homely(m, s, HeardAt), Adds(node[s], m, s, f),
         f # Line => Has(node[f], f),
         \A t \in Node : \A j \in inbox'[t] :
           j \in inbox[t] \/ j[1] = Line \/ Has(node[s], j[1])
  PROVE  AllHome'
  <1>1. \A t \in Node : node'[t] = IF t = s THEN m ELSE node[t]
    BY DEF Becomes, TypeOK
  <1>2. ASSUME NEW a \in Node, Has(node[a], a)
        PROVE  Has(node'[a], a) /\ HeardAt'[a] = HeardAt[a]
    <2>1. CASE a = s BY <1>1, <1>2, <2>1, FrameFacts DEF Adds, HeardAt
    <2>2. CASE a # s BY <1>1, <1>2, <2>2 DEF HeardAt
    <2> QED BY <2>1, <2>2
  <1>3. ASSUME NEW t \in Node, NEW a \in Node,
               Has(node'[t], a) \/ (\E j \in inbox'[t] : j[1] = a)
        PROVE  Has(node'[a], a)
    <2>1. CASE Has(node'[t], a)
      <3>1. CASE t # s
        <4>1. Has(node[a], a) BY <1>1, <2>1, <3>1 DEF AllHome, Answered
        <4> QED BY <1>2, <4>1
      <3>2. CASE t = s
        <4>1. Has(node[s], a) \/ a \in {s, f} BY <1>1, <2>1, <3>2, FrameFacts DEF Adds
        <4>2. CASE a = s BY <2>1, <3>2, <4>2
        <4>3. CASE a # s
          <5>1. Has(node[a], a) BY <4>1, <4>3, FrameFacts DEF AllHome, Answered
          <5> QED BY <1>2, <5>1
        <4> QED BY <4>2, <4>3
      <3> QED BY <3>1, <3>2
    <2>2. CASE \E j \in inbox'[t] : j[1] = a
      <3>1. PICK j \in inbox'[t] : j[1] = a BY <2>2
      <3>2. j \in inbox[t] \/ Has(node[s], a) BY <3>1, FrameFacts
      <3>3. Has(node[a], a) BY <3>1, <3>2 DEF AllHome, Answered
      <3> QED BY <1>2, <3>3
    <2> QED BY <1>3, <2>1, <2>2
  <1>4. ASSUME NEW t \in Node PROVE Homely(node'[t], t, HeardAt')
    <2>1. Homely(node'[t], t, HeardAt) BY <1>1 DEF AllHome
    <2>2. ASSUME NEW a \in Node, Carried(node'[t], t, a)
          PROVE  Has(node'[t], a) /\ Toward(node'[t], t, a, HeardAt')
      <3>1. Has(node'[t], a) /\ Toward(node'[t], t, a, HeardAt)
        BY <2>1, <2>2 DEF Homely, Homed, Home
      <3>2. HeardAt'[a] = HeardAt[a]
        <4>1. CASE t # s
          <5>1. Has(node[a], a) BY <1>1, <3>1, <4>1 DEF AllHome, Answered
          <5> QED BY <1>2, <5>1
        <4>2. CASE t = s
          <5>1. a # s BY <3>1, <4>2 DEF Toward
          <5> QED BY <1>1, <5>1 DEF HeardAt
        <4> QED BY <4>1, <4>2
      <3> QED BY <3>1, <3>2 DEF Toward
    <2> QED BY <2>1, <2>2 DEF Homely, Homed, Home
  <1> QED BY <1>3, <1>4 DEF AllHome, Answered

LEMMA StaysHome ==
  ASSUME TypeOK, AllHome, NEW s \in Node, NEW m, Becomes(s, m), Stays(node[s], m, s),
         \A t \in Node : \A j \in inbox'[t] :
           j \in inbox[t] \/ j[1] = Line \/ Has(node[s], j[1])
  PROVE  AllHome'
  <1>1. Homely(node[s], s, HeardAt) BY DEF AllHome
  <1>2. Homely(m, s, HeardAt) BY <1>1, StaysHomely
  <1>3. Adds(node[s], m, s, Line) BY SteadyAdds
  <1> QED BY <1>2, <1>3, FrameFacts, HomeStep

LEMMA SendLineHome ==
  ASSUME TypeOK, AllHome, SendLine
  PROVE  AllHome'
  <1> DEFINE n == node[Origin]
             r == NewRow("queued", Ttl, FALSE)
             stored == Insert(n, Line, r)
             handed == Dispatch(stored, Origin, Line)
             sent == SetDelivery(handed, Line, "sent")
             armed == SetHold(sent, Line, TRUE, Ttl)
             S(m) == Homely(m, Origin, HeardAt) /\ m \in Station
                     /\ Adds(n, m, Origin, Line)
  <1>0. Origin \in Node /\ Line \in Frame /\ Own(Origin, Line)
    BY FrameFacts DEF Own, OriginOf
  <1>1. ~Has(n, Line) /\ Homely(n, Origin, HeardAt) /\ inbox' = inbox
    BY <1>0 DEF SendLine, AllHome
  <1>2. Becomes(Origin, armed) BY DEF SendLine
  <1>3. r \in Row /\ r.mark # "none"
    <2>1. r \in Row /\ r.mark = "queued" BY HopFacts, MarkTypes, NewRowType
    <2> QED BY <2>1
  <1> HIDE DEF r, n
  <1>4. S(stored) /\ Has(stored, Line)
    <2>1. /\ Homed(stored, Origin, HeardAt)
          /\ \A e \in Frame : Has(stored, e) <=> Has(n, e) \/ e = Line
          /\ stored.heardAt = n.heardAt
      BY <1>0, <1>1, <1>3, InsertHomed DEF Homely
    <2> QED BY <1>0, <2>1 DEF Homely, Homed, Ready, Adds
  <1> HIDE DEF stored
  <1>5. ASSUME NEW a, NEW b, S(a), Stays(a, b, Origin) PROVE S(b)
    <2>1. Homely(b, Origin, HeardAt) BY <1>5, StaysHomely
    <2>2. Adds(a, b, Origin, Line) BY <1>5, SteadyAdds
    <2>3. Adds(n, b, Origin, Line) BY <1>0, <1>5, <2>2, AddsTrans
    <2> QED BY <2>1, <2>3 DEF Homely, Homed
  <1>6. Stays(stored, handed, Origin) BY <1>0, <1>4, DispatchStays
  <1>7. S(handed) BY <1>4, <1>5, <1>6
  <1> HIDE DEF handed
  <1>8. Stays(handed, sent, Origin) BY <1>0, <1>7, MarkTypes, SetDeliveryStays
  <1>9. S(sent) BY <1>5, <1>7, <1>8
  <1> HIDE DEF sent
  <1>10. S(armed)
    <2>1. \E b \in BOOLEAN : armed = SetHold(sent, Line, b, Ttl) OBVIOUS
    <2> HIDE DEF armed
    <2>2. PICK b \in BOOLEAN : armed = SetHold(sent, Line, b, Ttl) BY <2>1
    <2>3. Stays(sent, SetHold(sent, Line, b, Ttl), Origin)
      BY <1>0, <1>9, HopFacts, SetHoldStays
    <2> QED BY <1>5, <1>9, <2>2, <2>3
  <1> HIDE DEF armed
  <1> QED BY <1>0, <1>1, <1>2, <1>10, HomeStep DEF n

\* What is keyed is the line, or a receipt its station stores.
LEMMA KeyHome ==
  ASSUME TypeOK, AllHome, NEW s \in Node, KeyLine(s) \/ KeyAck(s)
  PROVE  AllHome'
  <1>0. node[s] \in Station /\ Stored(node[s]) BY DEF AllHome, Homely, Homed
  <1>1. ASSUME NEW f, NEW h, OnAir(s, f, h)
        PROVE  \A t \in Node : \A j \in inbox'[t] : j \in inbox[t] \/ j = <<f, h>>
    BY <1>1 DEF OnAir
  <1>2. CASE KeyLine(s)
    <2> DEFINE n == [node[s] EXCEPT !.queue = {}]
    <2>1. PICK h \in node[s].queue : Becomes(s, n) /\ OnAir(s, Line, h) BY <1>2 DEF KeyLine
    <2>2. n = Cancel(node[s], Line) BY DEF Cancel
    <2> HIDE DEF n
    <2>3. Stays(node[s], n, s) BY <1>0, <2>2, CancelStays
    <2>4. \A t \in Node : \A j \in inbox'[t] : j \in inbox[t] \/ j[1] = Line
      BY <1>1, <2>1
    <2> QED BY <2>1, <2>3, <2>4, StaysHome
  <1>3. CASE KeyAck(s)
    <2>1. PICK job \in node[s].jobs :
            /\ Becomes(s, [node[s] EXCEPT !.jobs = @ \ {job}])
            /\ inbox' = inbox \/ OnAir(s, job[1], job[2])
      BY <1>3 DEF KeyAck
    <2> DEFINE n == [node[s] EXCEPT !.jobs = @ \ {job}]
    <2>2. Becomes(s, n) BY <2>1
    <2>3. /\ n \in Station /\ n.row = node[s].row /\ n.copies = node[s].copies
          /\ n.sides = node[s].sides /\ n.jobs \subseteq node[s].jobs
          /\ n.heardAt = node[s].heardAt /\ n.receipts = node[s].receipts
      BY <1>0 DEF Station
    <2> HIDE DEF n
    <2>4. Stays(node[s], n, s) BY <1>0, <2>3, RestStays
    <2>5. Has(node[s], job[1]) BY <1>0 DEF Stored
    <2>6. \A t \in Node : \A j \in inbox'[t] : j \in inbox[t] \/ Has(node[s], j[1])
      BY <1>1, <2>1, <2>5
    <2> QED BY <2>2, <2>4, <2>6, StaysHome
  <1> QED BY <1>2, <1>3

LEMMA ReceiveHome ==
  ASSUME IInv, AllHome, NEW s \in Node, Receive(s)
  PROVE  AllHome'
  <1>1. PICK j \in inbox[s] : \E c \in Around(s), g \in Gaps(s, j[1]) :
          /\ inbox' = [inbox EXCEPT ![s] = @ \ {j}]
          /\ Becomes(s, OnEnvelope(node[s], s, j[1], j[2],
                                   IF j[1] = Line THEN 0 ELSE node[j[1]].heardAt, c, g))
    BY DEF Receive
  <1>2. PICK c \in Around(s), g \in Gaps(s, j[1]) :
          Becomes(s, OnEnvelope(node[s], s, j[1], j[2],
                                IF j[1] = Line THEN 0 ELSE node[j[1]].heardAt, c, g))
    BY <1>1
  <1> DEFINE f == j[1]
             h == j[2]
             l == IF f = Line THEN 0 ELSE node[f].heardAt
             m == OnEnvelope(node[s], s, f, h, l, c, g)
  <1>3. f \in Frame /\ h \in Hops /\ TypeOK BY TypeFacts DEF IInv
  <1>4. Becomes(s, m) BY <1>2
  <1>5. \A t \in Node : \A k \in inbox'[t] : k \in inbox[t]
    BY <1>1, <1>3 DEF TypeOK
  <1>6. f # Line => f \in Node /\ Has(node[f], f) BY <1>3, FrameFacts DEF AllHome, Answered
  <1>7. f # Line => l = HeardAt[f] /\ l \in Nat
    BY <1>6, TypeFacts, HopFacts DEF HeardAt, Station
  <1>8. Has(node[s], s) => Has(node[s], Line)
    <2>1. RowSound(node[s].row[s], s, s, Holders) BY FrameFacts DEF IInv, Sound
    <2> QED BY <2>1, FrameFacts DEF RowSound, Receipted, Holders, HasLine, Has
  <1> HIDE DEF l, f, h
  <1>9. Homely(node[s], s, HeardAt) BY DEF AllHome
  <1>10. Homely(m, s, HeardAt) /\ Adds(node[s], m, s, f)
    BY <1>3, <1>7, <1>8, <1>9, OnEnvelopeHomely
  <1> HIDE DEF m
  <1> QED BY <1>3, <1>4, <1>5, <1>6, <1>10, HomeStep

LEMMA TimerHome ==
  ASSUME TypeOK, AllHome, NEW s \in Node, NEW f \in Frame,
         HoldDue(s, f) \/ RetryDue(s, f) \/ AckWaitDue(s, f)
  PROVE  AllHome'
  <1>0. node[s] \in Station /\ Ready(node[s], s) BY DEF AllHome, Homely, Homed
  <1>1. inbox' = inbox BY DEF HoldDue, RetryDue, AckWaitDue
  <1>2. CASE HoldDue(s, f)
    <2>1. PICK c \in Around(s) : Becomes(s, Pumped(node[s], s, f, c))
      BY <1>2 DEF HoldDue
    <2>2. HoldUntil(node[s], f) /\ ~Own(s, f) /\ node[s].row[f].hops > 0
      BY <1>2 DEF HoldDue, RelayDue
    <2>3. Stays(node[s], Pumped(node[s], s, f, c), s) BY <1>0, <2>2, PumpedStays
    <2> QED BY <1>1, <2>1, <2>3, StaysHome
  <1>3. CASE RetryDue(s, f)
    <2>1. /\ Becomes(s, RetryStep(node[s], s, f)) /\ Own(s, f)
          /\ node[s].row[f].mark \in Retried /\ node[s].row[f].tries < MaxRetries
      BY <1>3 DEF RetryDue
    <2>2. Has(node[s], f) BY <2>1 DEF Has, Retried
    <2>3. Stays(node[s], RetryStep(node[s], s, f), s) BY <1>0, <2>1, <2>2, RetryStays
    <2> QED BY <1>1, <2>1, <2>3, StaysHome
  <1>4. CASE AckWaitDue(s, f)
    <2>1. Becomes(s, AckWaitStep(node[s], f)) /\ Own(s, f) /\ node[s].row[f].mark \in Retried
      BY <1>4 DEF AckWaitDue
    <2>2. Has(node[s], f) BY <2>1 DEF Has, Retried
    <2>3. Stays(node[s], AckWaitStep(node[s], f), s) BY <1>0, <2>1, <2>2, AckWaitStays
    <2> QED BY <1>1, <2>1, <2>3, StaysHome
  <1> QED BY <1>2, <1>3, <1>4

LEMMA InitHome ==
  ASSUME Init
  PROVE  AllHome
  <1>1. \A s \in Node : node[s] = Fresh /\ node[s] \in Station /\ inbox[s] = {}
    BY InitInvariant, TypeFacts DEF Init
  <1>2. /\ \A e \in Frame : ~Has(Fresh, e) /\ Fresh.copies[e] = 0
        /\ Fresh.jobs = {} /\ Fresh.receipts = {}
    BY DEF Fresh, Stopped, NoRow, Has
  <1> HIDE DEF Fresh
  <1>3. Answered BY <1>1, <1>2, FrameFacts DEF Answered
  <1>4. ASSUME NEW s \in Node PROVE Homely(node[s], s, HeardAt)
    <2>1. \A a \in Node : ~Carried(Fresh, s, a) BY <1>2, FrameFacts, SMT DEF Carried
    <2>2. Ready(Fresh, s) BY <1>2, FrameFacts DEF Ready, HoldUntil
    <2> QED BY <1>1, <1>2, <2>1, <2>2 DEF Homely, Homed, Home, Stored, Unheard
  <1> QED BY <1>3, <1>4 DEF AllHome

\* All of it holds until the first fault.
LEMMA StepHome ==
  ASSUME IInv, faults = 0 => AllHome, [Next]_vars, faults' = 0
  PROVE  AllHome'
  <1>0. TypeOK BY DEF IInv
  <1>1. ASSUME Fault PROVE FALSE
    <2>1. faults' = faults + 1 /\ faults \in Nat BY <1>1, TypeFacts, SMT DEF Fault
    <2> QED BY <2>1, SMT
  <1>2. faults = 0 => AllHome OBVIOUS
  <1>3. CASE SendLine
    <2>1. faults = 0 BY <1>3 DEF SendLine
    <2> QED BY <1>0, <1>2, <1>3, <2>1, SendLineHome
  <1>4. ASSUME NEW s \in Node, KeyLine(s) \/ KeyAck(s) PROVE AllHome'
    <2>1. faults = 0 BY <1>4 DEF KeyLine, KeyAck
    <2> QED BY <1>0, <1>2, <1>4, <2>1, KeyHome
  <1>5. ASSUME NEW s \in Node, Receive(s) PROVE AllHome'
    <2>1. faults = 0 BY <1>5 DEF Receive
    <2> QED BY <1>2, <1>5, <2>1, ReceiveHome
  <1>6. ASSUME NEW s \in Node, NEW f \in Frame,
               HoldDue(s, f) \/ RetryDue(s, f) \/ AckWaitDue(s, f)
        PROVE  AllHome'
    <2>1. faults = 0 BY <1>6 DEF HoldDue, RetryDue, AckWaitDue
    <2> QED BY <1>0, <1>2, <1>6, <2>1, TimerHome
  <1>7. ASSUME NEW s \in Node,
               Flush(s) \/ Restart(s) \/ \E f \in Frame : Expire(s, f) \/ HoldAged(s, f)
        PROVE  FALSE
    BY <1>1, <1>7 DEF Flush, Restart, Expire, HoldAged
  <1>8. CASE UNCHANGED vars
    <2>1. faults = 0 /\ node' = node /\ inbox' = inbox BY <1>8 DEF vars
    <2>2. HeardAt' = HeardAt BY <2>1 DEF HeardAt
    <2> QED BY <1>2, <2>1, <2>2 DEF AllHome, Answered
  <1> QED BY <1>3, <1>4, <1>5, <1>6, <1>7, <1>8 DEF Next

\* Receipts travel toward the originator: until a station restarts or lets a row
\* go by age or flush, none relays a receipt of a station that heard the line
\* nearer to its originator than it did itself (AckSides, relay_held_acks and
\* the hold pump of node.rs, Engine::on_rx).
THEOREM HomewardUntilFault == Spec => [](faults = 0 => ReceiptsGoHome)
  <1> DEFINE Until == faults = 0 => AllHome
  <1>1. Init => Until BY InitHome
  <1>2. IInv /\ Until /\ [Next]_vars => Until'
    <2> SUFFICES ASSUME IInv, Until, [Next]_vars, faults' = 0 PROVE AllHome'
      OBVIOUS
    <2> QED BY StepHome
  <1>3. AllHome => ReceiptsGoHome
    <2> SUFFICES ASSUME AllHome, NEW s \in Node, NEW a \in Node, node[s].copies[a] > 0
                 PROVE  HasLine(s) /\ node[a].heardAt <= node[s].row[Line].hops
      BY DEF ReceiptsGoHome
    <2>1. Toward(node[s], s, a, HeardAt) BY DEF AllHome, Homely, Homed, Home, Carried
    <2> QED BY <2>1 DEF Toward, HasLine, HeardAt
  <1>4. Until => (faults = 0 => ReceiptsGoHome) BY <1>3
  <1>5. Spec => []Until
    <2> HIDE DEF Until
    <2> QED BY <1>1, <1>2, Invariance, PTL DEF Spec
  <1> QED BY <1>4, <1>5, PTL
=============================================================================
