-------------------------- MODULE LineRelayProofs --------------------------
(***************************************************************************)
(* Proofs about LineRelay for every network, roster, hop budget and retry  *)
(* limit.  First what each handler keeps of a station's type and does to   *)
(* its marks, then the invariants of the steps.                            *)
(***************************************************************************)
EXTENDS LineRelay, TLAPS

LEMMA FrameFacts ==
  /\ Line \in Frame /\ Origin \in Node /\ Dest \in Node
  /\ \A s \in Node : s \in Frame /\ s # Line
  /\ \A f \in Frame : f # Line => f \in Node
  BY NetworkAssumption DEF Frame

LEMMA HopFacts ==
  /\ Ttl \in Hops /\ 0 \in Hops /\ Ttl \in Nat \ {0} /\ PrioTtl \in Nat
  /\ \A h \in Hops : h \in Nat /\ 0 <= h /\ h <= h
  /\ \A h \in Hops : h # 0 => h - 1 \in Hops
  BY BoundsAssumption DEF Hops

LEMMA RankValues ==
  /\ Rank["queued"] = 0 /\ Rank["sent"] = 1 /\ Rank["relayed"] = 2
  /\ Rank["gateway"] = 3 /\ Rank["failed"] = 4 /\ Rank["delivered"] = 5
  /\ Rank["all"] = 6
  BY DEF Rank, Mark

LEMMA RankType == \A m \in Mark : Rank[m] \in 0..6
  BY RankValues, SMT DEF Mark

LEMMA KindType == \A f \in Frame : KindOf(f) \in Kind
  BY NetworkAssumption DEF KindOf, Kind

\* Every row a station had is still there, with a mark no further back.
Later(n, m) ==
  /\ m \in Station
  /\ \A g \in Frame : Has(n, g) => /\ Has(m, g)
                                   /\ Rank[n.row[g].mark] <= Rank[m.row[g].mark]

LEMMA LaterRefl ==
  ASSUME NEW n \in Station
  PROVE  Later(n, n)
  <1> SUFFICES ASSUME NEW g \in Frame, Has(n, g)
               PROVE  Rank[n.row[g].mark] <= Rank[n.row[g].mark]
    BY DEF Later
  <1> n.row[g].mark \in Mark BY DEF Station, Row, Has
  <1> QED BY RankType, SMT

LEMMA LaterTrans ==
  ASSUME NEW n \in Station, NEW m \in Station, NEW q, Later(n, m), Later(m, q)
  PROVE  Later(n, q)
  <1> q \in Station BY DEF Later
  <1> SUFFICES ASSUME NEW g \in Frame, Has(n, g)
               PROVE  Has(q, g) /\ Rank[n.row[g].mark] <= Rank[q.row[g].mark]
    BY DEF Later
  <1>1. Has(m, g) /\ Rank[n.row[g].mark] <= Rank[m.row[g].mark] BY DEF Later
  <1>2. Has(q, g) /\ Rank[m.row[g].mark] <= Rank[q.row[g].mark] BY <1>1 DEF Later
  <1>3. n.row[g].mark \in Mark /\ m.row[g].mark \in Mark /\ q.row[g].mark \in Mark
    BY <1>1, <1>2 DEF Station, Row, Has
  <1> QED BY <1>1, <1>2, <1>3, RankType, SMT

LEMMA NewRowType ==
  ASSUME NEW m \in Mark, NEW h \in Hops, NEW armed \in BOOLEAN
  PROVE  NewRow(m, h, armed) \in Row /\ NewRow(m, h, armed).mark = m
  BY BoundsAssumption, SMT DEF NewRow, Row

LEMMA LaterRow ==
  ASSUME NEW n \in Station, NEW f \in Frame, NEW r \in Row,
         n.row[f].mark # "none" => r.mark # "none" /\ Rank[n.row[f].mark] <= Rank[r.mark]
  PROVE  Later(n, [n EXCEPT !.row[f] = r])
  <1> DEFINE m == [n EXCEPT !.row[f] = r]
  <1>1. m \in Station BY DEF Station
  <1>2. \A g \in Frame : m.row[g] = IF g = f THEN r ELSE n.row[g]
    BY DEF Station
  <1>3. ASSUME NEW g \in Frame, Has(n, g)
        PROVE  Has(m, g) /\ Rank[n.row[g].mark] <= Rank[m.row[g].mark]
    <2> n.row[g].mark \in Mark BY <1>3 DEF Station, Row, Has
    <2>1. CASE g = f BY <1>2, <1>3, <2>1 DEF Has
    <2>2. CASE g # f BY <1>2, <1>3, <2>2, RankType, SMT DEF Has
    <2> QED BY <2>1, <2>2
  <1> QED BY <1>1, <1>3 DEF Later

-----------------------------------------------------------------------------
(***************************************************************************)
(* What is true of one station while the stations in H have the line.      *)
(***************************************************************************)
\* A receipt of a's exists only if a has the line and had to answer it.
Receipted(a, H) ==
  /\ a \in H /\ a # Origin
  /\ LineKind = "direct" => a = Dest
  /\ LineKind = "closed" => a \in Members

\* What a mark of the line claims is so.
Earned(m, H) ==
  /\ m \in {"relayed", "delivered", "all"} => \E r \in H : r # Origin
  /\ m = "delivered" /\ LineKind = "direct" => Dest \in H
  /\ m = "all" => LineKind = "closed" /\ Members \subseteq H
  /\ m # "gateway"

Within(f, h, s) == h + Dist[OriginOf(f)][s] <= Ttl

\* A copy a station is about to key: only its sender keys one without hops.
Goes(f, h, s) == Within(f, h, s) /\ (h = 0 => Own(s, f))

RowSound(r, f, s, H) ==
  r.mark # "none" =>
    /\ Within(f, r.hops, s)
    /\ f = Line => s \in H /\ Earned(r.mark, H)
    /\ f # Line => Receipted(f, H)

RestSound(n, s, H) ==
  /\ n.receipts \subseteq H
  /\ \A h \in n.queue : Goes(Line, h, s) /\ s \in H
  /\ \A j \in n.jobs : Goes(j[1], j[2], s) /\ Receipted(j[1], H)

Sound(n, s, H) ==
  /\ \A f \in Frame : RowSound(n.row[f], f, s, H)
  /\ RestSound(n, s, H)

\* A handler's effect: nothing moves back, and what was sound stays so.
Keeps(n, m, s, H) == Later(n, m) /\ (Sound(n, s, H) => Sound(m, s, H))

LEMMA DistType == \A f \in Frame, s \in Node : Dist[OriginOf(f)][s] \in Nat
  BY NetworkAssumption DEF OriginOf, Frame

LEMMA KeepsRefl ==
  ASSUME NEW n \in Station, NEW s, NEW H
  PROVE  Keeps(n, n, s, H)
  BY LaterRefl DEF Keeps

LEMMA KeepsTrans ==
  ASSUME NEW n \in Station, NEW m, NEW q, NEW s, NEW H,
         Keeps(n, m, s, H), Keeps(m, q, s, H)
  PROVE  Keeps(n, q, s, H)
  <1> m \in Station BY DEF Keeps, Later
  <1> QED BY LaterTrans DEF Keeps

\* One row replaced.
LEMMA KeepsRow ==
  ASSUME NEW n \in Station, NEW s, NEW H, NEW f \in Frame, NEW r \in Row,
         n.row[f].mark # "none" => r.mark # "none" /\ Rank[n.row[f].mark] <= Rank[r.mark],
         Sound(n, s, H) => RowSound(r, f, s, H)
  PROVE  Keeps(n, [n EXCEPT !.row[f] = r], s, H)
  <1> DEFINE m == [n EXCEPT !.row[f] = r]
  <1>1. Later(n, m) BY LaterRow
  <1>2. ASSUME Sound(n, s, H) PROVE Sound(m, s, H)
    <2>1. \A g \in Frame : m.row[g] = IF g = f THEN r ELSE n.row[g]
      BY DEF Station
    <2>2. m.receipts = n.receipts /\ m.queue = n.queue /\ m.jobs = n.jobs
      BY DEF Station
    <2>3. RestSound(m, s, H) BY <1>2, <2>2 DEF Sound, RestSound
    <2>4. ASSUME NEW g \in Frame PROVE RowSound(m.row[g], g, s, H)
      <3>1. CASE g = f BY <1>2, <2>1, <3>1
      <3>2. CASE g # f BY <1>2, <2>1, <3>2 DEF Sound
      <3> QED BY <3>1, <3>2
    <2> QED BY <2>3, <2>4 DEF Sound
  <1> QED BY <1>1, <1>2 DEF Keeps

\* Anything but the rows replaced.
LEMMA KeepsRest ==
  ASSUME NEW n \in Station, NEW m \in Station, NEW s, NEW H, m.row = n.row,
         Sound(n, s, H) => RestSound(m, s, H)
  PROVE  Keeps(n, m, s, H)
  <1>1. Later(n, m) BY LaterRefl DEF Later, Has
  <1> QED BY <1>1 DEF Keeps, Sound

LEMMA KeepsInsert ==
  ASSUME NEW n \in Station, NEW s, NEW H, NEW f \in Frame, NEW r \in Row,
         RowSound(r, f, s, H)
  PROVE  Keeps(n, Insert(n, f, r), s, H)
  <1>1. CASE Has(n, f) BY <1>1, KeepsRefl DEF Insert
  <1>2. CASE ~Has(n, f)
    <2>1. n.row[f].mark = "none" BY <1>2 DEF Has
    <2>2. Keeps(n, [n EXCEPT !.row[f] = r], s, H) BY <2>1, KeepsRow
    <2> QED BY <1>2, <2>2 DEF Insert
  <1> QED BY <1>1, <1>2

\* A row's hold and hops; it never gains hops it may not have.
LEMMA KeepsSetHold ==
  ASSUME NEW n \in Station, NEW s \in Node, NEW H, NEW f \in Frame,
         NEW armed \in BOOLEAN, NEW h \in Hops,
         h <= n.row[f].hops \/ Within(f, h, s)
  PROVE  Keeps(n, SetHold(n, f, armed, h), s, H)
  <1> DEFINE r == [n.row[f] EXCEPT !.hold = armed, !.hops = h]
  <1>1. CASE Has(n, f)
    <2>1. /\ n.row[f] \in Row /\ n.row[f].mark \in Mark
          /\ n.row[f].hops \in Nat /\ h \in Nat
      BY <1>1, HopFacts DEF Station, Row, Has
    <2>2. r \in Row /\ r.mark = n.row[f].mark /\ r.hops = h BY <2>1 DEF Row
    <2>3. r.mark # "none" /\ Rank[n.row[f].mark] <= Rank[r.mark]
      BY <1>1, <2>1, <2>2, RankType, SMT DEF Has
    <2>4. ASSUME Sound(n, s, H) PROVE RowSound(r, f, s, H)
      <3>1. RowSound(n.row[f], f, s, H) BY <2>4 DEF Sound
      <3>2. Within(f, h, s)
        BY <1>1, <2>1, <3>1, DistType, HopFacts, SMT DEF RowSound, Within, Has
      <3> QED BY <1>1, <2>2, <3>1, <3>2 DEF RowSound, Has
    <2>5. Keeps(n, [n EXCEPT !.row[f] = r], s, H) BY <2>2, <2>3, <2>4, KeepsRow
    <2>6. SetHold(n, f, armed, h) = [n EXCEPT !.row[f] = r] BY <1>1 DEF SetHold
    <2> QED BY <2>5, <2>6
  <1>2. CASE ~Has(n, f) BY <1>2, KeepsRefl DEF SetHold
  <1> QED BY <1>1, <1>2

LEMMA HoldRow ==
  ASSUME NEW n \in Station, NEW f \in Frame
  PROVE  /\ n.row[f].hops \in Hops /\ n.row[f].hops <= n.row[f].hops
         /\ n.row[f].tries \in 0..(MaxRetries + 1)
         /\ Has(n, f) => n.row[f].mark \in Mark
  <1>1. n.row[f] \in Row BY DEF Station
  <1>2. n.row[f].hops \in Hops BY <1>1 DEF Row
  <1>3. n.row[f].hops <= n.row[f].hops BY <1>2, HopFacts
  <1> QED BY <1>1, <1>2, <1>3 DEF Row, Has

LEMMA KeepsRelease ==
  ASSUME NEW n \in Station, NEW s \in Node, NEW H, NEW f \in Frame
  PROVE  Keeps(n, Release(n, f), s, H)
  BY HoldRow, KeepsSetHold DEF Release

LEMMA KeepsZero ==
  ASSUME NEW n \in Station, NEW s \in Node, NEW H, NEW f \in Frame
  PROVE  Keeps(n, SetHold(n, f, FALSE, 0), s, H)
  <1>1. 0 <= n.row[f].hops BY HoldRow, HopFacts
  <1> QED BY <1>1, HopFacts, KeepsSetHold

\* A mark written forward, when what it says is so.
LEMMA KeepsMark ==
  ASSUME NEW n \in Station, NEW s, NEW H, NEW f \in Frame, NEW m \in Mark,
         Has(n, f), Rank[n.row[f].mark] <= Rank[m],
         Sound(n, s, H) /\ f = Line => Earned(m, H)
  PROVE  Keeps(n, [n EXCEPT !.row[f] = [@ EXCEPT !.mark = m]], s, H)
  <1> DEFINE r == [n.row[f] EXCEPT !.mark = m]
  <1>1. n.row[f] \in Row BY DEF Station
  <1>2. r \in Row /\ r.mark = m /\ r.hops = n.row[f].hops BY <1>1 DEF Row
  <1>3. r.mark # "none" BY <1>2 DEF Mark
  <1>4. Rank[n.row[f].mark] <= Rank[r.mark] BY <1>2
  <1>5. ASSUME Sound(n, s, H) PROVE RowSound(r, f, s, H)
    <2>1. RowSound(n.row[f], f, s, H) BY <1>5 DEF Sound
    <2> QED BY <1>2, <1>5, <2>1 DEF RowSound, Has
  <1>6. Keeps(n, [n EXCEPT !.row[f] = r], s, H)
    BY ONLY <1>2, <1>3, <1>4, <1>5, KeepsRow, n \in Station, f \in Frame
  <1>7. [n EXCEPT !.row[f] = [@ EXCEPT !.mark = m]] = [n EXCEPT !.row[f] = r]
    OBVIOUS
  <1> QED BY <1>6, <1>7

LEMMA KeepsAdvance ==
  ASSUME NEW n \in Station, NEW s, NEW H, NEW f \in Frame, NEW m \in Mark,
         Sound(n, s, H) /\ f = Line => Earned(m, H)
  PROVE  Keeps(n, Advance(n, f, m), s, H)
  <1>1. CASE Has(n, f) /\ Advances(n.row[f].mark, m)
    <2>1. n.row[f].mark \in Mark BY <1>1, HoldRow
    <2>2. Rank[n.row[f].mark] <= Rank[m]
      BY <1>1, <2>1, RankType, SMT DEF Advances, CanAdvance
    <2>3. Keeps(n, [n EXCEPT !.row[f] = [@ EXCEPT !.mark = m]], s, H)
      BY <1>1, <2>2, KeepsMark
    <2> QED BY <1>1, <2>3 DEF Advance
  <1>2. CASE ~(Has(n, f) /\ Advances(n.row[f].mark, m))
    BY <1>2, KeepsRefl DEF Advance
  <1> QED BY <1>1, <1>2

LEMMA KeepsAll ==
  ASSUME NEW n \in Station, NEW s, NEW H, NEW f \in Frame,
         Sound(n, s, H) /\ f = Line => Earned("all", H)
  PROVE  Keeps(n, SetDelivery(n, f, "all"), s, H)
  <1> "all" \in Mark BY DEF Mark
  <1>1. CASE Has(n, f) /\ SetAllowed(n.row[f].mark, "all")
    <2>1. n.row[f].mark \in Mark BY <1>1, HoldRow
    <2>2. Rank[n.row[f].mark] <= Rank["all"] BY <2>1, RankType, RankValues, SMT
    <2>3. Keeps(n, [n EXCEPT !.row[f] = [@ EXCEPT !.mark = "all"]], s, H)
      BY <1>1, <2>2, KeepsMark
    <2> QED BY <1>1, <2>3 DEF SetDelivery
  <1>2. CASE ~(Has(n, f) /\ SetAllowed(n.row[f].mark, "all"))
    BY <1>2, KeepsRefl DEF SetDelivery
  <1> QED BY <1>1, <1>2

\* A row with the mark and the hops it had.
LEMMA KeepsSame ==
  ASSUME NEW n \in Station, NEW s, NEW H, NEW f \in Frame, NEW r \in Row,
         Has(n, f), r.mark = n.row[f].mark, r.hops = n.row[f].hops
  PROVE  Keeps(n, [n EXCEPT !.row[f] = r], s, H)
  <1>1. n.row[f].mark \in Mark BY HoldRow
  <1>2. r.mark # "none" /\ Rank[n.row[f].mark] <= Rank[r.mark]
    BY <1>1, RankType, SMT DEF Has
  <1>3. ASSUME Sound(n, s, H) PROVE RowSound(r, f, s, H)
    <2>1. RowSound(n.row[f], f, s, H) BY <1>3 DEF Sound
    <2> QED BY <2>1 DEF RowSound
  <1> QED BY <1>2, <1>3, KeepsRow

LEMMA KeepsSuppress ==
  ASSUME NEW n \in Station, NEW s, NEW H, NEW f \in Frame
  PROVE  Keeps(n, Suppress(n, f), s, H)
  <1> DEFINE r == [n.row[f] EXCEPT !.supp = TRUE, !.hold = FALSE]
  <1>1. n.row[f] \in Row BY DEF Station
  <1>2. r \in Row /\ r.mark = n.row[f].mark /\ r.hops = n.row[f].hops
    BY <1>1 DEF Row
  <1>3. CASE Has(n, f)
    <2>1. Keeps(n, [n EXCEPT !.row[f] = r], s, H) BY <1>2, <1>3, KeepsSame
    <2> QED BY <1>3, <2>1 DEF Suppress
  <1>4. CASE ~Has(n, f) BY <1>4, KeepsRefl DEF Suppress
  <1> QED BY <1>3, <1>4

LEMMA KeepsBump ==
  ASSUME NEW n \in Station, NEW s, NEW H, NEW f \in Frame,
         Has(n, f), n.row[f].tries <= MaxRetries
  PROVE  Keeps(n, BumpRetry(n, f), s, H)
  <1> DEFINE r == [n.row[f] EXCEPT !.tries = @ + 1, !.hold = TRUE]
  <1>1. n.row[f] \in Row BY DEF Station
  <1>2. n.row[f].tries + 1 \in 0..(MaxRetries + 1)
    BY HoldRow, BoundsAssumption, SMT
  <1>3. r \in Row /\ r.mark = n.row[f].mark /\ r.hops = n.row[f].hops
    BY <1>1, <1>2 DEF Row
  <1>4. Keeps(n, [n EXCEPT !.row[f] = r], s, H) BY <1>3, KeepsSame
  <1> QED BY <1>4 DEF BumpRetry

LEMMA KeepsCancel ==
  ASSUME NEW n \in Station, NEW s, NEW H, NEW f
  PROVE  Keeps(n, Cancel(n, f), s, H)
  <1> DEFINE m == [n EXCEPT !.queue = {}]
  <1>1. m \in Station /\ m.row = n.row /\ m.receipts = n.receipts
        /\ m.queue = {} /\ m.jobs = n.jobs
    BY DEF Station
  <1>2. Sound(n, s, H) => RestSound(m, s, H) BY <1>1 DEF Sound, RestSound
  <1>3. Keeps(n, m, s, H) BY <1>1, <1>2, KeepsRest
  <1> QED BY <1>3, KeepsRefl DEF Cancel

LEMMA KeepsHand ==
  ASSUME NEW n \in Station, NEW s, NEW H, NEW f \in Frame, Has(n, f),
         n.row[f].hops = 0 => Own(s, f)
  PROVE  Keeps(n, Hand(n, f), s, H) /\ Hand(n, f).row = n.row
  <1> DEFINE q == [n EXCEPT !.queue = IF @ = {} THEN {n.row[f].hops} ELSE @]
  <1> DEFINE j == [n EXCEPT !.jobs = @ \cup {<<f, n.row[f].hops>>}]
  <1>0. n.row[f].hops \in Hops BY HoldRow
  <1>1. ASSUME Sound(n, s, H)
        PROVE  /\ Goes(f, n.row[f].hops, s)
               /\ f = Line => s \in H
               /\ f # Line => Receipted(f, H)
    BY <1>1 DEF Sound, RowSound, Has, Goes
  <1>2. CASE f = Line
    <2>1. q \in Station /\ q.row = n.row /\ q.receipts = n.receipts /\ q.jobs = n.jobs
          /\ q.queue = IF n.queue = {} THEN {n.row[f].hops} ELSE n.queue
      BY <1>0 DEF Station
    <2>2. Sound(n, s, H) => RestSound(q, s, H) BY <1>1, <1>2, <2>1 DEF Sound, RestSound
    <2>3. Keeps(n, q, s, H) BY <2>1, <2>2, KeepsRest
    <2> QED BY <1>2, <2>1, <2>3 DEF Hand
  <1>3. CASE f # Line
    <2>0. f \in Node BY <1>3, FrameFacts
    <2>1. j \in Station /\ j.row = n.row /\ j.receipts = n.receipts /\ j.queue = n.queue
          /\ j.jobs = n.jobs \cup {<<f, n.row[f].hops>>}
      BY <1>0, <2>0 DEF Station
    <2>2. Sound(n, s, H) => RestSound(j, s, H) BY <1>1, <1>3, <2>1 DEF Sound, RestSound
    <2>3. Keeps(n, j, s, H) BY <2>1, <2>2, KeepsRest
    <2> QED BY <1>3, <2>1, <2>3 DEF Hand
  <1> QED BY <1>2, <1>3

LEMMA KeepsType ==
  ASSUME NEW n, NEW m, NEW s, NEW H, Keeps(n, m, s, H)
  PROVE  m \in Station /\ \A f \in Frame : Has(n, f) => Has(m, f)
  BY DEF Keeps, Later

LEMMA KeepsThen ==
  ASSUME NEW n \in Station, NEW m, NEW q, NEW s, NEW H,
         Keeps(n, m, s, H), m \in Station => Keeps(m, q, s, H)
  PROVE  Keeps(n, q, s, H)
  BY KeepsType, KeepsTrans

\* What a station only remembers while it runs touches nothing above.
LEMMA KeepsMinor ==
  ASSUME NEW n \in Station, NEW m \in Station, NEW s, NEW H,
         m.row = n.row, m.receipts = n.receipts, m.queue = n.queue, m.jobs = n.jobs
  PROVE  Keeps(n, m, s, H)
  <1>1. Sound(n, s, H) => RestSound(m, s, H) BY DEF Sound, RestSound
  <1> QED BY <1>1, KeepsRest

LEMMA KeepsDispatch ==
  ASSUME NEW n \in Station, NEW s, NEW H, NEW f \in Frame, Has(n, f),
         n.row[f].hops = 0 => Own(s, f)
  PROVE  Keeps(n, Dispatch(n, s, f), s, H) /\ Dispatch(n, s, f).row = n.row
  <1> DEFINE k == Hand(n, f)
  <1> DEFINE d == [k EXCEPT !.copies[f] = @ + 1]
  <1>1. Keeps(n, k, s, H) /\ k.row = n.row BY KeepsHand
  <1>2. k \in Station BY <1>1, KeepsType
  <1> HIDE DEF k
  <1>3. d \in Station BY <1>2 DEF Station
  <1>4. d.row = k.row /\ d.receipts = k.receipts /\ d.queue = k.queue /\ d.jobs = k.jobs
    BY <1>2 DEF Station
  <1> HIDE DEF d
  <1>5. Keeps(k, d, s, H) BY <1>2, <1>3, <1>4, KeepsMinor
  <1>6. Keeps(n, d, s, H) BY <1>1, <1>5, KeepsThen
  <1>7. Dispatch(n, s, f) \in {k, d} BY DEF Dispatch, k, d
  <1> QED BY <1>1, <1>4, <1>6, <1>7

-----------------------------------------------------------------------------
(***************************************************************************)
(* The handlers, in the order on_envelope calls them.                      *)
(***************************************************************************)
LEMMA MarkTypes ==
  /\ "queued" \in Mark /\ "sent" \in Mark /\ "relayed" \in Mark
  /\ "delivered" \in Mark /\ "all" \in Mark /\ "failed" \in Mark
  BY DEF Mark

\* A receipt is proof enough of [ok].
LEMMA ReceiptEarns ==
  ASSUME NEW a \in Node, NEW H, Receipted(a, H)
  PROVE  Earned("delivered", H)
  BY DEF Receipted, Earned

LEMMA KeepsFinish ==
  ASSUME NEW n \in Station, NEW s \in Node, NEW H, NEW f \in Frame, f # Line
  PROVE  Keeps(n, FinishAckWalk(n, f), s, H)
  <1> DEFINE q == SetHold(n, f, FALSE, 0)
  <1>1. Keeps(n, q, s, H) BY KeepsZero
  <1> HIDE DEF q
  <1>2. q \in Station => Keeps(q, Advance(q, f, "delivered"), s, H)
    BY MarkTypes, KeepsAdvance
  <1>3. Keeps(n, Advance(q, f, "delivered"), s, H) BY <1>1, <1>2, KeepsThen
  <1> QED BY <1>3 DEF FinishAckWalk, q

LEMMA KeepsOwnFrame ==
  ASSUME NEW n \in Station, NEW s \in Node, NEW H, NEW f \in Frame, NEW h \in Hops,
         f = Line => \E r \in H : r # Origin
  PROVE  Keeps(n, OwnFrameHeard(n, f, h), s, H)
  <1> DEFINE further == HeardFurther(h, n.row[f].hops)
             c == [n EXCEPT !.carriedOn = TRUE]
             carried == IF f = Line /\ further THEN c ELSE n
             d == [n EXCEPT !.downstream = @ \cup {f}]
             w == Release(d, f)
             walked == IF further THEN Advance(w, f, "delivered") ELSE n
             held == IF BulletinKeepsWalking(LineKind) /\ further
                     THEN Release(carried, Line) ELSE carried
             marked == Advance(held, Line, "relayed")
             p == [marked EXCEPT !.painted = TRUE]
  <1>1. Keeps(n, carried, s, H)
    <2>1. c \in Station /\ c.row = n.row /\ c.receipts = n.receipts
          /\ c.queue = n.queue /\ c.jobs = n.jobs
      BY DEF Station
    <2>2. Keeps(n, c, s, H) BY <2>1, KeepsMinor
    <2> QED BY <2>2, KeepsRefl
  <1>2. f # Line => Keeps(n, walked, s, H)
    <2>1. d \in Station /\ d.row = n.row /\ d.receipts = n.receipts
          /\ d.queue = n.queue /\ d.jobs = n.jobs
      BY DEF Station
    <2>2. Keeps(n, d, s, H) BY <2>1, KeepsMinor
    <2> HIDE DEF d
    <2>3. d \in Station => Keeps(d, w, s, H) BY KeepsRelease
    <2>4. Keeps(n, w, s, H) BY <2>2, <2>3, KeepsThen
    <2> HIDE DEF w
    <2>5. w \in Station /\ f # Line => Keeps(w, Advance(w, f, "delivered"), s, H)
      BY MarkTypes, KeepsAdvance
    <2>6. f # Line => Keeps(n, Advance(w, f, "delivered"), s, H)
      BY <2>4, <2>5, KeepsThen
    <2> QED BY <2>6, KeepsRefl
  <1> HIDE DEF carried
  <1>3. carried \in Station => Keeps(carried, held, s, H)
    BY FrameFacts, KeepsRelease, KeepsRefl
  <1>4. Keeps(n, held, s, H) BY <1>1, <1>3, KeepsThen
  <1> HIDE DEF held
  <1>5. f = Line => Earned("relayed", H) BY DEF Earned
  <1>6. f = Line /\ held \in Station => Keeps(held, marked, s, H)
    BY <1>5, MarkTypes, FrameFacts, KeepsAdvance
  <1>7. f = Line => Keeps(n, marked, s, H) BY <1>4, <1>6, KeepsThen
  <1> HIDE DEF marked
  <1>8. marked \in Station => Keeps(marked, p, s, H)
    <2>1. marked \in Station => /\ p \in Station /\ p.row = marked.row
            /\ p.receipts = marked.receipts /\ p.queue = marked.queue /\ p.jobs = marked.jobs
      BY DEF Station
    <2> HIDE DEF p
    <2> QED BY <2>1, KeepsMinor
  <1>9. f = Line => Keeps(n, p, s, H) BY <1>7, <1>8, KeepsThen
  <1>10. marked \in Station => Keeps(marked, Cancel(marked, Line), s, H) BY KeepsCancel
  <1>11. f = Line => Keeps(n, Cancel(marked, Line), s, H) BY <1>7, <1>10, KeepsThen
  <1>12. OwnFrameHeard(n, f, h) \in
           (IF f # Line THEN {walked} ELSE {marked, p, Cancel(marked, Line)})
    BY DEF OwnFrameHeard, marked, held, carried
  <1> HIDE DEF walked, p
  <1> QED BY <1>2, <1>7, <1>9, <1>11, <1>12

LEMMA KeepsAccept ==
  ASSUME NEW n \in Station, NEW s \in Node, NEW H, NEW f \in Frame,
         NEW h \in Hops, h # 0, NEW l, Within(f, h - 1, s),
         f = Line => s \in H, f # Line => Receipted(f, H)
  PROVE  Keeps(n, Accept(n, s, f, h, l), s, H) /\ Has(Accept(n, s, f, h, l), f)
  <1> DEFINE stored == Insert(n, f, NewRow("queued", h - 1, FALSE))
             marked == IF f # Line /\ AckMarksDelivered(Own(s, Line), LineKind)
                       THEN Advance(stored, Line, "delivered") ELSE stored
             forUs == IF f # Line /\ ToUs(s, f) THEN Advance(marked, f, "relayed") ELSE marked
             up == FromUpstream(forUs, f, l)
             u == [forUs EXCEPT !.sides = @ \cup {f}]
             sided == IF up THEN u ELSE forUs
             armed == IF MayRelay(sided, s, f) /\ ~up
                      THEN SetHold(sided, f, TRUE, h - 1) ELSE sided
  <1>0. h - 1 \in Hops BY HopFacts
  <1>1. Keeps(n, stored, s, H) /\ Has(stored, f)
    <2> DEFINE r == NewRow("queued", h - 1, FALSE)
    <2>1. r \in Row /\ r.mark = "queued" /\ r.hops = h - 1
      BY <1>0, MarkTypes, NewRowType DEF NewRow
    <2> HIDE DEF r
    <2>2. Earned("queued", H) BY DEF Earned
    <2>3. RowSound(r, f, s, H) BY <2>1, <2>2 DEF RowSound
    <2>4. Keeps(n, Insert(n, f, r), s, H) BY <2>1, <2>3, KeepsInsert
    <2>5. [n EXCEPT !.row[f] = r].row[f] = r BY DEF Station
    <2>6. Has(Insert(n, f, r), f) BY <2>1, <2>5 DEF Insert, Has
    <2> QED BY <2>4, <2>6 DEF r
  <1> HIDE DEF stored
  <1>2. Keeps(n, marked, s, H)
    <2>1. f # Line => Earned("delivered", H) BY FrameFacts, ReceiptEarns
    <2>2. stored \in Station => Keeps(stored, marked, s, H)
      BY <2>1, MarkTypes, FrameFacts, KeepsAdvance, KeepsRefl
    <2> HIDE DEF marked
    <2> QED BY <1>1, <2>2, KeepsThen
  <1>3. stored \in Station => (Has(stored, f) => Has(marked, f))
    <2>1. f # Line => Earned("delivered", H) BY FrameFacts, ReceiptEarns
    <2>2. stored \in Station => Keeps(stored, marked, s, H)
      BY <2>1, MarkTypes, FrameFacts, KeepsAdvance, KeepsRefl
    <2> HIDE DEF marked
    <2> QED BY <2>2, KeepsType
  <1> HIDE DEF marked
  <1>4. marked \in Station => Keeps(marked, forUs, s, H)
    BY MarkTypes, KeepsAdvance, KeepsRefl
  <1> HIDE DEF forUs
  <1>5. forUs \in Station => Keeps(forUs, sided, s, H)
    <2>1. CASE forUs \in Station /\ up
      <3>1. f \in Node BY <2>1, FrameFacts DEF FromUpstream
      <3>2. u \in Station /\ u.row = forUs.row /\ u.receipts = forUs.receipts
            /\ u.queue = forUs.queue /\ u.jobs = forUs.jobs
        BY <2>1, <3>1 DEF Station
      <3> HIDE DEF u, up
      <3> QED BY <2>1, <3>2, KeepsMinor
    <2>2. CASE forUs \in Station /\ ~up BY <2>2, KeepsRefl
    <2> QED BY <2>1, <2>2
  <1> HIDE DEF sided, up
  <1>6. sided \in Station => Keeps(sided, armed, s, H)
    BY <1>0, KeepsSetHold, KeepsRefl
  <1>7. armed = Accept(n, s, f, h, l)
    BY DEF Accept, Spent, sided, up, forUs, marked, stored
  <1> HIDE DEF armed
  <1>8. Keeps(n, forUs, s, H) BY <1>2, <1>4, KeepsThen
  <1>9. Keeps(n, sided, s, H) BY <1>8, <1>5, KeepsThen
  <1>10. Keeps(n, armed, s, H) BY <1>9, <1>6, KeepsThen
  <1>11. Has(armed, f) BY <1>1, <1>2, <1>3, <1>4, <1>5, <1>6, <1>8, <1>9, KeepsType
  <1> QED BY <1>7, <1>10, <1>11

LEMMA KeepsAcknowledge ==
  ASSUME NEW n \in Station, NEW s \in Node, NEW H, NEW h \in Hops, Receipted(s, H)
  PROVE  Keeps(n, Acknowledge(n, s, h), s, H)
  <1> DEFINE r == NewRow("sent", Ttl, ~HeardFromOrigin(h, Ttl))
             i == Insert(n, s, r)
             a == [i EXCEPT !.heardAt = h, !.keyed = @ + 1, !.jobs = @ \cup {<<s, Ttl>>}]
  <1>0. s \in Frame /\ s # Line BY FrameFacts
  <1>1. Within(s, Ttl, s)
    <2>1. Dist[OriginOf(s)][s] = 0 BY <1>0, NetworkAssumption DEF OriginOf
    <2> QED BY <2>1, HopFacts, SMT DEF Within
  <1>2. Keeps(n, i, s, H)
    <2>1. (~HeardFromOrigin(h, Ttl)) \in BOOLEAN BY DEF HeardFromOrigin
    <2>2. r \in Row /\ r.hops = Ttl
      BY <2>1, HopFacts, MarkTypes, NewRowType DEF NewRow
    <2> HIDE DEF r
    <2>3. RowSound(r, s, s, H) BY <1>0, <1>1, <2>2 DEF RowSound
    <2> QED BY <1>0, <2>2, <2>3, KeepsInsert
  <1> HIDE DEF i
  <1>3. ASSUME i \in Station PROVE Keeps(i, a, s, H)
    <2>0. i.keyed + 1 \in Nat BY <1>3, SMT DEF Station
    <2>1. /\ a = [i EXCEPT !.heardAt = h, !.keyed = i.keyed + 1,
                           !.jobs = i.jobs \cup {<<s, Ttl>>}]
          /\ i.jobs \cup {<<s, Ttl>>} \in SUBSET (Node \X Hops)
      BY <1>3, HopFacts DEF Station
    <2>2. a \in Station BY <1>3, <2>0, <2>1 DEF Station
    <2>3. /\ a.row = i.row /\ a.receipts = i.receipts /\ a.queue = i.queue
          /\ a.jobs = i.jobs \cup {<<s, Ttl>>}
      BY <1>3 DEF Station
    <2> HIDE DEF a
    <2>4. Goes(s, Ttl, s) BY <1>0, <1>1 DEF Goes, Own, OriginOf
    <2>5. Sound(i, s, H) => RestSound(a, s, H) BY <2>3, <2>4 DEF Sound, RestSound
    <2> QED BY <1>3, <2>2, <2>3, <2>5, KeepsRest
  <1> HIDE DEF a
  <1>4. Keeps(n, a, s, H) BY <1>2, <1>3, KeepsThen
  <1> QED BY <1>4 DEF Acknowledge, a, i

\* Who answers may also claim a receipt.
LEMMA AnswersReceipted ==
  ASSUME NEW s \in Node, NEW H, NEW h, s # Origin, s \in H, Answers(s, h)
  PROVE  Receipted(s, H)
  BY NetworkAssumption DEF Answers, Receipted

LEMMA KeepsLineArrived ==
  ASSUME NEW n \in Station, NEW s \in Node, NEW H, NEW h \in Hops,
         s # Origin, s \in H, Origin \in H
  PROVE  Keeps(n, LineArrived(n, s, h), s, H)
  <1> DEFINE answered == IF Answers(s, h) THEN Acknowledge(n, s, h) ELSE n
             noted == [answered EXCEPT !.receipts = @ \cup {Origin}]
  <1>1. Keeps(n, answered, s, H) BY AnswersReceipted, KeepsAcknowledge, KeepsRefl
  <1> HIDE DEF answered
  <1>2. ASSUME answered \in Station PROVE Keeps(answered, noted, s, H)
    <2>1. noted \in Station /\ noted.row = answered.row /\ noted.queue = answered.queue
          /\ noted.jobs = answered.jobs /\ noted.receipts = answered.receipts \cup {Origin}
      BY <1>2, FrameFacts DEF Station
    <2> HIDE DEF noted
    <2>2. Sound(answered, s, H) => RestSound(noted, s, H) BY <2>1 DEF Sound, RestSound
    <2> QED BY <1>2, <2>1, <2>2, KeepsRest
  <1> HIDE DEF noted
  <1>3. Keeps(n, noted, s, H) BY <1>1, <1>2, KeepsThen
  <1>4. ASSUME noted \in Station, LineKind = "closed", AllReceived(noted)
        PROVE  Keeps(noted, SetDelivery(noted, Line, "all"), s, H)
    <2>0. \E r \in H : r # Origin OBVIOUS
    <2>1. Sound(noted, s, H) => Earned("all", H)
      BY <1>4, <2>0 DEF Sound, RestSound, AllReceived, Earned
    <2> QED BY <1>4, <2>1, FrameFacts, KeepsAll
  <1>5. LineKind = "closed" /\ AllReceived(noted)
        => Keeps(n, SetDelivery(noted, Line, "all"), s, H)
    BY <1>3, <1>4, KeepsThen
  <1>6. LineArrived(n, s, h) =
          IF LineKind # "closed" \/ s \notin Members THEN answered
          ELSE IF AllReceived(noted) THEN SetDelivery(noted, Line, "all") ELSE noted
    BY DEF LineArrived, noted, answered
  <1> QED BY <1>1, <1>3, <1>5, <1>6

LEMMA KeepsAckArrived ==
  ASSUME NEW n \in Station, NEW s \in Node, NEW H, NEW f \in Node, NEW c,
         Receipted(f, H)
  PROVE  Keeps(n, AckArrived(n, s, f, c), s, H)
  <1> DEFINE e == [n EXCEPT !.downstream = @ \cup {Line}]
             ended == IF Has(n, Line) /\ AckEndsRelay(LineKind, f = Dest) THEN e ELSE n
             marked == IF AckMarksDelivered(Own(s, Line), LineKind)
                       THEN Advance(ended, Line, "delivered") ELSE ended
             closed == LineKind = "closed" /\ Has(n, Line)
             b == [marked EXCEPT !.receipts = @ \cup {f, s}]
             noted == IF closed THEN b ELSE marked
             alled == IF closed /\ AllReceived(noted) THEN Advance(noted, Line, "all") ELSE noted
             drop == /\ closed /\ ~Own(s, Line)
                     /\ QueuedRepeatUnneeded(alled.row[Line].tries)
                     /\ ReachedNeighbours(alled, Line, c)
             pruned == IF drop THEN Cancel(Release(alled, Line), Line) ELSE alled
             kept == IF Own(s, Line) THEN 0 ELSE pruned.row[Line].hops
             let == SetHold(pruned, Line, FALSE, kept)
  <1>1. Keeps(n, ended, s, H)
    <2>1. e \in Station /\ e.row = n.row /\ e.receipts = n.receipts
          /\ e.queue = n.queue /\ e.jobs = n.jobs
      BY FrameFacts DEF Station
    <2>2. Keeps(n, e, s, H) BY <2>1, KeepsMinor
    <2> QED BY <2>2, KeepsRefl
  <1> HIDE DEF ended
  <1>2. ended \in Station => Keeps(ended, marked, s, H)
    BY ReceiptEarns, MarkTypes, FrameFacts, KeepsAdvance, KeepsRefl
  <1> HIDE DEF marked
  <1>3. Keeps(n, marked, s, H) BY <1>1, <1>2, KeepsThen
  <1>4. Keeps(n, noted, s, H)
    <2>1. CASE closed
      <3>1. marked \in Station /\ Has(marked, Line) BY <1>3, <2>1, FrameFacts, KeepsType
      <3>2. b \in Station /\ b.row = marked.row /\ b.queue = marked.queue
            /\ b.jobs = marked.jobs /\ b.receipts = marked.receipts \cup {f, s}
        BY <3>1 DEF Station
      <3> HIDE DEF b
      <3>3. ASSUME Sound(marked, s, H) PROVE RestSound(b, s, H)
        <4>1. s \in H BY <3>1, <3>3, FrameFacts DEF Sound, RowSound, Has
        <4>2. f \in H BY DEF Receipted
        <4> QED BY <3>2, <3>3, <4>1, <4>2 DEF Sound, RestSound
      <3>4. Keeps(marked, b, s, H) BY <3>1, <3>2, <3>3, KeepsRest
      <3> QED BY <1>3, <2>1, <3>4, KeepsThen
    <2>2. CASE ~closed BY <1>3, <2>2
    <2> QED BY <2>1, <2>2
  <1> HIDE DEF noted
  <1>5. noted \in Station => Keeps(noted, alled, s, H)
    <2>1. ASSUME noted \in Station, closed, AllReceived(noted)
          PROVE  Keeps(noted, Advance(noted, Line, "all"), s, H)
      <3>0. \E r \in H : r # Origin BY DEF Receipted
      <3>1. Sound(noted, s, H) => Earned("all", H)
        BY <2>1, <3>0 DEF Sound, RestSound, AllReceived, Earned
      <3> QED BY <2>1, <3>1, MarkTypes, FrameFacts, KeepsAdvance
    <2> HIDE DEF closed
    <2> QED BY <2>1, KeepsRefl
  <1>6. Keeps(n, alled, s, H) BY <1>4, <1>5, KeepsThen
  <1> HIDE DEF alled
  <1>7. alled \in Station => Keeps(alled, pruned, s, H)
    <2> DEFINE a == Release(alled, Line)
    <2>1. alled \in Station => Keeps(alled, a, s, H) BY FrameFacts, KeepsRelease
    <2> HIDE DEF a
    <2>2. a \in Station => Keeps(a, Cancel(a, Line), s, H) BY KeepsCancel
    <2>3. alled \in Station => Keeps(alled, Cancel(a, Line), s, H) BY <2>1, <2>2, KeepsThen
    <2> HIDE DEF drop
    <2> QED BY <2>3, KeepsRefl DEF a
  <1>8. Keeps(n, pruned, s, H) BY <1>6, <1>7, KeepsThen
  <1> HIDE DEF pruned
  <1>9. pruned \in Station => Keeps(pruned, let, s, H)
    <2>1. pruned \in Station => kept \in Hops /\ kept <= pruned.row[Line].hops
      BY HoldRow, FrameFacts, HopFacts
    <2> HIDE DEF kept
    <2> QED BY <2>1, FrameFacts, KeepsSetHold
  <1>10. Keeps(n, let, s, H) BY <1>8, <1>9, KeepsThen
  <1>11. let \in Station => Keeps(let, Cancel(let, Line), s, H) BY KeepsCancel
  <1>12. Keeps(n, Cancel(let, Line), s, H) BY <1>10, <1>11, KeepsThen
  <1>13. AckArrived(n, s, f, c) \in {pruned, Cancel(let, Line)}
    BY DEF AckArrived, pruned, alled, noted, marked, ended
  <1> QED BY <1>8, <1>12, <1>13

\* The receipts a station may send once more.
LEMMA KeepsResend ==
  ASSUME NEW n \in Station, NEW s \in Node, NEW H, NEW g
  PROVE  Keeps(n, ResendHeldAcks(n, s, g), s, H)
  <1> DEFINE resent == {a \in (Node \ {s}) \cap g.ready :
                         /\ Has(n, a) /\ n.row[a].hops > 0
                         /\ a \notin n.downstream /\ a \notin n.sides
                         /\ ~HoldUntil(n, a)
                         /\ MayRelay(n, s, a)
                         /\ ~CopiesSpent(n, a)}
             sent == {<<a, n.row[a].hops>> : a \in resent}
             count == [f \in Frame |-> IF f \in resent THEN n.copies[f] + 1 ELSE n.copies[f]]
             m == [n EXCEPT !.jobs = @ \cup sent, !.copies = count]
  <1>1. \A a \in resent : a \in Node /\ a \in Frame /\ a # Line /\ Has(n, a)
                           /\ n.row[a].hops \in Hops /\ n.row[a].hops > 0
    BY FrameFacts, HoldRow
  <1>2. m = ResendHeldAcks(n, s, g) BY DEF ResendHeldAcks
  <1> HIDE DEF resent
  <1>3. sent \subseteq Node \X Hops BY <1>1
  <1>4. count \in [Frame -> Nat]
    <2>1. n.copies \in [Frame -> Nat] BY DEF Station
    <2> QED BY <2>1, SMT
  <1>5. ASSUME Sound(n, s, H), NEW j \in sent
        PROVE  Goes(j[1], j[2], s) /\ Receipted(j[1], H)
    <2>1. PICK a \in resent : j = <<a, n.row[a].hops>> BY <1>5
    <2>2. a # Line /\ a \in Frame /\ Has(n, a) /\ n.row[a].hops # 0
      BY <1>1, HopFacts
    <2>3. Within(a, n.row[a].hops, s) /\ Receipted(a, H)
      BY <1>5, <2>2 DEF Sound, RowSound, Has
    <2> QED BY <2>1, <2>2, <2>3 DEF Goes
  <1> HIDE DEF sent, count
  <1>6. /\ m \in Station /\ m.row = n.row /\ m.receipts = n.receipts /\ m.queue = n.queue
        /\ m.jobs = n.jobs \cup sent
    BY <1>3, <1>4 DEF Station
  <1> HIDE DEF m
  <1>7. Sound(n, s, H) => RestSound(m, s, H) BY <1>5, <1>6 DEF Sound, RestSound
  <1> QED BY <1>2, <1>6, <1>7, KeepsRest

\* Nothing a receipt repeat does touches a row.
LEMMA ResendRow ==
  ASSUME NEW n \in Station, NEW s, NEW g
  PROVE  ResendHeldAcks(n, s, g).row = n.row
  BY DEF ResendHeldAcks, Station

LEMMA KeepsRelayHeard ==
  ASSUME NEW n \in Station, NEW s \in Node, NEW H, NEW f \in Frame, NEW h, NEW c, NEW g,
         Has(n, f)
  PROVE  Keeps(n, RelayHeardRetry(n, s, f, h, c, g), s, H)
  <1> DEFINE heard == [n EXCEPT !.downstream = @ \cup {f}]
             a == Release(heard, f)
             resent == IF f = Line THEN ResendHeldAcks(n, s, g) ELSE n
  <1>1. Keeps(n, heard, s, H)
    <2>1. heard \in Station /\ heard.row = n.row /\ heard.receipts = n.receipts
          /\ heard.queue = n.queue /\ heard.jobs = n.jobs
      BY DEF Station
    <2> HIDE DEF heard
    <2> QED BY <2>1, KeepsMinor
  <1>2. heard \in Station => Keeps(heard, a, s, H) BY KeepsRelease
  <1>3. Keeps(n, a, s, H) BY <1>1, <1>2, KeepsThen
  <1>4. a \in Station => Keeps(a, Cancel(a, f), s, H) BY KeepsCancel
  <1>5. Keeps(n, Cancel(a, f), s, H) BY <1>3, <1>4, KeepsThen
  <1>6. Keeps(n, resent, s, H) /\ resent.row = n.row BY KeepsResend, ResendRow, KeepsRefl
  <1>7. MayRelay(resent, s, f) => Keeps(n, Dispatch(resent, s, f), s, H)
    <2>0. resent \in Station /\ Has(resent, f) BY <1>6, KeepsType
    <2> HIDE DEF resent
    <2>1. MayRelay(resent, s, f) => resent.row[f].hops # 0
      BY <2>0, HoldRow, HopFacts DEF MayRelay, MayRebroadcast
    <2>2. MayRelay(resent, s, f) => Keeps(resent, Dispatch(resent, s, f), s, H)
      BY <2>0, <2>1, KeepsDispatch
    <2> QED BY <1>6, <2>2, KeepsThen
  <1>8. \/ RelayHeardRetry(n, s, f, h, c, g) \in {Cancel(a, f), heard, n, resent}
        \/ /\ RelayHeardRetry(n, s, f, h, c, g) = Dispatch(resent, s, f)
           /\ MayRelay(resent, s, f)
    BY DEF RelayHeardRetry
  <1> HIDE DEF resent, a, heard
  <1> QED BY <1>1, <1>5, <1>6, <1>7, <1>8, KeepsRefl

LEMMA KeepsAnswerAgain ==
  ASSUME NEW n \in Station, NEW s \in Node, NEW H, NEW h \in Hops, Receipted(s, H)
  PROVE  Keeps(n, AnswerAgain(n, s, h), s, H)
  <1> DEFINE js == n.jobs \cup {<<s, n.row[s].hops>>}
             m == [n EXCEPT !.downstream = @ \ {s}, !.keyed = n.keyed + 1, !.jobs = js]
  <1>0. s \in Frame /\ s # Line /\ n.row[s].hops \in Hops BY FrameFacts, HoldRow
  <1>1. CASE Has(n, s)
    <2>1. n.keyed + 1 \in Nat BY SMT DEF Station
    <2>2. js \in SUBSET (Node \X Hops) BY <1>0 DEF Station
    <2>3. ASSUME Sound(n, s, H) PROVE Goes(s, n.row[s].hops, s)
      BY <1>0, <1>1, <2>3 DEF Sound, RowSound, Has, Goes, Own, OriginOf
    <2>4. ASSUME Sound(n, s, H) PROVE \A j \in js : Goes(j[1], j[2], s) /\ Receipted(j[1], H)
      BY <2>3, <2>4 DEF Sound, RestSound
    <2> HIDE DEF js
    <2>5. m \in Station BY <2>1, <2>2 DEF Station
    <2>6. m.row = n.row /\ m.receipts = n.receipts /\ m.queue = n.queue /\ m.jobs = js
      BY DEF Station
    <2>7. AnswerAgain(n, s, h) = m BY <1>1 DEF AnswerAgain, js
    <2> HIDE DEF m
    <2>8. Sound(n, s, H) => RestSound(m, s, H) BY <2>4, <2>6 DEF Sound, RestSound
    <2> QED BY <2>5, <2>6, <2>7, <2>8, KeepsRest
  <1>2. CASE ~Has(n, s) BY <1>2, KeepsAcknowledge DEF AnswerAgain
  <1> QED BY <1>1, <1>2

LEMMA KeepsMaybeAnswer ==
  ASSUME NEW n \in Station, NEW s \in Node, NEW H, NEW f \in Frame, NEW h \in Hops,
         NEW c, NEW g, Has(n, f), ~Own(s, f), f = Line => s \in H
  PROVE  Keeps(n, MaybeAnswerRetry(n, s, f, h, c, g), s, H)
  <1> DEFINE member == s \in Members
             forUs == \/ LineKind = "direct" /\ s = Dest
                      \/ LineKind = "bulletin"
                      \/ LineKind = "closed" /\ member
             wanted == forUs /\ CopyWantsNewAck(h, n.row[f].hops) /\ ~OwnReceiptWalking(n, s)
             more == [n EXCEPT !.asked = n.asked + 1]
             counted == IF wanted THEN more ELSE n
             go == wanted /\ g.answers /\ OwnReceiptAllowed(counted.keyed, counted.asked)
             answered == IF go THEN AnswerAgain(counted, s, h) ELSE counted
  <1>1. Keeps(n, counted, s, H)
    <2>1. n.asked + 1 \in Nat BY SMT DEF Station
    <2>2. more \in Station /\ more.row = n.row /\ more.receipts = n.receipts
          /\ more.queue = n.queue /\ more.jobs = n.jobs
      BY <2>1 DEF Station
    <2> HIDE DEF more
    <2>3. Keeps(n, more, s, H) BY <2>2, KeepsMinor
    <2> QED BY <2>3, KeepsRefl
  <1>2. f = Line /\ go => Receipted(s, H)
    BY NetworkAssumption DEF Receipted, Own, OriginOf
  <1>3. MaybeAnswerRetry(n, s, f, h, c, g) =
          IF f # Line \/ ~AcksLine(LineKind, h, Ttl) THEN RelayHeardRetry(n, s, f, h, c, g)
          ELSE IF LineKind = "closed" /\ ~member THEN answered
          ELSE RelayHeardRetry(answered, s, f, h, c, g)
    BY DEF MaybeAnswerRetry
  <1> HIDE DEF counted, go
  <1>4. f = Line /\ counted \in Station => Keeps(counted, answered, s, H)
    BY <1>2, KeepsAnswerAgain, KeepsRefl
  <1> HIDE DEF answered
  <1>5. f = Line => Keeps(n, answered, s, H) BY <1>1, <1>4, KeepsThen
  <1>6. f = Line => answered \in Station /\ Has(answered, f) BY <1>5, KeepsType
  <1>7. f = Line => Keeps(answered, RelayHeardRetry(answered, s, f, h, c, g), s, H)
    BY <1>6, KeepsRelayHeard
  <1>8. f = Line => Keeps(n, RelayHeardRetry(answered, s, f, h, c, g), s, H)
    BY <1>5, <1>7, KeepsThen
  <1> QED BY <1>3, <1>5, <1>8, KeepsRelayHeard

\* The whole receive handler, once the new holders of the line are known.
LEMMA KeepsOnEnvelope ==
  ASSUME NEW n \in Station, NEW s \in Node, NEW H, NEW f \in Frame, NEW h \in Hops,
         NEW l, NEW c, NEW g,
         h + Dist[OriginOf(f)][s] <= Ttl + 1, Dist[OriginOf(f)][s] <= Ttl,
         Origin \in H,
         f = Line => s \in H,
         f = Line /\ s = Origin => Has(n, f) /\ \E r \in H : r # Origin,
         f # Line => Receipted(f, H)
  PROVE  /\ Keeps(n, OnEnvelope(n, s, f, h, l, c, g), s, H)
         /\ f = Line => Has(OnEnvelope(n, s, f, h, l, c, g), f)
  <1> DEFINE action == Decide(Has(n, f), h, n.row[f].mark \in {"queued", "sent"})
             acc == Accept(n, s, f, h, l)
             drop == Insert(n, f, NewRow("queued", 0, FALSE))
             sup == Suppress(n, f)
             rel == Advance(sup, f, "relayed")
             dup == IF DuplicateSuppresses(KindOf(f), h, n.row[f].hops) THEN Cancel(rel, f) ELSE n
             result == OnEnvelope(n, s, f, h, l, c, g)
  <1>1. CASE Own(s, f)
    <2>1. result = OwnFrameHeard(n, f, h) BY <1>1 DEF OnEnvelope
    <2>2. f = Line => s = Origin BY <1>1 DEF Own, OriginOf
    <2>3. Keeps(n, result, s, H) BY <2>1, <2>2, KeepsOwnFrame
    <2>4. f = Line => Has(result, f) BY <2>2, <2>3, KeepsType
    <2> QED BY <2>3, <2>4
  <1>2. CASE ~Own(s, f) /\ Has(n, f)
    <2>1. action \in {"suppress", "ignore"} BY <1>2 DEF Decide
    <2>2. Keeps(n, dup, s, H)
      <3>1. Keeps(n, sup, s, H) BY KeepsSuppress
      <3> HIDE DEF sup
      <3>2. ASSUME sup \in Station PROVE Keeps(sup, rel, s, H)
        <4>1. f = Line => s # Origin BY <1>2 DEF Own, OriginOf
        <4>2. f = Line => Earned("relayed", H) BY <4>1 DEF Earned
        <4> QED BY <3>2, <4>2, MarkTypes, KeepsAdvance
      <3>3. Keeps(n, rel, s, H) BY <3>1, <3>2, KeepsThen
      <3> HIDE DEF rel
      <3>4. rel \in Station => Keeps(rel, Cancel(rel, f), s, H) BY KeepsCancel
      <3>5. Keeps(n, Cancel(rel, f), s, H) BY <3>3, <3>4, KeepsThen
      <3> QED BY <3>5, KeepsRefl
    <2>3. \E t \in {dup, n} : result = MaybeAnswerRetry(t, s, f, h, c, g)
      BY <1>2, <2>1 DEF OnEnvelope, Decide
    <2> HIDE DEF dup
    <2>4. PICK t \in {dup, n} : result = MaybeAnswerRetry(t, s, f, h, c, g) BY <2>3
    <2>5. Keeps(n, t, s, H) BY <2>2, KeepsRefl
    <2>6. t \in Station /\ Has(t, f) BY <1>2, <2>5, KeepsType
    <2>7. Keeps(t, result, s, H) BY <1>2, <2>4, <2>6, KeepsMaybeAnswer
    <2>8. Keeps(n, result, s, H) BY <2>5, <2>7, KeepsThen
    <2>9. Has(result, f) BY <1>2, <2>8, KeepsType
    <2> QED BY <2>8, <2>9
  <1>3. CASE ~Own(s, f) /\ ~Has(n, f)
    <2> DEFINE taken == IF h = 0 THEN drop ELSE acc
    <2>1. Keeps(n, taken, s, H) /\ Has(taken, f)
      <3>1. CASE h = 0
        <4> DEFINE r == NewRow("queued", 0, FALSE)
        <4>1. r \in Row /\ r.mark = "queued" /\ r.hops = 0
          BY HopFacts, MarkTypes, NewRowType DEF NewRow
        <4> HIDE DEF r
        <4>2. Within(f, 0, s) BY DistType, SMT DEF Within
        <4>3. RowSound(r, f, s, H) BY <4>1, <4>2 DEF RowSound, Earned
        <4>4. Keeps(n, Insert(n, f, r), s, H) BY <4>1, <4>3, KeepsInsert
        <4>5. [n EXCEPT !.row[f] = r].row[f] = r BY DEF Station
        <4>6. Has(Insert(n, f, r), f) BY <1>3, <4>1, <4>5 DEF Insert, Has
        <4> QED BY <3>1, <4>4, <4>6 DEF r
      <3>2. CASE h # 0
        <4>1. Within(f, h - 1, s) BY <3>2, DistType, HopFacts, SMT DEF Within
        <4> QED BY <3>2, <4>1, KeepsAccept
      <3> QED BY <3>1, <3>2
    <2>2. result = IF f = Line THEN LineArrived(taken, s, h) ELSE AckArrived(taken, s, f, c)
      BY <1>3 DEF OnEnvelope, Decide
    <2> HIDE DEF taken, result
    <2>3. taken \in Station BY <2>1, KeepsType
    <2>4. f = Line => s # Origin BY <1>3 DEF Own, OriginOf
    <2>5. Keeps(taken, result, s, H)
      BY <2>2, <2>3, <2>4, FrameFacts, KeepsLineArrived, KeepsAckArrived
    <2>6. Keeps(n, result, s, H) BY <2>1, <2>5, KeepsThen
    <2>7. Has(result, f) BY <2>1, <2>5, KeepsType
    <2> QED BY <2>6, <2>7 DEF result
  <1> QED BY <1>1, <1>2, <1>3

-----------------------------------------------------------------------------
(***************************************************************************)
(* The timers, the age limit, the flush and the restart.                   *)
(***************************************************************************)
LEMMA AdvanceTries ==
  ASSUME NEW n \in Station, NEW f \in Frame, NEW m
  PROVE  Advance(n, f, m).row[f].tries = n.row[f].tries
  <1>1. n.row[f] \in Row BY DEF Station
  <1> DEFINE r == [n.row[f] EXCEPT !.mark = m]
  <1>2. r.tries = n.row[f].tries BY <1>1 DEF Row
  <1>3. [n EXCEPT !.row[f] = r].row[f] = r BY DEF Station
  <1>4. Advance(n, f, m) \in {[n EXCEPT !.row[f] = r], n} BY DEF Advance
  <1> HIDE DEF r
  <1> QED BY <1>2, <1>3, <1>4

LEMMA AckKind == \A f \in Frame : WalksUntilRelayed(KindOf(f)) <=> f # Line
  BY NetworkAssumption DEF WalksUntilRelayed, KindOf

LEMMA KeepsPumped ==
  ASSUME NEW n \in Station, NEW s \in Node, NEW H, NEW f \in Frame, NEW c,
         Has(n, f), ~Own(s, f), f = Line => s \in H
  PROVE  Keeps(n, Pumped(n, s, f, c), s, H)
  <1> DEFINE zero == SetHold(n, f, FALSE, 0)
             sent == Dispatch(n, s, f)
             up == Advance(sent, f, "relayed")
             max == n.row[f].tries < MaxRetries
  <1>1. Keeps(n, Cancel(zero, f), s, H)
    <2>1. Keeps(n, zero, s, H) BY KeepsZero
    <2> HIDE DEF zero
    <2>2. zero \in Station => Keeps(zero, Cancel(zero, f), s, H) BY KeepsCancel
    <2> QED BY <2>1, <2>2, KeepsThen
  <1>2. CASE ~MayRelay(n, s, f)
    <2>1. Pumped(n, s, f, c) = Cancel(zero, f) BY <1>2 DEF Pumped
    <2> QED BY <1>1, <2>1
  <1>3. CASE MayRelay(n, s, f)
    <2>1. n.row[f].hops # 0 BY <1>3, HoldRow, HopFacts DEF MayRelay, MayRebroadcast
    <2>2. Keeps(n, sent, s, H) /\ sent.row = n.row BY <2>1, KeepsDispatch
    <2>3. sent \in Station BY <2>2, KeepsType
    <2>4. \/ Pumped(n, s, f, c) \in {Release(n, f), Release(sent, f)}
          \/ /\ Pumped(n, s, f, c) = BumpRetry(up, f)
             /\ max
      <3>1. n.row[f].tries \in Nat /\ MaxRetries \in Nat
        BY HoldRow, BoundsAssumption, SMT
      <3>2. \A a \in Nat, b \in Nat, h \in BOOLEAN :
              AckWalkContinues(h, a, LesserOf(b, 1)) => a < b
        BY SMT DEF AckWalkContinues, LesserOf
      <3> DEFINE heard == f \in n.downstream \/ (f = Line /\ ReachedNeighbours(n, f, c))
                 r == n.row[f]
                 walks == \/ KeepRelaying(KindOf(f), r.hops, r.tries, MaxRetries, heard)
                          \/ GroupWalkContinues(KindOf(f), r.hops, r.tries, MaxRetries, heard)
                          \/ AckRelayWalks(KindOf(f), r.hops, NextToOrigin(n, f), r.tries, MaxRetries, heard)
      <3>3. walks => max
        <4> HIDE DEF heard
        <4>1. \A h : AckWalkContinues(h, r.tries, MaxRetries) => max
          BY DEF AckWalkContinues
        <4>2. \A h : AckWalkContinues(h, r.tries, LesserOf(MaxRetries, 1)) => max
          BY <3>1, SMT DEF AckWalkContinues, LesserOf
        <4> HIDE DEF max
        <4> QED BY <4>1, <4>2 DEF KeepRelaying, GroupWalkContinues, AckRelayWalks,
                                  NEXT_TO_ORIGIN_ACK_REPEATS
      <3>4. Pumped(n, s, f, c) =
              IF IsEcho(n, s, f, c) \/ (r.tries > 0 /\ (heard \/ CopiesSpent(n, f)))
              THEN Release(n, f)
              ELSE IF walks THEN BumpRetry(up, f) ELSE Release(sent, f)
        BY <1>3 DEF Pumped
      <3> HIDE DEF walks, heard, sent, max
      <3> QED BY <3>3, <3>4
    <2>5. max => Keeps(n, BumpRetry(up, f), s, H)
      <3>1. f = Line => s # Origin BY DEF Own, OriginOf
      <3>2. f = Line => Earned("relayed", H) BY <3>1 DEF Earned
      <3> HIDE DEF sent
      <3>3. Keeps(sent, up, s, H) BY <2>3, <3>2, MarkTypes, KeepsAdvance
      <3>4. up \in Station /\ Has(up, f) BY <2>2, <2>3, <3>3, KeepsType DEF Has
      <3>5. up.row[f].tries = n.row[f].tries BY <2>2, <2>3, AdvanceTries
      <3> HIDE DEF up
      <3>6. max => up.row[f].tries <= MaxRetries
        BY <3>5, HoldRow, BoundsAssumption, SMT
      <3> HIDE DEF max
      <3>7. max => Keeps(up, BumpRetry(up, f), s, H) BY <3>4, <3>6, KeepsBump
      <3>8. max => Keeps(sent, BumpRetry(up, f), s, H) BY <2>3, <3>3, <3>7, KeepsThen
      <3> QED BY <2>2, <3>8, KeepsThen
    <2>6. Keeps(n, Release(n, f), s, H) BY KeepsRelease
    <2>7. Keeps(n, Release(sent, f), s, H) BY <2>2, <2>3, KeepsRelease, KeepsThen
    <2> QED BY <2>4, <2>5, <2>6, <2>7
  <1> QED BY <1>2, <1>3

LEMMA KeepsRetry ==
  ASSUME NEW n \in Station, NEW s \in Node, NEW H, NEW f \in Frame,
         Has(n, f), Own(s, f), n.row[f].tries < MaxRetries
  PROVE  Keeps(n, RetryStep(n, s, f), s, H)
  <1> DEFINE sent == Dispatch(n, s, f)
  <1>1. Keeps(n, sent, s, H) /\ sent.row = n.row BY KeepsDispatch
  <1>2. sent \in Station /\ Has(sent, f) BY <1>1, KeepsType
  <1>3. sent.row[f].tries <= MaxRetries
    BY <1>1, HoldRow, BoundsAssumption, SMT
  <1>4. \/ RetryStep(n, s, f) = FinishAckWalk(n, f) /\ WalksUntilRelayed(KindOf(f))
        \/ RetryStep(n, s, f) \in {SetHold(n, f, FALSE, 0), SetHold(sent, f, FALSE, 0),
                                   BumpRetry(sent, f)}
    BY DEF RetryStep
  <1> HIDE DEF sent
  <1>5. WalksUntilRelayed(KindOf(f)) => Keeps(n, FinishAckWalk(n, f), s, H)
    BY AckKind, KeepsFinish
  <1>6. Keeps(n, SetHold(n, f, FALSE, 0), s, H) BY KeepsZero
  <1>7. Keeps(sent, SetHold(sent, f, FALSE, 0), s, H) BY <1>2, KeepsZero
  <1>8. Keeps(sent, BumpRetry(sent, f), s, H) BY <1>2, <1>3, KeepsBump
  <1> QED BY <1>1, <1>4, <1>5, <1>6, <1>7, <1>8, KeepsThen

LEMMA KeepsAckWait ==
  ASSUME NEW n \in Station, NEW s \in Node, NEW H, NEW f \in Frame, Has(n, f)
  PROVE  Keeps(n, AckWaitStep(n, f), s, H)
  <1> DEFINE closed == SetHold(n, f, FALSE, 0)
  <1>1. Keeps(n, closed, s, H) BY KeepsZero
  <1>2. \/ AckWaitStep(n, f) = FinishAckWalk(n, f) /\ WalksUntilRelayed(KindOf(f))
        \/ AckWaitStep(n, f) = BumpRetry(n, f) /\ n.row[f].tries = MaxRetries
        \/ AckWaitStep(n, f) \in {closed, Advance(closed, f, "failed")}
    BY DEF AckWaitStep, AckWaitRunsOn
  <1> HIDE DEF closed
  <1>3. WalksUntilRelayed(KindOf(f)) => Keeps(n, FinishAckWalk(n, f), s, H)
    BY AckKind, KeepsFinish
  <1>4. n.row[f].tries = MaxRetries => Keeps(n, BumpRetry(n, f), s, H)
    <2>1. MaxRetries <= MaxRetries BY BoundsAssumption
    <2> QED BY <2>1, KeepsBump
  <1>5. closed \in Station => Keeps(closed, Advance(closed, f, "failed"), s, H)
    <2>1. Earned("failed", H) BY DEF Earned
    <2> QED BY <2>1, MarkTypes, KeepsAdvance
  <1> QED BY <1>1, <1>2, <1>3, <1>4, <1>5, KeepsThen

\* All rows replaced at once, each by one no further back and as sound.
LEMMA KeepsRows ==
  ASSUME NEW n \in Station, NEW s, NEW H, NEW R \in [Frame -> Row],
         \A f \in Frame : /\ n.row[f].mark # "none" =>
                               R[f].mark # "none" /\ Rank[n.row[f].mark] <= Rank[R[f].mark]
                          /\ Sound(n, s, H) => RowSound(R[f], f, s, H)
  PROVE  Keeps(n, [n EXCEPT !.row = R], s, H)
  <1> DEFINE m == [n EXCEPT !.row = R]
  <1>1. /\ m \in Station /\ m.row = R /\ m.receipts = n.receipts
        /\ m.queue = n.queue /\ m.jobs = n.jobs
    BY DEF Station
  <1> HIDE DEF m
  <1>2. Later(n, m) BY <1>1 DEF Later, Has
  <1>3. Sound(n, s, H) => RestSound(m, s, H) BY <1>1 DEF Sound, RestSound
  <1>4. Sound(n, s, H) => Sound(m, s, H) BY <1>1, <1>3 DEF Sound
  <1> QED BY <1>2, <1>4 DEF Keeps, m

LEMMA KeepsFailing ==
  ASSUME NEW n \in Station, NEW s, NEW H, NEW F
  PROVE  Keeps(n, Failing(n, s, F), s, H)
  <1> DEFINE lost(f) == [n.row[f] EXCEPT !.mark = "failed", !.hold = FALSE]
             fails(f) == f \in F /\ Own(s, f) /\ n.row[f].mark \in Failable
             R == [f \in Frame |-> IF fails(f) THEN lost(f) ELSE n.row[f]]
  <1>1. ASSUME NEW f \in Frame
        PROVE  /\ R[f] \in Row
               /\ n.row[f].mark # "none" =>
                    R[f].mark # "none" /\ Rank[n.row[f].mark] <= Rank[R[f].mark]
               /\ Sound(n, s, H) => RowSound(R[f], f, s, H)
    <2>0. n.row[f] \in Row BY DEF Station
    <2>1. CASE fails(f)
      <3>1. lost(f) \in Row /\ lost(f).mark = "failed" /\ lost(f).hops = n.row[f].hops
        BY <2>0, MarkTypes DEF Row
      <3>2. n.row[f].mark \in {"queued", "sent", "relayed"} BY <2>1 DEF Failable
      <3>3. Rank[n.row[f].mark] <= Rank["failed"] BY <3>2, RankValues, SMT
      <3>4. Sound(n, s, H) => RowSound(lost(f), f, s, H)
        BY <3>1, <3>2 DEF Sound, RowSound, Earned
      <3>5. R[f] = lost(f) BY <2>1
      <3> HIDE DEF R, lost
      <3> QED BY <3>1, <3>3, <3>4, <3>5
    <2>2. CASE ~fails(f)
      <3>1. R[f] = n.row[f] BY <2>2
      <3> HIDE DEF R
      <3>2. Sound(n, s, H) => RowSound(n.row[f], f, s, H) BY DEF Sound
      <3>3. n.row[f].mark # "none" => Rank[n.row[f].mark] <= Rank[n.row[f].mark]
        BY HoldRow, RankType, SMT DEF Has
      <3> QED BY <2>0, <3>1, <3>2, <3>3
    <2> QED BY <2>1, <2>2
  <1>2. R \in [Frame -> Row] BY <1>1
  <1>3. Failing(n, s, F) = [n EXCEPT !.row = R] BY DEF Failing
  <1> HIDE DEF R
  <1> QED BY <1>1, <1>2, <1>3, KeepsRows

LEMMA KeepsQuiet ==
  ASSUME NEW n \in Station, NEW s, NEW H
  PROVE  Keeps(n, [n EXCEPT !.row = [f \in Frame |->
                      IF Own(s, f) THEN n.row[f] ELSE [n.row[f] EXCEPT !.hold = FALSE]]], s, H)
  <1> DEFINE still(f) == [n.row[f] EXCEPT !.hold = FALSE]
             R == [f \in Frame |-> IF Own(s, f) THEN n.row[f] ELSE still(f)]
  <1>1. ASSUME NEW f \in Frame
        PROVE  /\ R[f] \in Row
               /\ n.row[f].mark # "none" =>
                    R[f].mark # "none" /\ Rank[n.row[f].mark] <= Rank[R[f].mark]
               /\ Sound(n, s, H) => RowSound(R[f], f, s, H)
    <2>0. n.row[f] \in Row BY DEF Station
    <2>1. still(f) \in Row /\ still(f).mark = n.row[f].mark /\ still(f).hops = n.row[f].hops
      BY <2>0 DEF Row
    <2>2. R[f] \in {n.row[f], still(f)} OBVIOUS
    <2> HIDE DEF R, still
    <2>3. Sound(n, s, H) => RowSound(n.row[f], f, s, H) BY DEF Sound
    <2>4. Sound(n, s, H) => RowSound(still(f), f, s, H) BY <2>1, <2>3 DEF RowSound
    <2>5. n.row[f].mark # "none" => Rank[n.row[f].mark] <= Rank[n.row[f].mark]
      BY HoldRow, RankType, SMT DEF Has
    <2> QED BY <2>0, <2>1, <2>2, <2>3, <2>4, <2>5
  <1>2. R \in [Frame -> Row] BY <1>1
  <1>3. Keeps(n, [n EXCEPT !.row = R], s, H)
    <2> HIDE DEF R
    <2> QED BY <1>1, <1>2, KeepsRows
  <1> QED BY <1>3

LEMMA KeepsStopped ==
  ASSUME NEW n \in Station, NEW s, NEW H
  PROVE  Keeps(n, Stopped(n.row, n.receipts, n.heardAt), s, H)
  <1> DEFINE m == Stopped(n.row, n.receipts, n.heardAt)
  <1>1. /\ m \in Station /\ m.row = n.row /\ m.receipts = n.receipts
        /\ m.queue = {} /\ m.jobs = {}
    BY DEF Station, Stopped
  <1> HIDE DEF m
  <1>2. Sound(n, s, H) => RestSound(m, s, H) BY <1>1 DEF Sound, RestSound
  <1>3. Keeps(n, m, s, H) BY <1>1, <1>2, KeepsRest
  <1> QED BY <1>3 DEF m

-----------------------------------------------------------------------------
(***************************************************************************)
(* The inductive invariant.                                                *)
(***************************************************************************)
Holders == {s \in Node : HasLine(s)}

\* What is true of a frame decoded at s: it has the hops left it may have,
\* a copy of the line was keyed by a station that has it, and a receipt by
\* or for one that had to send it.
Heard(s, m, H) ==
  /\ m[2] + Dist[OriginOf(m[1])][s] <= Ttl + 1
  /\ Dist[OriginOf(m[1])][s] <= Ttl
  /\ m[1] = Line => \E r \in H : s \in Nbr[r]
  /\ m[1] # Line => Receipted(m[1], H)

IInv ==
  /\ TypeOK
  /\ Holders # {} => Origin \in Holders
  /\ LineMark(Origin) # "queued"
  /\ \A s \in Node : Sound(node[s], s, Holders)
  /\ \A s \in Node : \A m \in inbox[s] : Heard(s, m, Holders)

\* No row of any station moves back in a step.
Forward == \A s \in Node : Later(node[s], node'[s])

LEMMA SoundMonotone ==
  ASSUME NEW n, NEW s, NEW H, NEW G, H \subseteq G, Sound(n, s, H)
  PROVE  Sound(n, s, G)
  <1>1. ASSUME NEW m, Earned(m, H) PROVE Earned(m, G) BY <1>1 DEF Earned
  <1>2. ASSUME NEW a, Receipted(a, H) PROVE Receipted(a, G) BY <1>2 DEF Receipted
  <1>3. \A f \in Frame : RowSound(n.row[f], f, s, G) BY <1>1, <1>2 DEF Sound, RowSound
  <1>4. RestSound(n, s, G) BY <1>2 DEF Sound, RestSound
  <1> QED BY <1>3, <1>4 DEF Sound

LEMMA HeardMonotone ==
  ASSUME NEW s, NEW m, NEW H, NEW G, H \subseteq G, Heard(s, m, H)
  PROVE  Heard(s, m, G)
  BY DEF Heard, Receipted

\* One station becomes n, and H are the holders from then on.
LEMMA StationStep ==
  ASSUME IInv, NEW s \in Node, NEW n, NEW H, Becomes(s, n),
         Keeps(node[s], n, s, H),
         \/ H = Holders
         \/ /\ H = Holders \cup {s} /\ Has(n, Line) /\ Origin \in H
            /\ s = Origin => n.row[Line].mark # "queued"
  PROVE  /\ node' \in [Node -> Station]
         /\ Holders' = H
         /\ Holders' # {} => Origin \in Holders'
         /\ LineMark(Origin)' # "queued"
         /\ \A r \in Node : Sound(node'[r], r, H)
         /\ Forward
  <1>0. node \in [Node -> Station] BY DEF IInv, TypeOK
  <1>1. Later(node[s], n) /\ n \in Station BY DEF Keeps, Later
  <1>2. node' \in [Node -> Station] /\ node'[s] = n
        /\ \A r \in Node : r # s => node'[r] = node[r]
    BY <1>0, <1>1 DEF Becomes
  <1>3. Holders \subseteq H /\ H \subseteq Holders \cup {s} OBVIOUS
  <1>4. Sound(n, s, H)
    <2>1. Sound(node[s], s, Holders) BY DEF IInv
    <2>2. Sound(node[s], s, H) BY <1>3, <2>1, SoundMonotone
    <2> QED BY <2>2 DEF Keeps
  <1>5. \A r \in Node : Sound(node'[r], r, H)
    <2>1. ASSUME NEW r \in Node, r # s PROVE Sound(node'[r], r, H)
      <3>1. Sound(node[r], r, Holders) BY DEF IInv
      <3>2. Sound(node[r], r, H) BY <1>3, <3>1, SoundMonotone
      <3> QED BY <1>2, <2>1, <3>2
    <2> QED BY <1>2, <1>4, <2>1
  <1>6. Holders' = H
    <2>1. Holders' = {r \in Node : Has(node'[r], Line)} BY DEF Holders, HasLine, Has
    <2>2. Has(n, Line) => s \in H BY <1>4, FrameFacts DEF Sound, RowSound, Has
    <2>3. s \in Holders => Has(n, Line)
      BY <1>1, FrameFacts DEF Holders, HasLine, Later
    <2>4. s \in H => Has(n, Line) BY <2>3
    <2>5. \A r \in Node : r # s => (Has(node'[r], Line) <=> r \in H)
      BY <1>2, <1>3 DEF Holders, HasLine
    <2>6. H \subseteq Node BY <1>3 DEF Holders
    <2> QED BY <1>2, <2>1, <2>2, <2>4, <2>5, <2>6
  <1>7. Holders' # {} => Origin \in Holders' BY <1>6 DEF IInv
  <1>8. Forward
    <2>1. ASSUME NEW r \in Node PROVE Later(node[r], node'[r])
      <3>1. CASE r = s BY <1>1, <1>2, <3>1
      <3>2. CASE r # s
        <4>1. node'[r] = node[r] /\ node[r] \in Station BY <1>0, <1>2, <3>2
        <4> QED BY <4>1, LaterRefl
      <3> QED BY <3>1, <3>2
    <2> QED BY <2>1 DEF Forward
  <1>9. LineMark(Origin)' # "queued"
    <2>0. LineMark(Origin)' = node'[Origin].row[Line].mark BY DEF LineMark
    <2>1. CASE Has(node[Origin], Line)
      <3>1. /\ Rank[node[Origin].row[Line].mark] <= Rank[node'[Origin].row[Line].mark]
            /\ node[Origin].row[Line].mark \in Mark
        BY <1>0, <1>8, <2>1, FrameFacts, HoldRow DEF Forward, Later
      <3>2. node[Origin].row[Line].mark # "queued" BY DEF IInv, LineMark
      <3>3. Rank[node[Origin].row[Line].mark] # 0
        BY <3>1, <3>2, RankValues, SMT DEF Mark
      <3>4. Rank[node[Origin].row[Line].mark] \in 0..6 BY <3>1, RankType
      <3> QED BY <2>0, <3>1, <3>3, <3>4, RankValues, SMT
    <2>2. CASE ~Has(node[Origin], Line)
      <3>1. Origin \notin Holders BY <2>2 DEF Holders, HasLine
      <3>2. CASE s = Origin
        <4>1. Has(n, Line) => Origin \in H
          BY <1>4, <3>2, FrameFacts DEF Sound, RowSound, Has
        <4> QED BY <1>2, <2>0, <3>1, <3>2, <4>1 DEF Has
      <3>3. CASE s # Origin
        BY <1>2, <2>0, <2>2, <3>3, FrameFacts DEF Has
      <3> QED BY <3>2, <3>3
    <2> QED BY <2>1, <2>2
  <1> QED BY <1>2, <1>5, <1>6, <1>7, <1>8, <1>9

\* What goes on the air is heard where it may be.
LEMMA OnAirHeard ==
  ASSUME IInv, NEW s \in Node, NEW f \in Frame, NEW h \in Hops, OnAir(s, f, h),
         Goes(f, h, s), f = Line => s \in Holders, f # Line => Receipted(f, Holders)
  PROVE  /\ inbox' \in [Node -> SUBSET (Frame \X Hops)]
         /\ losses' \in 0..MaxLosses
         /\ \A r \in Node : \A m \in inbox'[r] : Heard(r, m, Holders)
  <1> PICK heard \in SUBSET Nbr[s] :
        /\ Misses(s, heard)
        /\ inbox' = [r \in Node |-> IF r \in heard THEN inbox[r] \cup {<<f, h>>} ELSE inbox[r]]
    BY DEF OnAir
  <1>0. inbox \in [Node -> SUBSET (Frame \X Hops)] /\ losses \in 0..MaxLosses
    BY DEF IInv, TypeOK
  <1>1. inbox' \in [Node -> SUBSET (Frame \X Hops)] BY <1>0
  <1>2. losses' \in 0..MaxLosses BY <1>0, BoundsAssumption, SMT DEF Misses
  <1>3. ASSUME NEW r \in Node, r \in heard PROVE Heard(r, <<f, h>>, Holders)
    <2> DEFINE o == OriginOf(f)
    <2>1. o \in Node /\ r \in Nbr[s] BY <1>3, FrameFacts DEF OriginOf
    <2> HIDE DEF o
    <2>2. Dist[o][r] <= Dist[o][s] + 1 BY <2>1, NetworkAssumption
    <2>3. Dist[o][r] \in Nat /\ Dist[o][s] \in Nat BY <2>1, NetworkAssumption
    <2>4. h + Dist[o][s] <= Ttl BY DEF Goes, Within, o
    <2>5. h = 0 => Dist[o][s] = 0
      <3>1. h = 0 => o = s BY DEF Goes, Own, o
      <3> QED BY <3>1, NetworkAssumption
    <2>6. h \in Nat BY HopFacts
    <2>7. h + Dist[o][r] <= Ttl + 1 BY <2>2, <2>3, <2>4, <2>6, HopFacts, SMT
    <2>8. Dist[o][r] <= Ttl BY <2>2, <2>3, <2>4, <2>5, <2>6, HopFacts, SMT
    <2> QED BY <2>1, <2>7, <2>8 DEF Heard, o
  <1>4. ASSUME NEW r \in Node, NEW m \in inbox'[r] PROVE Heard(r, m, Holders)
    <2>1. m \in inbox[r] \/ (r \in heard /\ m = <<f, h>>) BY <1>4
    <2> QED BY <1>3, <2>1 DEF IInv
  <1> QED BY <1>1, <1>2, <1>4

\* What an action adds to the invariant, with the holders it leaves.
Step(H) == IInv' /\ Forward /\ Holders' = H

\* A step that changes one station, and the medium as told.
LEMMA StepFrom ==
  ASSUME IInv, NEW s \in Node, NEW n, NEW H, Becomes(s, n),
         Keeps(node[s], n, s, H),
         \/ H = Holders
         \/ /\ H = Holders \cup {s} /\ Has(n, Line) /\ Origin \in H
            /\ s = Origin => n.row[Line].mark # "queued",
         inbox' \in [Node -> SUBSET (Frame \X Hops)],
         losses' \in 0..MaxLosses, faults' \in 0..MaxFaults,
         \A r \in Node : \A m \in inbox'[r] : Heard(r, m, Holders)
  PROVE  Step(H)
  <1>1. /\ node' \in [Node -> Station]
        /\ Holders' = H
        /\ Holders' # {} => Origin \in Holders'
        /\ LineMark(Origin)' # "queued"
        /\ \A r \in Node : Sound(node'[r], r, H)
        /\ Forward
    BY StationStep
  <1>2. TypeOK' BY <1>1 DEF TypeOK
  <1>3. \A r \in Node : Sound(node[r], r, Holders)' BY <1>1 DEF Sound, RowSound, RestSound,
          Goes, Within, Own, OriginOf, Earned, Receipted
  <1>4. Holders \subseteq H OBVIOUS
  <1>5. \A r \in Node : \A m \in inbox'[r] : Heard(r, m, H) BY <1>4, HeardMonotone
  <1>6. \A r \in Node : \A m \in inbox'[r] : Heard(r, m, Holders)'
    BY <1>1, <1>5 DEF Heard, OriginOf, Receipted
  <1>7. IInv' BY <1>1, <1>2, <1>3, <1>6 DEF IInv
  <1> QED BY <1>1, <1>7 DEF Step

LEMMA TypeFacts ==
  ASSUME IInv
  PROVE  /\ node \in [Node -> Station]
         /\ inbox \in [Node -> SUBSET (Frame \X Hops)]
         /\ losses \in 0..MaxLosses /\ faults \in 0..MaxFaults
         /\ \A s \in Node : node[s] \in Station /\ Sound(node[s], s, Holders)
         /\ \A s \in Node : \A m \in inbox[s] : Heard(s, m, Holders)
  BY DEF IInv, TypeOK

\* A step that changes one station and leaves the medium alone.
LEMMA LocalStep ==
  ASSUME IInv, NEW s \in Node, NEW n, Becomes(s, n),
         Keeps(node[s], n, s, Holders),
         inbox' = inbox, losses' = losses, faults' \in 0..MaxFaults
  PROVE  Step(Holders)
  BY TypeFacts, StepFrom

LEMMA FaultType ==
  ASSUME IInv, Fault
  PROVE  faults' \in 0..MaxFaults
  BY TypeFacts, BoundsAssumption, SMT DEF Fault

LEMMA HeldIsHolder ==
  ASSUME IInv, NEW s \in Node, NEW f \in Frame, Has(node[s], f)
  PROVE  f = Line => s \in Holders
  BY DEF Holders, HasLine

LEMMA SendLineStep ==
  ASSUME IInv, SendLine
  PROVE  /\ Step({Origin}) /\ Holders = {}
         /\ LineMark(Origin) = "none" /\ LineMark(Origin)' = "sent"
  <1> DEFINE H == {Origin}
             n == node[Origin]
             r == NewRow("queued", Ttl, FALSE)
             stored == Insert(n, Line, r)
             handed == Dispatch(stored, Origin, Line)
             sent == SetDelivery(handed, Line, "sent")
             armed == SetHold(sent, Line, TRUE, Ttl)
  <1>0. Origin \in Node /\ Line \in Frame /\ OriginOf(Line) = Origin
    BY FrameFacts DEF OriginOf
  <1>1. n \in Station /\ ~Has(n, Line) BY <1>0, TypeFacts DEF SendLine
  <1>2. Holders = {} BY <1>1 DEF IInv, Holders, HasLine
  <1>3. Within(Line, Ttl, Origin)
    <2>1. Dist[OriginOf(Line)][Origin] = 0 BY <1>0, NetworkAssumption
    <2> QED BY <2>1, HopFacts, SMT DEF Within
  <1>4. r \in Row /\ r.mark = "queued" /\ r.hops = Ttl
    BY HopFacts, MarkTypes, NewRowType DEF NewRow
  <1>5. Becomes(Origin, armed) BY DEF SendLine
  <1> HIDE DEF r, n
  <1>6. Keeps(n, stored, Origin, H)
    <2>1. RowSound(r, Line, Origin, H) BY <1>3, <1>4 DEF RowSound, Earned
    <2> QED BY <1>0, <1>1, <1>4, <2>1, KeepsInsert
  <1>7. stored \in Station /\ stored.row[Line] = r
    <2>1. [n EXCEPT !.row[Line] = r].row[Line] = r BY <1>0, <1>1 DEF Station
    <2>2. stored = [n EXCEPT !.row[Line] = r] BY <1>1 DEF Insert
    <2> QED BY <1>6, <2>1, <2>2, KeepsType
  <1>8. Has(stored, Line) BY <1>4, <1>7 DEF Has
  <1> HIDE DEF stored
  <1>9. Keeps(stored, handed, Origin, H) /\ handed.row = stored.row
    BY <1>0, <1>7, <1>8, KeepsDispatch DEF Own
  <1>10. handed \in Station /\ Has(handed, Line) /\ handed.row[Line].mark = "queued"
    BY <1>4, <1>7, <1>8, <1>9, KeepsType DEF Has
  <1> HIDE DEF handed
  <1> DEFINE q == [handed.row[Line] EXCEPT !.mark = "sent"]
  <1>11. sent = [handed EXCEPT !.row[Line] = q] BY <1>10 DEF SetDelivery, SetAllowed
  <1>12. Keeps(handed, sent, Origin, H) /\ sent.row[Line].mark = "sent"
    <2>1. Rank["queued"] <= Rank["sent"] BY RankValues
    <2>2. Keeps(handed, [handed EXCEPT !.row[Line] = [@ EXCEPT !.mark = "sent"]], Origin, H)
      BY <1>0, <1>10, <2>1, MarkTypes, KeepsMark DEF Earned
    <2>3. handed.row[Line] \in Row BY <1>0, <1>10 DEF Station
    <2>4. q.mark = "sent" BY <2>3 DEF Row
    <2>5. [handed EXCEPT !.row[Line] = q].row[Line] = q BY <1>0, <1>10 DEF Station
    <2> HIDE DEF sent
    <2> QED BY <1>11, <2>2, <2>4, <2>5
  <1> HIDE DEF q, sent
  <1>13. sent \in Station BY <1>12, KeepsType
  <1>14. Keeps(sent, armed, Origin, H)
    BY <1>0, <1>3, <1>13, HopFacts, KeepsSetHold
  <1>15. armed.row[Line].mark = "sent"
    <2> DEFINE t == [sent.row[Line] EXCEPT !.hold = TRUE, !.hops = Ttl]
    <2>1. sent.row[Line] \in Row BY <1>0, <1>13 DEF Station
    <2>2. t.mark = "sent" BY <1>12, <2>1 DEF Row
    <2>3. [sent EXCEPT !.row[Line] = t].row[Line] = t BY <1>0, <1>13 DEF Station
    <2>4. armed = [sent EXCEPT !.row[Line] = t] BY <1>12 DEF SetHold, Has
    <2> HIDE DEF t, armed
    <2> QED BY <2>2, <2>3, <2>4
  <1> HIDE DEF armed
  <1>16. Keeps(n, armed, Origin, H)
    BY <1>1, <1>6, <1>9, <1>12, <1>14, KeepsThen
  <1>17. Step(H)
    <2>1. H = Holders \cup {Origin} BY <1>2
    <2>2. Has(armed, Line) BY <1>15 DEF Has
    <2>3. inbox' = inbox /\ losses' = losses /\ faults' = faults BY DEF SendLine
    <2> QED BY <1>0, <1>5, <1>15, <1>16, <2>1, <2>2, <2>3, TypeFacts, StepFrom DEF n
  <1>18. LineMark(Origin)' = "sent"
    BY <1>0, <1>5, <1>15, TypeFacts DEF Becomes, LineMark
  <1>19. LineMark(Origin) = "none" BY <1>1 DEF LineMark, Has, n
  <1> QED BY <1>2, <1>17, <1>18, <1>19

LEMMA KeyLineStep ==
  ASSUME IInv, NEW s \in Node, KeyLine(s)
  PROVE  Step(Holders)
  <1> DEFINE n == [node[s] EXCEPT !.queue = {}]
  <1> PICK h \in node[s].queue : Becomes(s, n) /\ OnAir(s, Line, h) /\ UNCHANGED faults
    BY DEF KeyLine
  <1>1. node[s] \in Station /\ h \in Hops BY TypeFacts DEF Station
  <1>2. Goes(Line, h, s) /\ s \in Holders BY TypeFacts DEF Sound, RestSound
  <1>3. Keeps(node[s], n, s, Holders)
    <2>1. Cancel(node[s], Line) = n BY DEF Cancel
    <2> HIDE DEF n
    <2> QED BY <1>1, <2>1, KeepsCancel
  <1> HIDE DEF n
  <1>4. /\ inbox' \in [Node -> SUBSET (Frame \X Hops)]
        /\ losses' \in 0..MaxLosses
        /\ \A r \in Node : \A m \in inbox'[r] : Heard(r, m, Holders)
    BY <1>1, <1>2, FrameFacts, OnAirHeard
  <1>5. faults' \in 0..MaxFaults BY TypeFacts
  <1> QED BY <1>3, <1>4, <1>5, StepFrom

LEMMA KeyAckStep ==
  ASSUME IInv, NEW s \in Node, KeyAck(s)
  PROVE  Step(Holders)
  <1> PICK job \in node[s].jobs :
        /\ Becomes(s, [node[s] EXCEPT !.jobs = @ \ {job}])
        /\ IF job[1] \in node[s].downstream THEN UNCHANGED <<inbox, losses>>
                                            ELSE OnAir(s, job[1], job[2])
        /\ UNCHANGED faults
    BY DEF KeyAck
  <1> DEFINE n == [node[s] EXCEPT !.jobs = @ \ {job}]
  <1>1. node[s] \in Station /\ job[1] \in Node /\ job[2] \in Hops
    BY TypeFacts DEF Station
  <1>2. Goes(job[1], job[2], s) /\ Receipted(job[1], Holders)
    BY TypeFacts DEF Sound, RestSound
  <1>3. Keeps(node[s], n, s, Holders)
    <2>1. /\ n \in Station /\ n.row = node[s].row /\ n.receipts = node[s].receipts
          /\ n.queue = node[s].queue /\ n.jobs = node[s].jobs \ {job}
      BY <1>1 DEF Station
    <2> HIDE DEF n
    <2>2. Sound(node[s], s, Holders) => RestSound(n, s, Holders)
      BY <2>1 DEF Sound, RestSound
    <2> QED BY <1>1, <2>1, <2>2, KeepsRest
  <1>4. Becomes(s, n) OBVIOUS
  <1> HIDE DEF n
  <1>5. /\ inbox' \in [Node -> SUBSET (Frame \X Hops)]
        /\ losses' \in 0..MaxLosses
        /\ \A r \in Node : \A m \in inbox'[r] : Heard(r, m, Holders)
    <2>1. CASE job[1] \in node[s].downstream BY <2>1, TypeFacts
    <2>2. CASE job[1] \notin node[s].downstream
      <3>1. OnAir(s, job[1], job[2]) BY <2>2
      <3>2. job[1] \in Frame /\ job[1] # Line BY <1>1, FrameFacts
      <3> QED BY <1>1, <1>2, <3>1, <3>2, OnAirHeard
    <2> QED BY <2>1, <2>2
  <1>6. faults' \in 0..MaxFaults BY TypeFacts
  <1> QED BY <1>3, <1>4, <1>5, <1>6, StepFrom

\* A station that hears the line's first copy is the one step that adds a holder.
LEMMA ReceiveStep ==
  ASSUME IInv, NEW s \in Node, Receive(s)
  PROVE  \/ Step(Holders)
         \/ /\ s \notin Holders /\ s # Origin
            /\ \E r \in Holders : s \in Nbr[r]
            /\ Step(Holders \cup {s})
            /\ LineMark(Origin)' = LineMark(Origin)
  <1> PICK m \in inbox[s] : \E c \in Around(s), g \in Gaps(s, m[1]) :
        /\ inbox' = [inbox EXCEPT ![s] = @ \ {m}]
        /\ Becomes(s, OnEnvelope(node[s], s, m[1], m[2],
                                 IF m[1] = Line THEN 0 ELSE node[m[1]].heardAt, c, g))
        /\ UNCHANGED <<losses, faults>>
    BY DEF Receive
  <1> PICK c \in Around(s), g \in Gaps(s, m[1]) :
        /\ inbox' = [inbox EXCEPT ![s] = @ \ {m}]
        /\ Becomes(s, OnEnvelope(node[s], s, m[1], m[2],
                                 IF m[1] = Line THEN 0 ELSE node[m[1]].heardAt, c, g))
        /\ UNCHANGED <<losses, faults>>
    OBVIOUS
  <1> DEFINE f == m[1]
             h == m[2]
             l == IF f = Line THEN 0 ELSE node[f].heardAt
             n == OnEnvelope(node[s], s, f, h, l, c, g)
             H == IF f = Line THEN Holders \cup {s} ELSE Holders
  <1>1. node[s] \in Station /\ f \in Frame /\ h \in Hops /\ m \in Frame \X Hops
    BY TypeFacts
  <1>2. Heard(s, m, Holders) BY TypeFacts
  <1>3. Holders # {} => Origin \in Holders BY DEF IInv
  <1>4. Origin \in Holders BY <1>2, <1>3 DEF Heard, Receipted
  <1>5. f = Line /\ s = Origin => Has(node[s], f) /\ \E r \in H : r # Origin
    BY <1>2, <1>4, NetworkAssumption DEF Heard, Holders, HasLine
  <1>6. f # Line => Receipted(f, H) BY <1>2 DEF Heard
  <1>7. /\ h + Dist[OriginOf(f)][s] <= Ttl + 1 /\ Dist[OriginOf(f)][s] <= Ttl
    BY <1>2 DEF Heard
  <1>8. Becomes(s, n) OBVIOUS
  <1>9. Origin \in H /\ (f = Line => s \in H) BY <1>4
  <1>10. f = Line /\ s # Origin => \E r \in Holders : s \in Nbr[r] BY <1>2 DEF Heard
  <1>11. H \in {Holders, Holders \cup {s}} /\ (f # Line => H = Holders) OBVIOUS
  <1> HIDE DEF l, H
  <1>12. Keeps(node[s], n, s, H) /\ (f = Line => Has(n, f))
    <2> HIDE DEF n, f, h
    <2> QED BY <1>1, <1>5, <1>6, <1>7, <1>9, KeepsOnEnvelope DEF n
  <1>13. /\ inbox' \in [Node -> SUBSET (Frame \X Hops)]
         /\ losses' \in 0..MaxLosses /\ faults' \in 0..MaxFaults
         /\ \A r \in Node : \A q \in inbox'[r] : Heard(r, q, Holders)
    <2>1. \A r \in Node : inbox'[r] \subseteq inbox[r] BY TypeFacts
    <2>2. inbox' \in [Node -> SUBSET (Frame \X Hops)] BY TypeFacts
    <2> QED BY <2>1, <2>2, TypeFacts
  <1> HIDE DEF n, f, h
  <1>14. CASE H = Holders BY <1>8, <1>12, <1>13, <1>14, StepFrom
  <1>15. CASE H # Holders
    <2>1. f = Line /\ H = Holders \cup {s} /\ s \notin Holders /\ s # Origin
      BY <1>4, <1>11, <1>15
    <2>2. Has(n, Line) BY <1>12, <2>1
    <2>3. Step(H) BY <1>8, <1>9, <1>12, <1>13, <2>1, <2>2, StepFrom
    <2>4. LineMark(Origin)' = LineMark(Origin)
      BY <1>8, <2>1, TypeFacts, FrameFacts DEF Becomes, LineMark
    <2> QED BY <1>10, <2>1, <2>3, <2>4
  <1> QED BY <1>14, <1>15

LEMMA TimerStep ==
  ASSUME IInv, NEW s \in Node, NEW f \in Frame,
         HoldDue(s, f) \/ RetryDue(s, f) \/ AckWaitDue(s, f)
  PROVE  Step(Holders)
  <1>0. node[s] \in Station /\ faults \in 0..MaxFaults BY TypeFacts
  <1>1. CASE HoldDue(s, f)
    <2>1. PICK c \in Around(s) : Becomes(s, Pumped(node[s], s, f, c))
      BY <1>1 DEF HoldDue
    <2>2. Has(node[s], f) /\ ~Own(s, f) BY <1>1 DEF HoldDue, RelayDue, HoldUntil
    <2>3. Keeps(node[s], Pumped(node[s], s, f, c), s, Holders)
      BY <1>0, <2>2, HeldIsHolder, KeepsPumped
    <2>4. inbox' = inbox /\ losses' = losses /\ faults' = faults BY <1>1 DEF HoldDue
    <2> QED BY <1>0, <2>1, <2>3, <2>4, LocalStep
  <1>2. CASE RetryDue(s, f)
    <2>1. /\ Becomes(s, RetryStep(node[s], s, f)) /\ Own(s, f)
          /\ node[s].row[f].mark \in Retried /\ node[s].row[f].tries < MaxRetries
          /\ inbox' = inbox /\ losses' = losses /\ faults' = faults
      BY <1>2 DEF RetryDue
    <2>2. Has(node[s], f) BY <2>1 DEF Has, Retried
    <2>3. Keeps(node[s], RetryStep(node[s], s, f), s, Holders)
      BY <1>0, <2>1, <2>2, KeepsRetry
    <2> QED BY <1>0, <2>1, <2>3, LocalStep
  <1>3. CASE AckWaitDue(s, f)
    <2>1. /\ Becomes(s, AckWaitStep(node[s], f))
          /\ node[s].row[f].mark \in Retried
          /\ inbox' = inbox /\ losses' = losses /\ faults' = faults
      BY <1>3 DEF AckWaitDue
    <2>2. Has(node[s], f) BY <2>1 DEF Has, Retried
    <2>3. Keeps(node[s], AckWaitStep(node[s], f), s, Holders)
      BY <1>0, <2>2, KeepsAckWait
    <2> QED BY <1>0, <2>1, <2>3, LocalStep
  <1> QED BY <1>1, <1>2, <1>3

LEMMA FaultStep ==
  ASSUME IInv, NEW s \in Node,
         Flush(s) \/ Restart(s) \/ \E f \in Frame : Expire(s, f) \/ HoldAged(s, f)
  PROVE  Step(Holders)
  <1>0. node[s] \in Station BY TypeFacts
  <1>1. CASE Flush(s)
    <2> DEFINE failed == Failing(node[s], s, Frame)
               quiet == [failed EXCEPT !.row = [f \in Frame |->
                          IF Own(s, f) THEN failed.row[f] ELSE [failed.row[f] EXCEPT !.hold = FALSE]]]
               n == IF Own(s, Line) /\ node[s].row[Line].mark \in Failable
                    THEN Cancel(quiet, Line) ELSE quiet
    <2>1. Fault /\ Becomes(s, n) /\ inbox' = inbox /\ losses' = losses BY <1>1 DEF Flush
    <2>2. Keeps(node[s], failed, s, Holders) BY <1>0, KeepsFailing
    <2> HIDE DEF failed
    <2>3. failed \in Station => Keeps(failed, quiet, s, Holders) BY KeepsQuiet
    <2>4. Keeps(node[s], quiet, s, Holders) BY <1>0, <2>2, <2>3, KeepsThen
    <2> HIDE DEF quiet
    <2>5. quiet \in Station => Keeps(quiet, n, s, Holders) BY KeepsCancel, KeepsRefl
    <2>6. Keeps(node[s], n, s, Holders) BY <1>0, <2>4, <2>5, KeepsThen
    <2> HIDE DEF n
    <2> QED BY <2>1, <2>6, FaultType, LocalStep
  <1>2. CASE Restart(s)
    <2> DEFINE n == Stopped(node[s].row, node[s].receipts, node[s].heardAt)
    <2>1. Fault /\ Becomes(s, n) /\ inbox' = inbox /\ losses' = losses BY <1>2 DEF Restart
    <2>2. Keeps(node[s], n, s, Holders) BY <1>0, KeepsStopped
    <2> HIDE DEF n
    <2> QED BY <2>1, <2>2, FaultType, LocalStep
  <1>3. ASSUME NEW f \in Frame, Expire(s, f) PROVE Step(Holders)
    <2> DEFINE failed == Failing(node[s], s, {f})
    <2>1. Fault /\ Becomes(s, Cancel(failed, f)) /\ inbox' = inbox /\ losses' = losses
      BY <1>3 DEF Expire
    <2>2. Keeps(node[s], failed, s, Holders) BY <1>0, KeepsFailing
    <2> HIDE DEF failed
    <2>3. failed \in Station => Keeps(failed, Cancel(failed, f), s, Holders) BY KeepsCancel
    <2>4. Keeps(node[s], Cancel(failed, f), s, Holders) BY <1>0, <2>2, <2>3, KeepsThen
    <2> QED BY <2>1, <2>4, FaultType, LocalStep
  <1>4. ASSUME NEW f \in Frame, HoldAged(s, f) PROVE Step(Holders)
    <2>1. Fault /\ Becomes(s, SetHold(node[s], f, FALSE, 0))
          /\ inbox' = inbox /\ losses' = losses
      BY <1>4 DEF HoldAged
    <2>2. Keeps(node[s], SetHold(node[s], f, FALSE, 0), s, Holders) BY <1>0, KeepsZero
    <2> QED BY <2>1, <2>2, FaultType, LocalStep
  <1> QED BY <1>1, <1>2, <1>3, <1>4

-----------------------------------------------------------------------------
(***************************************************************************)
(* The theorems.                                                           *)
(***************************************************************************)
LEMMA InitInvariant ==
  ASSUME Init
  PROVE  IInv
  <1>1. 0 \in Hops /\ 0 \in 0..(MaxRetries + 1) BY HopFacts, BoundsAssumption, SMT
  <1>2. NoRow \in Row BY <1>1 DEF NoRow, Row
  <1>3. /\ Fresh \in Station /\ Fresh.row = [f \in Frame |-> NoRow]
        /\ Fresh.receipts = {} /\ Fresh.queue = {} /\ Fresh.jobs = {}
    BY <1>1, <1>2 DEF Fresh, Stopped, Station
  <1>4. \A f \in Frame : Fresh.row[f].mark = "none" BY <1>3 DEF NoRow
  <1>5. \A s \in Node : node[s] = Fresh /\ inbox[s] = {} BY DEF Init
  <1>6. Holders = {} BY <1>4, <1>5, FrameFacts DEF Holders, HasLine, Has
  <1>7. LineMark(Origin) # "queued" BY <1>4, <1>5, FrameFacts DEF LineMark
  <1>8. \A s \in Node : Sound(node[s], s, Holders)
    <2> HIDE DEF Fresh
    <2>1. \A s \in Node, f \in Frame : RowSound(node[s].row[f], f, s, Holders)
      BY <1>4, <1>5 DEF RowSound
    <2>2. \A s \in Node : RestSound(node[s], s, Holders)
      BY <1>3, <1>5 DEF RestSound
    <2> QED BY <2>1, <2>2 DEF Sound
  <1>9. TypeOK
    <2>1. node \in [Node -> Station] BY <1>3 DEF Init
    <2>2. inbox \in [Node -> SUBSET (Frame \X Hops)] BY DEF Init
    <2>3. losses \in 0..MaxLosses /\ faults \in 0..MaxFaults
      BY BoundsAssumption, SMT DEF Init
    <2> QED BY <2>1, <2>2, <2>3 DEF TypeOK
  <1> QED BY <1>5, <1>6, <1>7, <1>8, <1>9 DEF IInv

\* A step sends the line, passes it on to one station, or leaves the holders.
LEMMA NextSteps ==
  ASSUME IInv, Next
  PROVE  \/ /\ Step({Origin}) /\ Holders = {}
            /\ LineMark(Origin) = "none" /\ LineMark(Origin)' = "sent"
         \/ Step(Holders)
         \/ \E s \in Node :
              /\ s \notin Holders /\ s # Origin
              /\ \E r \in Holders : s \in Nbr[r]
              /\ Step(Holders \cup {s})
              /\ LineMark(Origin)' = LineMark(Origin)
  <1>1. CASE SendLine BY <1>1, SendLineStep
  <1>2. CASE \E s \in Node : KeyLine(s) BY <1>2, KeyLineStep
  <1>3. CASE \E s \in Node : KeyAck(s) BY <1>3, KeyAckStep
  <1>4. CASE \E s \in Node : Receive(s) BY <1>4, ReceiveStep
  <1>5. CASE \E s \in Node : Flush(s) BY <1>5, FaultStep
  <1>6. CASE \E s \in Node : Restart(s) BY <1>6, FaultStep
  <1>7. CASE \E s \in Node, f \in Frame : HoldDue(s, f) \/ RetryDue(s, f) \/ AckWaitDue(s, f)
    BY <1>7, TimerStep
  <1>8. CASE \E s \in Node, f \in Frame : Expire(s, f) \/ HoldAged(s, f)
    BY <1>8, FaultStep
  <1> QED BY <1>1, <1>2, <1>3, <1>4, <1>5, <1>6, <1>7, <1>8 DEF Next

LEMMA Stutter ==
  ASSUME IInv, UNCHANGED vars
  PROVE  Step(Holders)
  <1>1. /\ node' = node /\ inbox' = inbox /\ losses' = losses /\ faults' = faults
    BY DEF vars
  <1>2. Holders' = Holders BY <1>1 DEF Holders, HasLine, Has
  <1>3. IInv' BY <1>1 DEF IInv, TypeOK, Holders, HasLine, Has, LineMark, Sound, RowSound,
          RestSound, Goes, Within, Own, OriginOf, Earned, Receipted, Heard
  <1>4. Forward BY <1>1, TypeFacts, LaterRefl DEF Forward
  <1> QED BY <1>2, <1>3, <1>4 DEF Step

LEMMA StepInvariant ==
  ASSUME IInv, [Next]_vars
  PROVE  IInv' /\ Forward
  BY NextSteps, Stutter DEF Step

\* The invariant holds of every behaviour: the marks of the line are earned,
\* hops and receipts are accounted for, on every station and on the air.
THEOREM Invariance == Spec => []IInv
  <1>1. Init => IInv BY InitInvariant
  <1>2. IInv /\ [Next]_vars => IInv' BY StepInvariant
  <1> QED BY <1>1, <1>2, PTL DEF Spec

\* Every station's rows, sets and counters keep their ranges (the handlers,
\* the timers, the flush and the restart of node.rs and store/mod.rs).
THEOREM TypeCorrect == Spec => []TypeOK
  <1>1. IInv => TypeOK BY DEF IInv
  <1> QED BY <1>1, Invariance, PTL

\* However the line and its receipts are relayed, every hop costs one (on_rx).
THEOREM HopsSpent == Spec => []HopsAreSpent
  <1>1. IInv => HopsAreSpent
    <2> SUFFICES ASSUME IInv, NEW s \in Node, NEW f \in Frame, Has(node[s], f)
                 PROVE  node[s].row[f].hops + Dist[OriginOf(f)][s] <= Ttl
      BY DEF HopsAreSpent
    <2>1. RowSound(node[s].row[f], f, s, Holders) BY TypeFacts DEF Sound
    <2> QED BY <2>1 DEF RowSound, Within, Has
  <1> QED BY <1>1, Invariance, PTL

\* [ok] and [all] on any station's copy are true: the stations they speak of
\* have the line (the marks Engine::on_rx and on_envelope set from receipts).
THEOREM MarksTrue == Spec => []MarksAreTrue
  <1>1. IInv => MarksAreTrue
    <2> SUFFICES ASSUME IInv, NEW s \in Node
                 PROVE  /\ LineMark(s) \in {"delivered", "all"} => \E r \in Node \ {Origin} : HasLine(r)
                        /\ LineMark(s) = "delivered" /\ LineKind = "direct" => HasLine(Dest)
                        /\ LineMark(s) = "all" => \A m \in Members : HasLine(m)
      BY DEF MarksAreTrue
    <2>1. RowSound(node[s].row[Line], Line, s, Holders) BY TypeFacts, FrameFacts DEF Sound
    <2>2. LineMark(s) # "none" => Earned(LineMark(s), Holders)
      BY <2>1 DEF RowSound, LineMark
    <2>3. LineMark(s) \in {"delivered", "all"} => \E r \in Node \ {Origin} : HasLine(r)
      BY <2>2 DEF Earned, Holders
    <2>4. LineMark(s) = "delivered" /\ LineKind = "direct" => HasLine(Dest)
      BY <2>2 DEF Earned, Holders
    <2>5. LineMark(s) = "all" => \A m \in Members : HasLine(m)
      BY <2>2 DEF Earned, Holders
    <2> QED BY ONLY <2>3, <2>4, <2>5
  <1> QED BY <1>1, Invariance, PTL

\* No late receipt, echo, age limit, flush or restart moves a mark back
\* (advance_delivery and the callers of set_delivery).
THEOREM MarksForward == Spec => MarksMoveForward
  <1> DEFINE Ahead == \A s \in Node, f \in Frame :
        Has(node[s], f) => /\ Has(node[s], f)'
                           /\ CanAdvance(node[s].row[f].mark, node'[s].row[f].mark)
  <1>1. IInv /\ [Next]_vars => Ahead
    <2> SUFFICES ASSUME IInv, [Next]_vars, NEW s \in Node, NEW f \in Frame, Has(node[s], f)
                 PROVE  /\ Has(node[s], f)'
                        /\ CanAdvance(node[s].row[f].mark, node'[s].row[f].mark)
      OBVIOUS
    <2>1. Later(node[s], node'[s]) /\ IInv' BY StepInvariant DEF Forward
    <2>2. Has(node'[s], f) /\ Rank[node[s].row[f].mark] <= Rank[node'[s].row[f].mark]
      BY <2>1 DEF Later
    <2>3. node[s].row[f].mark \in Mark BY TypeFacts, HoldRow
    <2>4. node'[s].row[f].mark \in Mark
      <3>1. node'[s] \in Station BY <2>1 DEF Later
      <3> QED BY <2>2, <3>1, HoldRow
    <2>5. Has(node[s], f)' BY <2>2 DEF Has
    <2>6. CanAdvance(node[s].row[f].mark, node'[s].row[f].mark)
      BY <2>2, <2>3, <2>4, RankType, SMT DEF CanAdvance
    <2> QED BY <2>5, <2>6
  <1>2. IInv /\ [Next]_vars => [Ahead]_vars BY <1>1
  <1> HIDE DEF Ahead
  <1>3. Spec => [][Ahead]_vars BY <1>2, Invariance, PTL DEF Spec
  <1> QED BY <1>3 DEF MarksMoveForward, Ahead

\* What the sender's mark and the holders do in a step, LineService allows.
LEMMA ServiceStep ==
  ASSUME IInv, [Next]_vars
  PROVE  [Service!Next]_<<LineMark(Origin), Holders>>
  <1>0. IInv' /\ Forward BY StepInvariant
  <1>1. ASSUME Step(Holders)
        PROVE  [Service!Next]_<<LineMark(Origin), Holders>>
    <2>0. Holders' = Holders BY <1>1 DEF Step
    <2>1. CASE LineMark(Origin)' = LineMark(Origin) BY <2>0, <2>1
    <2>2. CASE LineMark(Origin)' # LineMark(Origin)
      <3> DEFINE m == LineMark(Origin)'
                 cur == LineMark(Origin)
      <3>1. node'[Origin] \in Station /\ Later(node[Origin], node'[Origin])
        BY <1>0, FrameFacts DEF Forward, Later
      <3>2. m = node'[Origin].row[Line].mark BY DEF LineMark
      <3>3. m # "none" => Origin \in Holders'
        BY <3>2, FrameFacts DEF Holders, HasLine, Has
      <3>4. m = "none" => cur = "none"
        BY <3>1, <3>2, FrameFacts DEF Later, LineMark, Has
      <3>5. cur # "none" /\ m # "none"
        BY <2>0, <2>2, <3>3, <3>4 DEF Holders, HasLine, Has, LineMark
      <3>6. m \in Mark
        BY <3>1, <3>2, <3>5, FrameFacts, HoldRow DEF Has
      <3>7. cur \in Mark /\ Rank[cur] <= Rank[m]
        BY <3>1, <3>2, <3>5, TypeFacts, FrameFacts, HoldRow DEF Later, LineMark, Has
      <3>8. cur # "queued" /\ m # "queued" BY <1>0 DEF IInv
      <3>9. m # "sent" BY <2>2, <3>7, <3>8, RankValues, SMT DEF Mark
      <3>10. Advances(cur, m) BY <2>2, <3>6, <3>7, RankType, SMT DEF Advances, CanAdvance
      <3>11. Earned(m, Holders)
        <4>1. (\A s \in Node : Sound(node[s], s, Holders))' BY <1>0 DEF IInv
        <4>2. Sound(node'[Origin], Origin, Holders)
          BY <2>0, <4>1, FrameFacts DEF Sound, RowSound, RestSound,
             Goes, Within, Own, OriginOf, Earned, Receipted
        <4>3. RowSound(node'[Origin].row[Line], Line, Origin, Holders)
          BY <4>2, FrameFacts DEF Sound
        <4> QED BY <3>2, <3>5, <4>3 DEF RowSound
      <3> HIDE DEF m, cur
      <3>12. m \in {"relayed", "failed", "delivered", "all"}
        BY <3>6, <3>8, <3>9, <3>11 DEF Mark, Earned
      <3>13. Service!Earned(m)
        BY <3>11, <3>12 DEF Service!Earned, Earned, Holders
      <3>14. Service!Show(m)
        BY <2>0, <3>5, <3>10, <3>13 DEF Service!Show, Service!Advances, Advances,
           Service!CanAdvance, CanAdvance, Service!Rank, Rank, Service!Mark, Mark, m, cur, Holders
      <3> QED BY <3>6, <3>14 DEF Service!Next, Service!Mark, Mark
    <2> QED BY <2>1, <2>2
  <1>2. ASSUME Holders = {}, Step({Origin}),
               LineMark(Origin) = "none", LineMark(Origin)' = "sent"
        PROVE  Service!Next
    <2>1. Holders' = {Origin} BY <1>2 DEF Step
    <2> QED BY <1>2, <2>1 DEF Service!Next, Service!Send, Holders
  <1>3. ASSUME NEW s \in Node, s \notin Holders, \E r \in Holders : s \in Nbr[r],
               Step(Holders \cup {s}), LineMark(Origin)' = LineMark(Origin)
        PROVE  Service!Next
    <2>1. Holders' = Holders \cup {s} BY <1>3 DEF Step
    <2>2. Service!Spread(s) BY <1>3, <2>1 DEF Service!Spread, Holders
    <2> QED BY <2>2 DEF Service!Next
  <1> QED BY <1>1, <1>2, <1>3, NextSteps, Stutter

\* The stations together implement LineService: the line spreads only from a
\* station to one that hears it, and the sender sees only earned marks.
THEOREM Serves == Spec => ServesLine
  <1>1. Init => Service!Init
    <2> SUFFICES ASSUME Init PROVE Service!Init OBVIOUS
    <2>1. \A s \in Node : node[s].row[Line].mark = "none"
      BY FrameFacts DEF Init, Fresh, Stopped, NoRow
    <2> QED BY <2>1, FrameFacts DEF Service!Init, LineMark, HasLine, Has
  <1>2. IInv /\ [Next]_vars => [Service!Next]_<<LineMark(Origin), {s \in Node : HasLine(s)}>>
    BY ServiceStep DEF Holders
  <1> QED BY <1>1, <1>2, Invariance, PTL DEF Spec, ServesLine, Service!Spec
=============================================================================
