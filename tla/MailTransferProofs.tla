------------------------- MODULE MailTransferProofs -------------------------
(***************************************************************************)
(* Theorems about MailTransfer, for any gateways, chunks and tries, and    *)
(* any number of losses, faults and presses of Retry.                      *)
(***************************************************************************)
EXTENDS MailTransfer, SequenceTheorems, TLAPS

\* What the records hold; no more of their fields is needed below.
IsRow(r) ==
  r = [state |-> r.state, retries |-> r.retries, got |-> r.got, sized |-> r.sized]
IsGate(b) ==
  b = [heard |-> b.heard, bucket |-> b.bucket, dest |-> b.dest, knows |-> b.knows,
       ready |-> b.ready, quiet |-> b.quiet, reack |-> b.reack, at |-> b.at]
IsInbox(q) == \E S : q \in Seq(S)

HasOk == \E i \in DOMAIN inbox : inbox[i].kind = "ok"
Sent == row.state = "sent" \/ HasOk
Taken == \E g \in Gateway : hub.taken[g] > 0

Shapes ==
  /\ IsRow(row) /\ IsInbox(inbox)
  /\ gate = [g \in Gateway |-> gate[g]] /\ \A g \in Gateway : IsGate(gate[g])
  /\ hub \in [row : BOOLEAN, taken : [Gateway -> Nat], cut : BOOLEAN]

\* A mail that Resend took of a gateway is one the hub knows, or is about to.
Once ==
  \A g \in Gateway : hub.cut = FALSE =>
    /\ gate[g].at = "resend" => hub.taken[g] = 0
    /\ hub.taken[g] <= 1
    /\ hub.taken[g] > 0 => gate[g].at = "record" \/ hub.row = TRUE

\* Who knows that the mail was accepted, knows it of Resend; and what a burst
\* meanwhile was told of, the mail task has yet to handle.
TakenFirst ==
  /\ hub.row = TRUE \/ relay # {} \/ Sent => Taken
  /\ \A g \in Gateway :
       gate[g].at \in {"record", "accepted", "ok"} \/ gate[g].reack = TRUE => Taken
HeardLater == ~TaskFree /\ row.state = "sent" => HasOk

IInv == Shapes /\ Once /\ TakenFirst /\ HeardLater

-----------------------------------------------------------------------------
\* The records' moves.
LEMMA RowMoves ==
  ASSUME NEW r, IsRow(r), NEW x
  PROVE  /\ IsRow([r EXCEPT !.state = x]) /\ [r EXCEPT !.state = x].state = x
         /\ IsRow([r EXCEPT !.sized = x]) /\ [r EXCEPT !.sized = x].state = r.state
BY DEF IsRow

-----------------------------------------------------------------------------
\* What the mail task and the station's clock do to a mail.
StationStep ==
  Sending \/ Keying \/ Answered \/ AckWait \/ StartAsk \/ AskDone \/ PickAges \/ Retry \/ Restart

\* What such a step leaves: a mail is not taken for sent that was not, and one
\* that was is so still, or fails.
Leaves ==
  /\ IsRow(row') /\ IsInbox(inbox') /\ HeardLater'
  /\ Sent' => Sent
  /\ Sent => Sent' \/ row'.state = "failed"

\* The mail task moves a mail that it does not hold for sent.
LEMMA MovesOn ==
  ASSUME IInv, inbox' = inbox, IsRow(row'), row'.state # "sent",
         row.state # "sent" \/ HasOk \/ row'.state = "failed"
  PROVE  Leaves
<1>1. HasOk' <=> HasOk
  BY DEF HasOk
<1>2. IsInbox(inbox')
  BY DEF IInv, Shapes
<1>3. HeardLater'
  BY DEF HeardLater
<1>4. Sent' => Sent
  BY <1>1 DEF Sent
<1>5. Sent => Sent' \/ row'.state = "failed"
  <2>1. CASE HasOk
    BY <1>1, <2>1 DEF Sent
  <2>2. CASE ~HasOk
    BY <2>2 DEF Sent
  <2> QED BY <2>1, <2>2
<1> QED BY <1>2, <1>3, <1>4, <1>5 DEF Leaves

\* It leaves the mail alone.
LEMMA LeavesIt ==
  ASSUME IInv, inbox' = inbox, row' = row, lease' = lease \/ lease' = NoLease
  PROVE  Leaves
<1>1. TaskFree => (TaskFree)'
  BY DEF TaskFree, NoLease
<1> QED BY <1>1 DEF IInv, Shapes, Leaves, HeardLater, Sent, HasOk

LEMMA Fails ==
  ASSUME IInv, inbox' = inbox, FailMail(row)
  PROVE  Leaves
<1>1. IsRow(row) /\ row' = [row EXCEPT !.state = "failed"]
  BY DEF FailMail, IInv, Shapes
<1>2. IsRow(row') /\ row'.state = "failed"
  BY <1>1, RowMoves
<1> QED BY <1>2, MovesOn

LEMMA GivesUp ==
  ASSUME NEW r, IsRow(r), GiveUp(r)
  PROVE  IsRow(row') /\ row'.state \in {"failed", "queued", "locating"}
<1>1. CASE row' = [r EXCEPT !.state = "failed"]
  BY <1>1, RowMoves
<1>2. IsRow(ResetForGateway(r)) /\ ResetForGateway(r).state = "queued"
  BY DEF ResetForGateway, IsRow
<1>3. CASE row' = ResetForGateway(r)
  BY <1>2, <1>3
<1>4. CASE row' = [ResetForGateway(r) EXCEPT !.state = "locating"]
  BY <1>2, <1>4, RowMoves
<1> QED BY <1>1, <1>3, <1>4 DEF GiveUp

LEMMA Sends ==
  ASSUME IInv, Sending
  PROVE  Leaves
<1>0. IsRow(row)
  BY DEF IInv, Shapes
<1>1. CASE SendFinished
  BY <1>1, LeavesIt DEF SendFinished
<1>2. CASE SendLocates
  <2>1. IsRow(row') /\ row'.state = "locating" /\ row.state # "sent" /\ inbox' = inbox
    BY <1>0, <1>2, RowMoves DEF SendLocates, Finished
  <2> QED BY <2>1, MovesOn
<1>3. CASE SendRouted
  <2>1. row.state # "sent" /\ inbox' = inbox
    BY <1>3 DEF SendRouted, Finished
  <2>2. CASE FailMail(row)
    BY <2>1, <2>2, Fails
  <2>3. ASSUME NEW gw, RfSend(row, gw) PROVE Leaves
    <3>1. IsRow(row') /\ row'.state = row.state
      BY <1>0, <2>3, RowMoves DEF RfSend
    <3> QED BY <2>1, <3>1, MovesOn
  <2> QED BY <1>3, <2>2, <2>3 DEF SendRouted
<1> QED BY <1>1, <1>2, <1>3 DEF Sending

LEMMA KeysIt ==
  ASSUME IInv, Keying
  PROVE  Leaves
<1>0. IsRow(row)
  BY DEF IInv, Shapes
<1>1. CASE Key
  <2>1. IsRow(row') /\ row'.state = "tx" /\ row.state # "sent" /\ inbox' = inbox
    BY <1>0, <1>1, RowMoves DEF Key, Finished
  <2> QED BY <2>1, MovesOn
<1>2. CASE KeyNothing
  BY <1>2, LeavesIt DEF KeyNothing
<1>3. CASE KeyHeld
  <2>1. IsRow(row') /\ row'.state = "queued" /\ row.state # "sent" /\ inbox' = inbox
    BY <1>0, <1>3, RowMoves DEF KeyHeld, Finished
  <2> QED BY <2>1, MovesOn
<1>4. CASE KeyFails
  <2>1. inbox' = inbox /\ (row.state # "sent" \/ HasOk)
    BY <1>4 DEF KeyFails, IInv, HeardLater
  <2>2. CASE FailMail(row)
    BY <2>1, <2>2, Fails
  <2>3. PICK r : r = [row EXCEPT !.retries = @ + 1, !.state = "queued"]
    OBVIOUS
  <2>4. IsRow(r) /\ r.state = "queued"
    BY <1>0, <2>3 DEF IsRow
  <2>5. CASE row' = r
    BY <2>1, <2>4, <2>5, MovesOn
  <2>6. CASE GiveUp(r)
    <3>1. IsRow(row') /\ row'.state # "sent"
      BY <2>4, <2>6, GivesUp
    <3> QED BY <2>1, <3>1, MovesOn
  <2> QED BY <1>4, <2>2, <2>3, <2>5, <2>6 DEF KeyFails
<1> QED BY <1>1, <1>2, <1>3, <1>4 DEF Keying

LEMMA Waits ==
  ASSUME IInv, AckWait
  PROVE  Leaves
<1>0. IsRow(row) /\ inbox' = inbox
  BY DEF IInv, Shapes, AckWait
<1>1. CASE UNCHANGED <<row, lease>>
  BY <1>0, <1>1, LeavesIt
<1>2. CASE FailMail(row)
  BY <1>0, <1>2, Fails
<1>3. CASE row.state \in {"queued", "locating", "tx"} /\ GiveUp(row)
  <2>1. IsRow(row') /\ row'.state # "sent"
    BY <1>0, <1>3, GivesUp
  <2> QED BY <1>0, <1>3, <2>1, MovesOn
<1>4. CASE /\ row.state \in {"queued", "locating", "tx"}
           /\ RfSend([row EXCEPT !.retries = @ + 1, !.state = "queued"], via[Len(via)])
  <2>3. PICK r : r = [row EXCEPT !.retries = @ + 1, !.state = "queued"]
    OBVIOUS
  <2>4. IsRow(r) /\ r.state = "queued"
    BY <1>0, <2>3 DEF IsRow
  <2>5. row' = [r EXCEPT !.sized = TRUE]
    BY <1>4, <2>3 DEF RfSend
  <2>6. IsRow(row') /\ row'.state = "queued"
    BY <2>4, <2>5, RowMoves
  <2> QED BY <1>0, <1>4, <2>6, MovesOn
<1> QED BY <1>1, <1>2, <1>3, <1>4 DEF AckWait

LEMMA Handles ==
  ASSUME IInv, Answered
  PROVE  Leaves
<1>0. IsRow(row) /\ IsInbox(inbox)
  BY DEF IInv, Shapes
<1>1. TaskFree /\ inbox # <<>> /\ inbox' = Tail(inbox) /\ lease' = lease
  BY DEF Answered, AcceptMail, RejectMail, HaveReport, AnswerOf
<1>2. PICK S : inbox \in Seq(S)
  BY <1>0 DEF IsInbox
<1>3. /\ inbox' \in Seq(S) /\ Len(inbox') = Len(inbox) - 1 /\ Len(inbox) \in Nat
      /\ \A i \in 1..Len(inbox') : inbox'[i] = inbox[i + 1]
      /\ DOMAIN inbox = 1..Len(inbox) /\ DOMAIN inbox' = 1..Len(inbox')
      /\ Head(inbox) = inbox[1]
  BY <1>1, <1>2, HeadTailProperties, LenProperties
<1>4. IsInbox(inbox') /\ HeardLater'
  BY <1>1, <1>3 DEF IsInbox, HeardLater, TaskFree
<1>5. 1 \in DOMAIN inbox
  BY <1>1, <1>2, <1>3, EmptySeq
<1>6. HasOk' => HasOk
  <2> SUFFICES ASSUME NEW i \in DOMAIN inbox', inbox'[i].kind = "ok" PROVE HasOk
    BY DEF HasOk
  <2>1. i + 1 \in DOMAIN inbox /\ inbox[i + 1].kind = "ok"
    BY <1>3
  <2> QED BY <2>1 DEF HasOk
<1>7. CASE AcceptMail
  <2>1. IsRow(row') /\ row'.state = "sent"
    BY <1>0, <1>7, RowMoves DEF AcceptMail
  <2>2. HasOk
    BY <1>3, <1>5, <1>7 DEF AcceptMail, AnswerOf, HasOk
  <2> QED BY <1>4, <2>1, <2>2 DEF Leaves, Sent
<1>8. CASE RejectMail
  <2>1. IsRow(row') /\ row'.state = "failed"
    BY <1>0, <1>8, RowMoves DEF RejectMail, FailMail
  <2> QED BY <1>4, <1>6, <2>1 DEF Leaves, Sent
<1>9. CASE HaveReport
  <2>1. /\ IsRow(row') /\ (row'.state = "sent" => row.state = "sent")
        /\ (row.state = "sent" => row'.state = "sent")
    <3>1. PICK got, state : /\ row' = [row EXCEPT !.got = got, !.state = state]
                            /\ state \in {row.state, AtGateway}
                            /\ state # row.state => ~Finished(row.state)
      BY <1>9 DEF HaveReport
    <3>2. IsRow(row') /\ row'.state = state
      BY <1>0, <3>1 DEF IsRow
    <3> QED BY <3>1, <3>2 DEF Finished, AtGateway
  <2>2. HasOk => HasOk'
    <3> SUFFICES ASSUME NEW i \in DOMAIN inbox, inbox[i].kind = "ok" PROVE HasOk'
      BY DEF HasOk
    <3>1. inbox[1].kind = "have"
      BY <1>3, <1>9 DEF HaveReport, AnswerOf
    <3>2. i # 1
      BY <3>1
    <3>3. i - 1 \in DOMAIN inbox' /\ inbox'[i - 1] = inbox[i]
      BY <1>3, <3>2
    <3> QED BY <3>3 DEF HasOk
  <2> QED BY <1>4, <1>6, <2>1, <2>2 DEF Leaves, Sent
<1> QED BY <1>7, <1>8, <1>9 DEF Answered

LEMMA Asks ==
  ASSUME IInv, StartAsk \/ AskDone \/ PickAges \/ Retry
  PROVE  Leaves
<1>0. IsRow(row) /\ inbox' = inbox /\ lease' = lease
  BY DEF IInv, Shapes, StartAsk, AskDone, PickAges, Retry
<1>1. CASE FailMail(row)
  BY <1>0, <1>1, Fails
<1>2. CASE row' = row
  BY <1>0, <1>2, LeavesIt
<1>3. CASE Retry
  <2>1. IsRow(row') /\ row'.state = "queued" /\ row.state # "sent"
    BY <1>0, <1>3 DEF Retry, IsRow
  <2> QED BY <1>0, <2>1, MovesOn
<1> QED BY <1>1, <1>2, <1>3 DEF StartAsk, AskDone, PickAges

LEMMA Restarts ==
  ASSUME IInv, Restart
  PROVE  Leaves
<1>0. IsRow(row)
  BY DEF IInv, Shapes
<1>1. IsRow(row') /\ row'.state = IF row.state = "sent" THEN "sent" ELSE "failed"
  <2>1. CASE row.state = "sent"
    BY <1>0, <2>1 DEF Restart, FailUnfinished
  <2>2. CASE row.state # "sent"
    BY <1>0, <2>2, RowMoves DEF Restart, FailUnfinished
  <2> QED BY <2>1, <2>2
<1>2. IsInbox(inbox') /\ ~HasOk' /\ (TaskFree)'
  BY DEF Restart, IsInbox, HasOk, TaskFree, NoLease
<1> QED BY <1>1, <1>2 DEF Leaves, HeardLater, Sent

LEMMA StationLeaves ==
  ASSUME IInv, StationStep
  PROVE  Leaves
BY Sends, KeysIt, Waits, Handles, Asks, Restarts DEF StationStep

-----------------------------------------------------------------------------
\* The gateways: one has a new slot b, or all hear something.
GatesAre == gate = [g \in Gateway |-> gate[g]] /\ \A g \in Gateway : IsGate(gate[g])

LEMMA SlotMoves ==
  ASSUME IInv, NEW g \in Gateway, NEW b, IsGate(b), gate' = [gate EXCEPT ![g] = b]
  PROVE  GatesAre' /\ gate'[g] = b /\ \A h \in Gateway \ {g} : gate'[h] = gate[h]
BY DEF IInv, Shapes, GatesAre

LEMMA AtMoves ==
  ASSUME IInv, NEW g \in Gateway, NEW to, gate' = [gate EXCEPT ![g].at = to]
  PROVE  /\ GatesAre' /\ gate'[g].at = to /\ gate'[g].reack = gate[g].reack
         /\ \A h \in Gateway \ {g} : gate'[h] = gate[h]
<1>1. PICK b : b = [gate[g] EXCEPT !.at = to]
  OBVIOUS
<1>2. IsGate(b) /\ b.at = to /\ b.reack = gate[g].reack
  <2>1. IsGate(gate[g])
    BY DEF IInv, Shapes
  <2> QED BY <1>1, <2>1 DEF IsGate
<1>3. gate' = [gate EXCEPT ![g] = b]
  BY <1>1
<1> QED BY <1>2, <1>3, SlotMoves

\* Where the gateways are with the mail is not touched.
LEMMA GatesStay ==
  ASSUME IInv, Leaves, GatesAre', hub' = hub, relay' = relay,
         \A g \in Gateway : gate'[g].at = gate[g].at /\ gate'[g].reack = gate[g].reack
  PROVE  IInv'
<1>1. Shapes'
  BY DEF IInv, Shapes, GatesAre, Leaves
<1>2. Once'
  BY DEF IInv, Once
<1>3. Taken' <=> Taken
  BY DEF Taken
<1>4. TakenFirst'
  BY <1>3 DEF IInv, TakenFirst, Leaves
<1> QED BY <1>1, <1>2, <1>4 DEF IInv, Leaves

LEMMA Stations ==
  ASSUME IInv, StationStep
  PROVE  IInv'
<1>0. Leaves
  BY StationLeaves
<1>1. CASE Key
  <2>1. PICK heard : HeardBy(heard)
    BY <1>1 DEF Key
  <2>2. \A g \in Gateway : /\ IsGate(gate'[g]) /\ gate'[g].at = gate[g].at
                           /\ gate'[g].reack = gate[g].reack
    <3> SUFFICES ASSUME NEW g \in Gateway
                 PROVE  /\ IsGate(gate'[g]) /\ gate'[g].at = gate[g].at
                        /\ gate'[g].reack = gate[g].reack
      OBVIOUS
    <3>1. IsGate(gate[g])
      BY DEF IInv, Shapes
    <3>2. CASE heard[g] = {}
      BY <2>1, <3>1, <3>2 DEF HeardBy
    <3>3. CASE heard[g] # {}
      <4>1. PICK x : gate'[g] = [gate[g] EXCEPT !.heard = x]
        BY <2>1, <3>3 DEF HeardBy
      <4> QED BY <3>1, <4>1 DEF IsGate
    <3> QED BY <3>2, <3>3
  <2>3. GatesAre'
    BY <2>1, <2>2 DEF HeardBy, GatesAre
  <2> QED BY <1>0, <1>1, <2>2, <2>3, GatesStay DEF Key
<1>2. CASE ~Key
  <2>1. gate' = gate /\ hub' = hub /\ relay' = relay
    BY <1>2 DEF StationStep, Sending, SendFinished, SendLocates, SendRouted, Keying, KeyNothing,
       KeyHeld, KeyFails, Answered, AcceptMail, RejectMail, HaveReport, AnswerOf, AckWait,
       StartAsk, AskDone, PickAges, Retry, Restart, gateways
  <2>2. GatesAre'
    BY <2>1 DEF IInv, Shapes, GatesAre
  <2> QED BY <1>0, <2>1, <2>2, GatesStay
<1> QED BY <1>1, <1>2

LEMMA Collects ==
  ASSUME NEW b, IsGate(b), NEW burst
  PROVE  IsGate(Collect(b, burst)) /\ Collect(b, burst).at = b.at
        /\ Collect(b, burst).reack = b.reack
<1>1. PICK dest, knows, quiet, bucket, ready :
        \/ Collect(b, burst) = [[b EXCEPT !.knows = knows, !.quiet = quiet, !.dest = dest]
                                  EXCEPT !.bucket = bucket]
        \/ Collect(b, burst) = [[b EXCEPT !.knows = knows, !.quiet = quiet, !.dest = dest]
                                  EXCEPT !.bucket = bucket, !.ready = ready]
  BY DEF Collect
<1> QED BY <1>1 DEF IsGate

LEMMA Hears ==
  ASSUME IInv, NEW g \in Gateway, Hear(g)
  PROVE  IInv'
<1>0. IsGate(gate[g]) /\ Leaves
  BY LeavesIt DEF IInv, Shapes, Hear, station
<1>1. PICK b, burst : /\ b = [gate[g] EXCEPT !.heard = Tail(@)] /\ burst = Head(gate[g].heard)
  OBVIOUS
<1>2. IsGate(b) /\ b.at = gate[g].at /\ b.reack = gate[g].reack
  BY <1>0, <1>1 DEF IsGate
<1>3. CASE AcceptedOrigin(g)
  <2>1. PICK c : c = [b EXCEPT !.bucket = {}, !.reack = TRUE, !.quiet = TRUE]
    OBVIOUS
  <2>2. IsGate(c) /\ c.at = gate[g].at
    BY <1>2, <2>1 DEF IsGate
  <2>3. GatesAre' /\ gate'[g] = c /\ \A h \in Gateway \ {g} : gate'[h] = gate[h]
    BY <1>1, <1>3, <2>1, <2>2, SlotMoves DEF Hear
  <2>4. Shapes' /\ hub' = hub /\ relay' = relay
    BY <1>0, <2>3 DEF Hear, IInv, Shapes, GatesAre, Leaves
  <2>5. Once'
    <3>1. \A h \in Gateway : gate'[h].at = gate[h].at
      BY <2>2, <2>3
    <3> QED BY <2>4, <3>1 DEF IInv, Once
  <2>6. TakenFirst'
    <3>1. Taken /\ Taken'
      BY <1>3, <2>4 DEF IInv, TakenFirst, Taken, AcceptedOrigin
    <3> QED BY <3>1 DEF TakenFirst
  <2> QED BY <1>0, <2>4, <2>5, <2>6 DEF IInv, Leaves
<1>4. CASE ~AcceptedOrigin(g)
  <2>1. PICK c : c = Collect(b, burst)
    OBVIOUS
  <2>2. IsGate(c) /\ c.at = gate[g].at /\ c.reack = gate[g].reack
    BY <1>2, <2>1, Collects
  <2>3. GatesAre' /\ gate'[g] = c /\ \A h \in Gateway \ {g} : gate'[h] = gate[h]
    BY <1>1, <1>4, <2>1, <2>2, SlotMoves DEF Hear
  <2>4. \A h \in Gateway : gate'[h].at = gate[h].at /\ gate'[h].reack = gate[h].reack
    BY <2>2, <2>3
  <2> QED BY <1>0, <2>3, <2>4, GatesStay DEF Hear
<1> QED BY <1>3, <1>4

\* One gateway moves and the hub does not.
LEMMA OneGate ==
  ASSUME IInv, NEW g \in Gateway, GatesAre', \A h \in Gateway \ {g} : gate'[h] = gate[h],
         IsRow(row'), IsInbox(inbox'), HeardLater', Sent' => Taken,
         hub' = hub, relay' = relay,
         gate'[g].at = "resend" => hub.cut = TRUE \/ hub.taken[g] = 0,
         hub.taken[g] > 0 => hub.cut = TRUE \/ hub.row = TRUE \/ gate'[g].at = "record",
         gate'[g].at \in {"record", "accepted", "ok"} \/ gate'[g].reack = TRUE => Taken
  PROVE  IInv'
<1>1. Shapes'
  BY DEF IInv, Shapes, GatesAre
<1>2. Once'
  <2> SUFFICES ASSUME NEW h \in Gateway, hub.cut = FALSE
               PROVE  /\ gate'[h].at = "resend" => hub.taken[h] = 0
                      /\ hub.taken[h] <= 1
                      /\ hub.taken[h] > 0 => gate'[h].at = "record" \/ hub.row = TRUE
    BY DEF Once
  <2>1. hub.taken[h] <= 1
    BY DEF IInv, Once
  <2>2. CASE h = g
    BY <2>1, <2>2
  <2>3. CASE h # g
    BY <2>3 DEF IInv, Once
  <2> QED BY <2>2, <2>3
<1>3. Taken' <=> Taken
  BY DEF Taken
<1>4. TakenFirst'
  <2>1. hub'.row = TRUE \/ relay' # {} \/ Sent' => Taken
    BY DEF IInv, TakenFirst
  <2>2. ASSUME NEW h \in Gateway,
               gate'[h].at \in {"record", "accepted", "ok"} \/ gate'[h].reack = TRUE
        PROVE  Taken
    <3>1. CASE h = g
      BY <2>2, <3>1
    <3>2. CASE h # g
      BY <2>2, <3>2 DEF IInv, TakenFirst
    <3> QED BY <3>1, <3>2
  <2> QED BY <1>3, <2>1, <2>2 DEF TakenFirst
<1> QED BY <1>1, <1>2, <1>4 DEF IInv

\* A step of a gateway or the hub leaves the station as it is.
LEMMA StationStays ==
  ASSUME IInv, UNCHANGED station
  PROVE  Leaves /\ (Sent' => Taken)
<1>1. Leaves
  BY LeavesIt DEF station
<1> QED BY <1>1 DEF Leaves, IInv, TakenFirst

\* How far a gateway is with the mail after its quiet gap.
QuietAt(g) ==
  IF gate[g].ready # AutoGw
  THEN IF ~ForUs(g) THEN "idle" ELSE IF g \in relay THEN "ok" ELSE "post"
  ELSE IF gate[g].reack THEN "ok"
  ELSE IF gate[g].bucket # {} /\ gate[g].knows THEN "have" ELSE "idle"

LEMMA QuietGap ==
  ASSUME IInv, NEW g \in Gateway, OnQuiet(g)
  PROVE  IInv'
<1>1. IsGate(gate[g])
  BY DEF IInv, Shapes
<1>2. gate' = [gate EXCEPT ![g] =
        [[gate[g] EXCEPT !.quiet = FALSE, !.ready = AutoGw, !.reack = FALSE]
          EXCEPT !.at = QuietAt(g)]]
  BY DEF OnQuiet, QuietAt
<1>12. PICK at, b :
        /\ at = QuietAt(g) /\ gate' = [gate EXCEPT ![g] = b]
        /\ b = [[gate[g] EXCEPT !.quiet = FALSE, !.ready = AutoGw, !.reack = FALSE]
                  EXCEPT !.at = at]
  BY <1>2
<1>3. at \in {"idle", "ok", "post", "have"} /\ (at = "ok" => g \in relay \/ gate[g].reack = TRUE)
  <2>1. CASE gate[g].ready # AutoGw
    BY <1>12, <2>1 DEF QuietAt
  <2>2. CASE gate[g].ready = AutoGw /\ gate[g].reack
    BY <1>12, <2>2 DEF QuietAt
  <2>3. CASE gate[g].ready = AutoGw /\ ~gate[g].reack
    BY <1>12, <2>3 DEF QuietAt
  <2> QED BY <2>1, <2>2, <2>3
<1>4. IsGate(b) /\ b.at = at /\ b.reack = FALSE
  BY <1>1, <1>12 DEF IsGate
<1>5. GatesAre' /\ gate'[g] = b /\ \A h \in Gateway \ {g} : gate'[h] = gate[h]
  <2>1. gate' = [gate EXCEPT ![g] = b]
    BY <1>12
  <2> QED BY <1>4, <2>1, SlotMoves
<1>6. at = "ok" => Taken
  <2>1. g \in relay => Taken
    BY DEF IInv, TakenFirst
  <2>2. gate[g].reack = TRUE => Taken
    BY DEF IInv, TakenFirst
  <2> QED BY <1>3, <2>1, <2>2
<1>7. hub.taken[g] > 0 => hub.cut = TRUE \/ hub.row = TRUE
  BY DEF IInv, Shapes, Once, OnQuiet
<1>8. hub' = hub /\ relay' = relay /\ UNCHANGED station
  BY DEF OnQuiet
<1>9. Leaves /\ (Sent' => Taken)
  BY <1>8, StationStays
<1>10. /\ gate'[g].at = "resend" => hub.cut = TRUE \/ hub.taken[g] = 0
       /\ hub.taken[g] > 0 => hub.cut = TRUE \/ hub.row = TRUE \/ gate'[g].at = "record"
       /\ gate'[g].at \in {"record", "accepted", "ok"} \/ gate'[g].reack = TRUE => Taken
  BY <1>3, <1>4, <1>5, <1>6, <1>7
<1>11. IsRow(row') /\ IsInbox(inbox') /\ HeardLater'
  BY <1>9 DEF Leaves
<1> QED BY <1>5, <1>8, <1>9, <1>10, <1>11, OneGate

LEMMA Checks ==
  ASSUME IInv, NEW g \in Gateway, HubChecks(g)
  PROVE  IInv'
<1>1. PICK to : to = IF OutStatus THEN "accepted" ELSE "resend"
  OBVIOUS
<1>2. gate[g].at = "post" /\ gate' = [gate EXCEPT ![g].at = to]
  BY <1>1 DEF HubChecks, GateStep
<1>3. /\ GatesAre' /\ gate'[g].at = to /\ gate'[g].reack = gate[g].reack
      /\ \A h \in Gateway \ {g} : gate'[h] = gate[h]
  BY <1>2, AtMoves
<1>4. hub.row \in BOOLEAN /\ hub.cut \in BOOLEAN /\ hub.taken[g] \in Nat
  BY DEF IInv, Shapes
<1>5. hub.taken[g] > 0 => hub.cut = TRUE \/ hub.row = TRUE
  BY <1>2, <1>4 DEF IInv, Once
<1>6. to = "resend" => hub.cut = TRUE \/ hub.taken[g] = 0
  BY <1>1, <1>4, <1>5 DEF OutStatus
<1>7. to = "accepted" => Taken
  BY <1>1, <1>4 DEF OutStatus, IInv, TakenFirst
<1>10. gate'[g].reack = TRUE => Taken
  BY <1>3 DEF IInv, TakenFirst
<1>8. hub' = hub /\ relay' = relay /\ UNCHANGED station
  BY DEF HubChecks
<1>9. Leaves /\ (Sent' => Taken)
  BY <1>8, StationStays
<1>11. to \in {"accepted", "resend"}
  BY <1>1
<1>12. /\ gate'[g].at = "resend" => hub.cut = TRUE \/ hub.taken[g] = 0
       /\ hub.taken[g] > 0 => hub.cut = TRUE \/ hub.row = TRUE \/ gate'[g].at = "record"
       /\ gate'[g].at \in {"record", "accepted", "ok"} \/ gate'[g].reack = TRUE => Taken
  BY <1>3, <1>5, <1>6, <1>7, <1>10, <1>11
<1>13. IsRow(row') /\ IsInbox(inbox') /\ HeardLater'
  BY <1>9 DEF Leaves
<1> QED BY <1>3, <1>8, <1>9, <1>12, <1>13, OneGate

LEMMA Takes ==
  ASSUME IInv, NEW g \in Gateway, ResendTakes(g)
  PROVE  IInv' /\ Taken'
<1>1. /\ gate[g].at = "resend" /\ gate' = [gate EXCEPT ![g].at = "record"]
      /\ hub' = [hub EXCEPT !.taken[g] = @ + 1] /\ relay' = relay /\ UNCHANGED station
  BY DEF ResendTakes, GateStep
<1>2. /\ GatesAre' /\ gate'[g].at = "record"
      /\ \A h \in Gateway \ {g} : gate'[h] = gate[h]
  BY <1>1, AtMoves
<1>3. hub \in [row : BOOLEAN, taken : [Gateway -> Nat], cut : BOOLEAN]
  BY DEF IInv, Shapes
<1>4. /\ hub' \in [row : BOOLEAN, taken : [Gateway -> Nat], cut : BOOLEAN]
      /\ hub'.row = hub.row /\ hub'.cut = hub.cut /\ hub'.taken[g] = hub.taken[g] + 1
      /\ \A h \in Gateway \ {g} : hub'.taken[h] = hub.taken[h]
  BY <1>1, <1>3
<1>5. Taken'
  <2>1. hub.taken[g] \in Nat
    BY <1>3
  <2>2. hub'.taken[g] > 0
    BY <1>4, <2>1
  <2> QED BY <2>2 DEF Taken
<1>6. Leaves
  BY <1>1, StationStays
<1>7. Shapes'
  BY <1>2, <1>4, <1>6 DEF Shapes, GatesAre, Leaves
<1>8. Once'
  <2> SUFFICES ASSUME NEW h \in Gateway, hub.cut = FALSE
               PROVE  /\ gate'[h].at = "resend" => hub'.taken[h] = 0
                      /\ hub'.taken[h] <= 1
                      /\ hub'.taken[h] > 0 => gate'[h].at = "record" \/ hub'.row = TRUE
    BY <1>4 DEF Once
  <2>1. CASE h = g
    <3>1. hub.taken[g] = 0
      BY <1>1 DEF IInv, Once
    <3> QED BY <1>2, <1>4, <2>1, <3>1
  <2>2. CASE h # g
    BY <1>2, <1>4, <2>2 DEF IInv, Once
  <2> QED BY <2>1, <2>2
<1>9. TakenFirst'
  BY <1>5 DEF TakenFirst
<1> QED BY <1>5, <1>6, <1>7, <1>8, <1>9 DEF IInv, Leaves

LEMMA Records ==
  ASSUME IInv, NEW g \in Gateway, HubRecords(g)
  PROVE  IInv' /\ (Taken' <=> Taken)
<1>1. /\ gate[g].at = "record" /\ gate' = [gate EXCEPT ![g].at = "accepted"]
      /\ hub' = [hub EXCEPT !.row = TRUE] /\ relay' = relay /\ UNCHANGED station
  BY DEF HubRecords, GateStep
<1>2. /\ GatesAre' /\ gate'[g].at = "accepted"
      /\ \A h \in Gateway \ {g} : gate'[h] = gate[h]
  BY <1>1, AtMoves
<1>3. /\ hub' \in [row : BOOLEAN, taken : [Gateway -> Nat], cut : BOOLEAN]
      /\ hub'.row = TRUE /\ hub'.cut = hub.cut /\ hub'.taken = hub.taken
  BY <1>1 DEF IInv, Shapes
<1>4. Taken /\ Taken'
  BY <1>1, <1>3 DEF IInv, TakenFirst, Taken
<1>5. Leaves
  BY <1>1, StationStays
<1>6. Shapes'
  BY <1>2, <1>3, <1>5 DEF Shapes, GatesAre, Leaves
<1>7. Once'
  <2> SUFFICES ASSUME NEW h \in Gateway, hub.cut = FALSE
               PROVE  /\ gate'[h].at = "resend" => hub.taken[h] = 0
                      /\ hub.taken[h] <= 1
    BY <1>3 DEF Once
  <2>1. CASE h = g
    BY <1>2, <2>1 DEF IInv, Once
  <2>2. CASE h # g
    BY <1>2, <2>2 DEF IInv, Once
  <2> QED BY <2>1, <2>2
<1>8. TakenFirst'
  BY <1>4 DEF TakenFirst
<1> QED BY <1>4, <1>5, <1>6, <1>7, <1>8 DEF IInv, Leaves

LEMMA Accepts ==
  ASSUME IInv, NEW g \in Gateway, Accepted(g)
  PROVE  IInv' /\ (Taken' <=> Taken)
<1>1. /\ gate[g].at = "accepted" /\ gate' = [gate EXCEPT ![g].at = "ok"]
      /\ hub' = hub /\ UNCHANGED station
  BY DEF Accepted, GateStep
<1>2. /\ GatesAre' /\ gate'[g].at = "ok" /\ \A h \in Gateway \ {g} : gate'[h] = gate[h]
  BY <1>1, AtMoves
<1>3. Taken /\ Taken'
  BY <1>1 DEF IInv, TakenFirst, Taken
<1>4. Leaves
  BY <1>1, StationStays
<1>5. Shapes'
  BY <1>1, <1>2, <1>4 DEF IInv, Shapes, GatesAre, Leaves
<1>6. Once'
  <2> SUFFICES ASSUME NEW h \in Gateway, hub.cut = FALSE
               PROVE  /\ gate'[h].at = "resend" => hub.taken[h] = 0
                      /\ hub.taken[h] <= 1
                      /\ hub.taken[h] > 0 => gate'[h].at = "record" \/ hub.row = TRUE
    BY <1>1 DEF Once
  <2>1. CASE h = g
    BY <1>1, <1>2, <2>1 DEF IInv, Once
  <2>2. CASE h # g
    BY <1>2, <2>2 DEF IInv, Once
  <2> QED BY <2>1, <2>2
<1>7. TakenFirst'
  BY <1>3 DEF TakenFirst
<1> QED BY <1>3, <1>4, <1>5, <1>6, <1>7 DEF IInv, Leaves

\* A post cut off, or a gateway that starts again.
LEMMA Drops ==
  ASSUME IInv, NEW g \in Gateway, CutIfSent(g), GatesAre', relay' = relay, UNCHANGED station,
         gate'[g].at \in {"fail", "idle"}, gate'[g].reack = TRUE => gate[g].reack = TRUE,
         \A h \in Gateway \ {g} : gate'[h] = gate[h]
  PROVE  IInv' /\ (Taken' <=> Taken)
<1>1. hub \in [row : BOOLEAN, taken : [Gateway -> Nat], cut : BOOLEAN]
  BY DEF IInv, Shapes
<1>2. PICK cut \in BOOLEAN : /\ hub' = [hub EXCEPT !.cut = cut]
                             /\ cut = FALSE => hub.cut = FALSE /\ gate[g].at # "record"
  <2>1. PICK cut : cut = (hub.cut \/ gate[g].at = "record")
    OBVIOUS
  <2>2. cut \in BOOLEAN /\ (cut = FALSE => hub.cut = FALSE /\ gate[g].at # "record")
    BY <1>1, <2>1
  <2>3. hub' = [hub EXCEPT !.cut = cut]
    BY <2>1 DEF CutIfSent
  <2> QED BY <2>2, <2>3
<1>3. /\ hub' \in [row : BOOLEAN, taken : [Gateway -> Nat], cut : BOOLEAN]
      /\ hub'.row = hub.row /\ hub'.taken = hub.taken /\ hub'.cut = cut
  BY <1>1, <1>2
<1>4. Leaves
  BY StationStays
<1>5. Shapes'
  BY <1>3, <1>4 DEF Shapes, GatesAre, Leaves
<1>6. Once'
  <2> SUFFICES ASSUME NEW h \in Gateway, cut = FALSE
               PROVE  /\ gate'[h].at = "resend" => hub.taken[h] = 0
                      /\ hub.taken[h] <= 1
                      /\ hub.taken[h] > 0 => gate'[h].at = "record" \/ hub.row = TRUE
    BY <1>3 DEF Once
  <2>0. hub.cut = FALSE /\ gate[g].at # "record"
    BY <1>2
  <2>1. CASE h = g
    BY <2>0, <2>1 DEF IInv, Once
  <2>2. CASE h # g
    BY <2>0, <2>2 DEF IInv, Once
  <2> QED BY <2>1, <2>2
<1>7. Taken' <=> Taken
  BY <1>3 DEF Taken
<1>8. TakenFirst'
  <2>1. hub'.row = TRUE \/ relay' # {} \/ Sent' => Taken
    BY <1>3, <1>4 DEF IInv, TakenFirst, Leaves
  <2>2. ASSUME NEW h \in Gateway,
               gate'[h].at \in {"record", "accepted", "ok"} \/ gate'[h].reack = TRUE
        PROVE  Taken
    <3>1. CASE h = g
      BY <2>2, <3>1 DEF IInv, TakenFirst
    <3>2. CASE h # g
      BY <2>2, <3>2 DEF IInv, TakenFirst
    <3> QED BY <3>1, <3>2
  <2> QED BY <1>7, <2>1, <2>2 DEF TakenFirst
<1> QED BY <1>4, <1>5, <1>6, <1>7, <1>8 DEF IInv, Leaves

LEMMA PostsEnd ==
  ASSUME IInv, NEW g \in Gateway, PostFails(g)
  PROVE  IInv' /\ (Taken' <=> Taken)
<1>1. /\ gate' = [gate EXCEPT ![g].at = "fail"] /\ CutIfSent(g) /\ relay' = relay
      /\ UNCHANGED station
  BY DEF PostFails
<1>2. /\ GatesAre' /\ gate'[g].at = "fail" /\ gate'[g].reack = gate[g].reack
      /\ \A h \in Gateway \ {g} : gate'[h] = gate[h]
  BY <1>1, AtMoves
<1> QED BY <1>1, <1>2, Drops

LEMMA GatewayStarts ==
  ASSUME IInv, NEW g \in Gateway, RestartGateway(g)
  PROVE  IInv' /\ (Taken' <=> Taken)
<1>1. /\ gate' = [gate EXCEPT ![g] = EmptyGate] /\ CutIfSent(g) /\ relay' = relay
      /\ UNCHANGED station
  BY DEF RestartGateway
<1>2. IsGate(EmptyGate) /\ EmptyGate.at = "idle" /\ EmptyGate.reack = FALSE
  BY DEF EmptyGate, IsGate
<1>3. GatesAre' /\ gate'[g] = EmptyGate /\ \A h \in Gateway \ {g} : gate'[h] = gate[h]
  BY <1>1, <1>2, SlotMoves
<1> QED BY <1>1, <1>2, <1>3, Drops

\* An answer that is heard: an acceptance comes from a gateway that has one.
LEMMA Replies ==
  ASSUME IInv, NEW g \in Gateway, Reply(g)
  PROVE  IInv' /\ (Sent => Sent')
<1>0. IsRow(row) /\ IsInbox(inbox)
  BY DEF IInv, Shapes
<1>1. PICK a : /\ a = [kind |-> gate[g].at,
                       bits |-> IF gate[g].at = "have" THEN gate[g].bucket ELSE {},
                       during |-> ~TaskFree]
               /\ \/ row' = Noted(a) /\ inbox' = Append(inbox, a)
                  \/ UNCHANGED <<row, inbox>>
  BY DEF Reply
<1>2. a.kind = gate[g].at /\ gate[g].at \in {"ok", "fail", "have"}
  BY <1>1 DEF Reply
<1>3. /\ gate' = [gate EXCEPT ![g].at = "idle"] /\ hub' = hub /\ relay' = relay
      /\ lease' = lease
  BY DEF Reply
<1>4. /\ GatesAre' /\ gate'[g].at = "idle" /\ gate'[g].reack = gate[g].reack
      /\ \A h \in Gateway \ {g} : gate'[h] = gate[h]
  BY <1>3, AtMoves
<1>5. a.kind = "ok" => Taken
  BY <1>2 DEF IInv, TakenFirst
<1>6. /\ IsRow(row') /\ IsInbox(inbox') /\ HeardLater' /\ (Sent => Sent')
      /\ Sent' => Sent \/ a.kind = "ok"
  <2>1. CASE row' = Noted(a) /\ inbox' = Append(inbox, a)
    <3>1. /\ IsRow(row')
          /\ row.state = "sent" => row'.state = "sent"
          /\ row'.state = "sent" => row.state = "sent" \/ a.kind = "ok"
      <4>1. CASE row' = row
        BY <1>0, <4>1
      <4>2. CASE row' = [row EXCEPT !.got = @ \cup a.bits]
        BY <1>0, <4>2 DEF IsRow
      <4>3. CASE row' = [row EXCEPT !.state = "sent"] /\ a.kind = "ok"
        BY <1>0, <4>3, RowMoves
      <4> QED BY <2>1, <4>1, <4>2, <4>3 DEF Noted
    <3>2. PICK S : inbox \in Seq(S)
      BY <1>0 DEF IsInbox
    <3>3. inbox \in Seq(S \cup {a})
      BY <3>2, SeqMonotonic
    <3>4. /\ inbox' \in Seq(S \cup {a}) /\ Len(inbox') = Len(inbox) + 1 /\ Len(inbox) \in Nat
          /\ \A i \in 1..Len(inbox) : inbox'[i] = inbox[i]
          /\ inbox'[Len(inbox) + 1] = a
          /\ DOMAIN inbox = 1..Len(inbox) /\ DOMAIN inbox' = 1..Len(inbox')
      BY <2>1, <3>3, AppendProperties, LenProperties
    <3>5. HasOk => HasOk'
      <4> SUFFICES ASSUME NEW i \in DOMAIN inbox, inbox[i].kind = "ok" PROVE HasOk'
        BY DEF HasOk
      <4>1. i \in DOMAIN inbox' /\ inbox'[i] = inbox[i]
        BY <3>4
      <4> QED BY <4>1 DEF HasOk
    <3>6. HasOk' => HasOk \/ a.kind = "ok"
      <4> SUFFICES ASSUME NEW i \in DOMAIN inbox', inbox'[i].kind = "ok"
                   PROVE  HasOk \/ a.kind = "ok"
        BY DEF HasOk
      <4>1. i = Len(inbox) + 1 \/ (i \in DOMAIN inbox /\ inbox'[i] = inbox[i])
        BY <3>4
      <4> QED BY <3>4, <4>1 DEF HasOk
    <3>7. a.kind = "ok" => HasOk'
      <4>1. Len(inbox) + 1 \in DOMAIN inbox'
        BY <3>4
      <4> QED BY <3>4, <4>1 DEF HasOk
    <3>8. HeardLater'
      <4>1. TaskFree' <=> TaskFree
        BY <1>3 DEF TaskFree
      <4> QED BY <3>1, <3>5, <3>7, <4>1 DEF IInv, HeardLater
    <3>9. IsInbox(inbox')
      BY <3>4 DEF IsInbox
    <3>10. (Sent => Sent') /\ (Sent' => Sent \/ a.kind = "ok")
      BY <3>1, <3>5, <3>6 DEF Sent
    <3> QED BY <3>1, <3>8, <3>9, <3>10
  <2>2. CASE UNCHANGED <<row, inbox>>
    <3>1. Leaves
      BY <1>3, <2>2, LeavesIt
    <3>2. Sent' <=> Sent
      BY <2>2 DEF Sent, HasOk
    <3> QED BY <3>1, <3>2 DEF Leaves
  <2> QED BY <1>1, <2>1, <2>2
<1>7. Sent' => Taken
  BY <1>5, <1>6 DEF IInv, TakenFirst
<1>12. /\ gate'[g].at = "resend" => hub.cut = TRUE \/ hub.taken[g] = 0
       /\ hub.taken[g] > 0 => hub.cut = TRUE \/ hub.row = TRUE \/ gate'[g].at = "record"
       /\ gate'[g].at \in {"record", "accepted", "ok"} \/ gate'[g].reack = TRUE => Taken
  <2>1. hub.taken[g] > 0 => hub.cut = TRUE \/ hub.row = TRUE
    <3>1. hub.cut \in BOOLEAN /\ gate[g].at # "record"
      BY <1>2 DEF IInv, Shapes
    <3> QED BY <3>1 DEF IInv, Once
  <2>2. gate[g].reack = TRUE => Taken
    BY DEF IInv, TakenFirst
  <2> QED BY <1>4, <2>1, <2>2
<1> QED BY <1>3, <1>4, <1>6, <1>7, <1>12, OneGate

-----------------------------------------------------------------------------
LEMMA Inits ==
  ASSUME Init
  PROVE  IInv /\ ~Sent /\ ~Taken /\ row.state = "queued"
<1>1. Shapes
  <2>1. IsRow(row) /\ IsGate(EmptyGate)
    BY DEF Init, IsRow, IsGate, EmptyGate
  <2>2. IsInbox(inbox)
    <3>1. inbox \in Seq({})
      BY EmptySeq DEF Init
    <3> QED BY <3>1 DEF IsInbox
  <2>3. hub \in [row : BOOLEAN, taken : [Gateway -> Nat], cut : BOOLEAN]
    BY DEF Init
  <2> QED BY <2>1, <2>2, <2>3 DEF Init, Shapes
<1>2. gate = [g \in Gateway |-> EmptyGate] /\ EmptyGate.at = "idle" /\ EmptyGate.reack = FALSE
  BY DEF Init, EmptyGate
<1>3. \A g \in Gateway : hub.taken[g] = 0
  BY DEF Init
<1>4. hub.row = FALSE /\ relay = {} /\ lease.plan = {} /\ row.state = "queued"
  BY DEF Init, NoLease
<1>5. ~HasOk
  BY DEF Init, HasOk
<1>6. Once
  BY <1>2, <1>3 DEF Once
<1>7. ~Sent
  BY <1>4, <1>5 DEF Sent
<1>8. TakenFirst
  BY <1>2, <1>4, <1>7 DEF TakenFirst
<1>9. HeardLater
  BY <1>4 DEF HeardLater
<1>10. ~Taken
  BY <1>3 DEF Taken
<1> QED BY <1>1, <1>4, <1>6, <1>7, <1>8, <1>9, <1>10 DEF IInv

LEMMA Steps ==
  ASSUME IInv, [Next]_vars
  PROVE  IInv'
<1>1. CASE UNCHANGED vars
  <2>1. Leaves /\ gate' = gate /\ hub' = hub /\ relay' = relay
    BY <1>1, StationStays DEF vars, gateways
  <2>2. GatesAre'
    BY <2>1 DEF IInv, Shapes, GatesAre
  <2> QED BY <2>1, <2>2, GatesStay
<1>2. CASE StationStep
  BY <1>2, Stations
<1>3. ASSUME NEW g \in Gateway, AtTheGateway(g) PROVE IInv'
  BY <1>3, Hears, QuietGap, Checks, Takes, Records, Accepts DEF AtTheGateway
<1>4. ASSUME NEW g \in Gateway, Reply(g) \/ PostFails(g) \/ RestartGateway(g) PROVE IInv'
  BY <1>4, Replies, PostsEnd, GatewayStarts
<1> QED BY <1>1, <1>2, <1>3, <1>4 DEF Next, StationStep

LEMMA Held == Spec => []IInv
<1>1. Init => IInv
  BY Inits
<1>2. IInv /\ [Next]_vars => IInv'
  BY Steps
<1> QED BY <1>1, <1>2, PTL DEF Spec

\* Whatever is repeated, lost, fails or starts again: a gateway has Resend send
\* the mail once, unless its post was cut off after Resend took it (post_send).
THEOREM PostedOnce == Spec => []PostedOncePerGateway
<1>1. IInv => PostedOncePerGateway
  <2> SUFFICES ASSUME IInv, NEW g \in Gateway PROVE hub.taken[g] <= 1 \/ hub.cut
    BY DEF PostedOncePerGateway
  <2>1. hub.cut \in BOOLEAN
    BY DEF IInv, Shapes
  <2>2. CASE hub.cut = FALSE
    BY <2>2 DEF IInv, Once
  <2>3. CASE hub.cut = TRUE
    BY <2>3
  <2> QED BY <2>1, <2>2, <2>3
<1> QED BY <1>1, Held, PTL

-----------------------------------------------------------------------------
\* What the writer is shown.
LEMMA Shows ==
  /\ Shown = "sent" <=> Sent
  /\ Shown = "failed" <=> ~Sent /\ row.state = "failed"
  /\ Shown \in {"sent", "failed", "waiting"}
BY DEF Shown, Sent, HasOk

LEMMA Shows2 ==
  /\ Shown' = "sent" <=> Sent'
  /\ Shown' = "failed" <=> ~Sent' /\ row'.state = "failed"
  /\ Shown' \in {"sent", "failed", "waiting"}
BY DEF Shown, Sent, HasOk

LEMMA ServesOn ==
  ASSUME IInv, IInv', Taken' <=> Taken, Sent => Sent' \/ row'.state = "failed"
  PROVE  [Service!Next]_<<Shown, Taken>>
<1>0. Taken' = Taken
  OBVIOUS
<1>1. CASE Shown' = "sent"
  <2>1. Sent' /\ Taken
    BY <1>1, Shows2 DEF IInv, TakenFirst
  <2> QED BY <1>0, <1>1, <2>1 DEF Service!Next, Service!Confirm, Taken
<1>2. CASE Shown' = "failed"
  BY <1>0, <1>2 DEF Service!Next, Service!Fail, Taken
<1>3. CASE Shown' = "waiting"
  <2>1. ~Sent' /\ row'.state # "failed"
    BY <1>3, Shows2
  <2>2. Shown \in {"failed", "waiting"}
    BY <2>1, Shows
  <2>3. CASE Shown = "failed"
    BY <1>0, <1>3, <2>3 DEF Service!Next, Service!Retry, Taken
  <2>4. CASE Shown = "waiting"
    BY <1>0, <1>3, <2>4
  <2> QED BY <2>2, <2>3, <2>4
<1> QED BY <1>1, <1>2, <1>3, Shows2

LEMMA StepServes ==
  ASSUME IInv, [Next]_vars
  PROVE  [Service!Next]_<<Shown, Taken>>
<1>0. IInv'
  BY Steps
<1>1. CASE UNCHANGED station /\ (Taken' <=> Taken)
  <2>1. Sent => Sent' \/ row'.state = "failed"
    BY <1>1, StationStays DEF Leaves
  <2> QED BY <1>0, <1>1, <2>1, ServesOn
<1>2. CASE UNCHANGED vars
  BY <1>1, <1>2 DEF vars, gateways, Taken
<1>3. CASE StationStep
  <2>1. Sent => Sent' \/ row'.state = "failed"
    BY <1>3, StationLeaves DEF Leaves
  <2>2. hub' = hub
    BY <1>3 DEF StationStep, Sending, SendFinished, SendLocates, SendRouted, Keying, Key,
       KeyNothing,
       KeyHeld, KeyFails, Answered, AcceptMail, RejectMail, HaveReport, AnswerOf, AckWait,
       StartAsk, AskDone, PickAges, Retry, Restart, gateways
  <2>3. Taken' <=> Taken
    BY <2>2 DEF Taken
  <2> QED BY <1>0, <2>1, <2>3, ServesOn
<1>4. ASSUME NEW g \in Gateway, Reply(g) PROVE [Service!Next]_<<Shown, Taken>>
  <2>1. Sent => Sent'
    BY <1>4, Replies
  <2>2. Taken' <=> Taken
    BY <1>4 DEF Reply, Taken
  <2> QED BY <1>0, <2>1, <2>2, ServesOn
<1>5. ASSUME NEW g \in Gateway, ResendTakes(g) PROVE [Service!Next]_<<Shown, Taken>>
  <2>1. Taken'
    BY <1>5, Takes
  <2>2. UNCHANGED station
    BY <1>5 DEF ResendTakes
  <2>3. Shown' = Shown
    BY <2>2 DEF station, Shown
  <2>4. Service!Take
    BY <2>1, <2>3 DEF Service!Take, Taken
  <2> QED BY <2>4 DEF Service!Next
<1>6. ASSUME NEW g \in Gateway,
             \/ Hear(g) \/ OnQuiet(g) \/ HubChecks(g) \/ HubRecords(g) \/ Accepted(g)
             \/ PostFails(g) \/ RestartGateway(g)
      PROVE  [Service!Next]_<<Shown, Taken>>
  <2>1. UNCHANGED station
    BY <1>6 DEF Hear, OnQuiet, HubChecks, HubRecords, Accepted, PostFails, RestartGateway
  <2>2. CASE Hear(g) \/ OnQuiet(g) \/ HubChecks(g)
    <3>1. hub' = hub
      BY <2>2 DEF Hear, OnQuiet, HubChecks
    <3> QED BY <1>1, <2>1, <3>1 DEF Taken
  <2>3. CASE HubRecords(g) \/ Accepted(g) \/ PostFails(g) \/ RestartGateway(g)
    BY <1>1, <2>1, <2>3, Records, Accepts, PostsEnd, GatewayStarts
  <2> QED BY <1>6, <2>2, <2>3
<1> QED BY <1>2, <1>3, <1>4, <1>5, <1>6 DEF Next, StationStep, AtTheGateway

\* The mail task, the gateways and the hub together do what MailService says:
\* a mail is shown as sent only once Resend took it, and waits again only after
\* it was shown failed.
THEOREM Serves == Spec => ServesMail
<1>1. Init => Service!Init
  <2> SUFFICES ASSUME Init PROVE Service!Init
    OBVIOUS
  <2>1. Shown = "waiting"
    BY Inits, Shows
  <2>2. Taken = FALSE
    BY Inits
  <2> QED BY <2>1, <2>2 DEF Service!Init, Taken
<1>2. IInv /\ [Next]_vars => [Service!Next]_<<Shown, \E g \in Gateway : hub.taken[g] > 0>>
  BY StepServes DEF Taken
<1> QED BY <1>1, <1>2, Held, PTL DEF Spec, ServesMail, Service!Spec

-----------------------------------------------------------------------------
\* A report that is handled takes no acceptance away, nor the mail's being sent.
LEMMA ReportsKeep ==
  ASSUME IInv, HaveReport, Sent
  PROVE  Sent'
<1>0. IsRow(row) /\ IsInbox(inbox)
  BY DEF IInv, Shapes
<1>1. /\ inbox # <<>> /\ inbox' = Tail(inbox) /\ Head(inbox).kind = "have"
  BY DEF HaveReport, AnswerOf
<1>2. PICK S : inbox \in Seq(S)
  BY <1>0 DEF IsInbox
<1>3. /\ Len(inbox') = Len(inbox) - 1 /\ Len(inbox) \in Nat
      /\ \A i \in 1..Len(inbox') : inbox'[i] = inbox[i + 1]
      /\ DOMAIN inbox = 1..Len(inbox) /\ DOMAIN inbox' = 1..Len(inbox')
      /\ inbox[1].kind = "have"
  <2>1. inbox' \in Seq(S)
    BY <1>1, <1>2
  <2> QED BY <1>1, <1>2, <2>1, HeadTailProperties, LenProperties
<1>4. CASE HasOk
  <2>1. PICK i \in DOMAIN inbox : inbox[i].kind = "ok"
    BY <1>4 DEF HasOk
  <2>2. i # 1
    BY <1>3, <2>1
  <2>3. i - 1 \in DOMAIN inbox' /\ inbox'[i - 1] = inbox[i]
    BY <1>3, <2>2
  <2> QED BY <2>1, <2>3 DEF Sent, HasOk
<1>5. CASE row.state = "sent"
  <2>1. PICK got : row' = [row EXCEPT !.got = got, !.state = row.state]
    BY <1>5 DEF HaveReport, Finished
  <2>2. row'.state = "sent"
    BY <1>0, <1>5, <2>1 DEF IsRow
  <2> QED BY <2>2 DEF Sent
<1> QED BY <1>4, <1>5 DEF Sent

\* What the station's own steps take a sent mail's mark from.
LEMMA SentKept ==
  ASSUME IInv, StationStep, Sent, ~Sent'
  PROVE  \/ ask.after > 0 \/ (inbox # <<>> /\ Head(inbox).kind = "fail")
         \/ Restart /\ row.state # "sent"
<1>0. IsRow(row)
  BY DEF IInv, Shapes
<1>1. ASSUME inbox' = inbox
      PROVE  /\ ~HasOk /\ row.state = "sent" /\ row'.state # "sent" /\ TaskFree
             /\ row' # row /\ Finished(row.state)
  BY <1>1 DEF Sent, HasOk, IInv, HeardLater, Finished
<1>2. CASE Sending
  BY <1>1, <1>2 DEF Sending, SendFinished, SendLocates, SendRouted
<1>3. CASE Keying
  BY <1>1, <1>3 DEF Keying, Key, KeyNothing, KeyHeld, KeyFails
<1>4. CASE AckWait
  BY <1>1, <1>4 DEF AckWait
<1>5. CASE StartAsk \/ AskDone
  BY <1>1, <1>5 DEF StartAsk, AskDone
<1>6. CASE PickAges \/ Retry
  BY <1>1, <1>6 DEF PickAges, Retry
<1>7. CASE AcceptMail
  <2>1. row'.state = "sent"
    BY <1>0, <1>7, RowMoves DEF AcceptMail
  <2> QED BY <2>1 DEF Sent
<1>8. CASE RejectMail
  BY <1>8 DEF RejectMail, AnswerOf
<1>9. CASE HaveReport
  BY <1>9, ReportsKeep
<1>10. CASE Restart
  <2> SUFFICES ASSUME row.state = "sent" PROVE FALSE
    BY <1>10
  <2>1. row' = row
    BY <1>10 DEF Restart, FailUnfinished
  <2> QED BY <2>1 DEF Sent
<1> QED BY <1>2, <1>3, <1>4, <1>5, <1>6, <1>7, <1>8, <1>9, <1>10 DEF StationStep, Answered

LEMMA OthersKeep ==
  ASSUME IInv, NEW g \in Gateway, AtTheGateway(g) \/ Reply(g) \/ PostFails(g) \/ RestartGateway(g),
         Sent
  PROVE  Sent'
<1>1. CASE Reply(g)
  BY <1>1, Replies
<1>2. CASE UNCHANGED station
  BY <1>2 DEF station, Sent, HasOk
<1> QED BY <1>1, <1>2 DEF AtTheGateway, Hear, OnQuiet, HubChecks, ResendTakes, HubRecords, Accepted,
           PostFails, RestartGateway

\* A mail shown as sent stays so through bursts, reports, waits and presses, but
\* for the ways the station has to fail a mail without a look at what it heard:
\* the end of an ask that a Send waits for, another gateway's late refusal
\* (fail_mail), and a restart while the acceptance of a mail that a failed burst
\* had queued again is not handled yet (fail_unfinished).
THEOREM SentStaysSent == Spec => SentStays
<1>1. IInv /\ [Next]_vars =>
        [Shown = "sent" => \/ Shown' = "sent" \/ ask.after > 0
                           \/ inbox # <<>> /\ Head(inbox).kind = "fail"
                           \/ Restart /\ row.state # "sent"]_vars
  <2> SUFFICES ASSUME IInv, Next, Sent, ~Sent'
               PROVE  \/ ask.after > 0 \/ (inbox # <<>> /\ Head(inbox).kind = "fail")
                      \/ Restart /\ row.state # "sent"
    BY Shows, Shows2
  <2>1. CASE StationStep
    BY <2>1, SentKept
  <2>2. ASSUME NEW g \in Gateway,
               AtTheGateway(g) \/ Reply(g) \/ PostFails(g) \/ RestartGateway(g)
        PROVE  FALSE
    BY <2>2, OthersKeep
  <2> QED BY <2>1, <2>2 DEF Next, StationStep
<1> QED BY <1>1, Held, PTL DEF Spec, SentStays
=============================================================================
