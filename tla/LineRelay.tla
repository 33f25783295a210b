----------------------------- MODULE LineRelay -----------------------------
(***************************************************************************)
(* One chat line and its receipts on a radio network of wcr stations in    *)
(* `radio` mode: the store row each station keeps per frame, the receive   *)
(* handler, the hold pump, the retry (ARQ) loop, the air queue and the     *)
(* receipt tasks, over a medium that loses frames station by station.      *)
(*                                                                         *)
(* Timers are abstract: an armed hold may come due in any later step, and  *)
(* the minimum gaps (relay_due, ack_due, relay_copy_too_soon) may or may   *)
(* not have run out when they are asked.                                   *)
(***************************************************************************)
EXTENDS Delivery, RelayRules

CONSTANTS
  Node,        \* stations
  Line,        \* the line's frame id; a station's receipt has the station as id
  Origin,      \* the station that sends the line
  Dest,        \* its addressee, when the line is direct
  Members,     \* the closed group's roster, when it goes to one
  Nbr,         \* the stations that may decode what each station keys
  Dist,        \* hops between stations, as the properties measure them
  LineKind,    \* "direct", "closed" or "bulletin"
  Ttl,         \* hops the line, and each receipt, leave with
  PrioTtl,     \* the priority's own hop budget (Ttl, or less for a group)
  MaxRetries,  \* rf.max_retries
  Lossy,       \* may a station miss a frame keyed next to it?
  Overdue,     \* may a minimum gap still be running when a copy arrives?
  Patient,     \* do timers outlast what is under way on the air?
  Aware,       \* does a station's neighbour list hold all it hears?
  MaxLosses,   \* bound on frames missed, when it is not Lossy
  MaxFaults    \* bound on restarts, flushes and age limits that run out

ASSUME NetworkAssumption ==
  /\ Line \notin Node
  /\ Origin \in Node
  /\ Dest \in Node \ {Origin}
  /\ Origin \in Members /\ Members \subseteq Node
  /\ Nbr \in [Node -> SUBSET Node]
  /\ Dist \in [Node -> [Node -> Nat]]
  /\ \A s \in Node : s \notin Nbr[s]
  /\ \A a \in Node : Dist[a][a] = 0
  /\ \A a, s \in Node : \A r \in Nbr[s] : Dist[a][r] <= Dist[a][s] + 1
  /\ LineKind \in {"direct", "closed", "bulletin"}
ASSUME BoundsAssumption ==
  /\ Ttl \in Nat \ {0} /\ PrioTtl \in 1..Ttl
  /\ MaxRetries \in Nat
  /\ Lossy \in BOOLEAN /\ Overdue \in BOOLEAN /\ Patient \in BOOLEAN /\ Aware \in BOOLEAN
  /\ MaxLosses \in Nat /\ MaxFaults \in Nat

VARIABLES
  node,    \* each station's state
  inbox,   \* frames keyed and decoded, not yet handled, per station
  losses,  \* frames missed so far, counted when the medium is not Lossy
  faults   \* faults so far

vars == <<node, inbox, losses, faults>>

Frame == {Line} \cup Node
Hops == 0..Ttl

KindOf(f) == IF f = Line THEN LineKind ELSE "ack"
OriginOf(f) == IF f = Line THEN Origin ELSE f
\* A receipt goes to the line's originator; a group is nobody's callsign.
ToUs(s, f) == IF f = Line THEN LineKind = "direct" /\ s = Dest ELSE s = Origin

(***************************************************************************)
(* A station: its rows, and what it keeps only while it runs.              *)
(***************************************************************************)
Row == [mark: Mark \cup {"none"}, hops: Hops, hold: BOOLEAN,
        tries: 0..(MaxRetries + 1), supp: BOOLEAN]
NoRow == [mark |-> "none", hops |-> 0, hold |-> FALSE, tries |-> 0, supp |-> FALSE]
NewRow(m, h, armed) ==
  [mark |-> m, hops |-> h, hold |-> armed, tries |-> 0, supp |-> FALSE]

Station ==
  [row: [Frame -> Row],            \* messages table
   receipts: SUBSET Node,          \* group_receipts table, of the line
   heardAt: Hops,                  \* hops our receipt says we heard the line at
   downstream: SUBSET Frame,       \* downstream_heard
   sides: SUBSET Node,             \* AckSides: upstream ackers of the line
   copies: [Frame -> Nat],         \* relay_copies
   asked: Nat,                     \* retries_heard of the line
   keyed: Nat,                     \* own_receipts for the line
   carriedOn: BOOLEAN,             \* carried_on holds the line
   painted: BOOLEAN,               \* rl_painted holds the line
   queue: SUBSET Hops,             \* the line's copy in the air queue
   jobs: SUBSET (Node \X Hops)]    \* receipt tasks that have not keyed yet

Stopped(row, receipts, heardAt) ==
  [row |-> row, receipts |-> receipts, heardAt |-> heardAt,
   downstream |-> {}, sides |-> {}, copies |-> [f \in Frame |-> 0],
   asked |-> 0, keyed |-> 0, carriedOn |-> FALSE, painted |-> FALSE,
   queue |-> {}, jobs |-> {}]
Fresh == Stopped([f \in Frame |-> NoRow], {}, 0)

Has(n, f) == n.row[f].mark # "none"
Own(s, f) == OriginOf(f) = s

(* The store's row operations (store/mod.rs). *)
Insert(n, f, r) == IF Has(n, f) THEN n ELSE [n EXCEPT !.row[f] = r]
SetHold(n, f, armed, h) ==
  IF Has(n, f) THEN [n EXCEPT !.row[f] = [@ EXCEPT !.hold = armed, !.hops = h]] ELSE n
\* Mutant: a copy that is done stays on hold.
StaysHeld(n, f) == n
Release(n, f) == SetHold(n, f, FALSE, n.row[f].hops)
Advance(n, f, m) ==
  IF Has(n, f) /\ Advances(n.row[f].mark, m) THEN [n EXCEPT !.row[f] = [@ EXCEPT !.mark = m]] ELSE n
SetDelivery(n, f, m) ==
  IF Has(n, f) /\ SetAllowed(n.row[f].mark, m) THEN [n EXCEPT !.row[f] = [@ EXCEPT !.mark = m]] ELSE n
Suppress(n, f) ==
  IF Has(n, f) THEN [n EXCEPT !.row[f] = [@ EXCEPT !.supp = TRUE, !.hold = FALSE]] ELSE n
BumpRetry(n, f) ==
  [n EXCEPT !.row[f] = [@ EXCEPT !.tries = n.row[f].tries + 1, !.hold = TRUE]]
HoldUntil(n, f) == Has(n, f) /\ n.row[f].hold /\ ~n.row[f].supp

(* The air queue takes one copy of a line; receipts are tasks of their own. *)
\* Mutant: the queued copy is left in the air queue.
LeaveQueued(n, f) == n
Cancel(n, f) == IF f = Line THEN [n EXCEPT !.queue = {}] ELSE n
Hand(n, f) ==
  IF f = Line THEN [n EXCEPT !.queue = IF @ = {} THEN {n.row[f].hops} ELSE @]
              ELSE [n EXCEPT !.jobs = @ \cup {<<f, n.row[f].hops>>}]
Queued(n, f) == f # Line \/ n.queue = {}
\* dispatch: hand our row's frame over, and count it when it is not ours.
Dispatch(n, s, f) ==
  IF Own(s, f) \/ ~Queued(n, f) THEN Hand(n, f)
  ELSE [Hand(n, f) EXCEPT !.copies[f] = @ + 1]

(***************************************************************************)
(* What a step meets by chance.  Around: who is on the neighbour list       *)
(* (beacons get lost) and whether the station has been up long enough to   *)
(* trust it.  Gaps: the rows of others, of those a copy of f may have us    *)
(* send again, whose minimum gap has run out, and whether the gap between   *)
(* two answers of ours has.                                                *)
(***************************************************************************)
Around(s) ==
  {c \in [near: SUBSET Nbr[s], warm: BOOLEAN] :
     /\ ~c.warm => c.near = {}
     /\ Aware /\ c.warm => c.near = Nbr[s]}
Gaps(s, f) ==
  LET late == {e \in Frame : (f = Line \/ e = f) /\ Has(node[s], e) /\ ~Own(s, e)}
  IN  [ready: IF Overdue THEN SUBSET late ELSE {Frame},
       answers: IF Overdue /\ f = Line THEN BOOLEAN ELSE {TRUE}]

InitialHops(f) == IF f = Line THEN Ttl ELSE PrioTtl

\* Our copy was heard with one hop more than we store.
ReachedNeighbours(n, f, c) ==
  NeighboursHold(c.near,
    {OriginOf(f)} \cup (IF f = Line /\ LineKind = "closed" THEN n.receipts ELSE {}),
    ~IsDirectLine(KindOf(f)) /\ ~HeardFromOrigin(n.row[f].hops + 1, InitialHops(f)))

IsEcho(n, s, f, c) ==
  /\ c.warm /\ ~Own(s, f)
  /\ BulletinRelayIsEcho(FALSE, KindOf(f), HeardFromOrigin(n.row[f].hops + 1, Ttl),
                         c.near \ {OriginOf(f)})

NextToOrigin(n, f) ==
  f # Line /\ Has(n, Line) /\ HeardFromOrigin(n.row[Line].hops + 1, Ttl)

CopiesSpent(n, f) ==
  n.copies[f] >= RelayMaxCopies(KindOf(f), NextToOrigin(n, f), MaxRetries)

MayRelay(n, s, f) ==
  MayRebroadcast(KindOf(f), n.row[f].hops, Own(s, f), ToUs(s, f), n.row[f].mark)

\* Mutant: one member may be missing.
AllButOne(n) == Cardinality(Members \ n.receipts) <= 1
AllReceived(n) == Members \subseteq n.receipts
\* Mutant: the first receipt is enough.
NeverWaiting(n, f) == FALSE
GroupStillWaiting(n, f) == f = Line /\ LineKind = "closed" /\ ~AllReceived(n)
StillAwaitingAck(n, f) ==
  \/ n.row[f].mark \in Unanswered
  \/ n.row[f].mark = "delivered" /\ GroupStillWaiting(n, f)

FinishAckWalk(n, f) == Advance(SetHold(n, f, FALSE, 0), f, "delivered")

(***************************************************************************)
(* The receive handler, on_envelope with Engine::on_rx.                    *)
(***************************************************************************)

\* A frame of ours comes back: an echo, or a relay of it.
OwnFrameHeard(n, f, h) ==
  LET further == HeardFurther(h, n.row[f].hops)
      carried == IF f = Line /\ further THEN [n EXCEPT !.carriedOn = TRUE] ELSE n
      walked  == IF further
                 THEN Advance(Release([n EXCEPT !.downstream = @ \cup {f}], f), f, "delivered")
                 ELSE n
      held    == IF BulletinKeepsWalking(LineKind) /\ further
                 THEN Release(carried, Line) ELSE carried
      before  == n.row[Line].mark
      wants   == Advances(before, "relayed") \/ before \in {"delivered", "all"}
      marked  == Advance(held, Line, "relayed")
  IN  IF f # Line THEN walked
      ELSE IF n.painted THEN marked
      ELSE IF wants THEN [marked EXCEPT !.painted = TRUE]
      ELSE Cancel(marked, Line)

\* A receipt heard for the line, from the originator's side of us.
FromUpstream(n, f, lineHops) ==
  /\ f # Line
  /\ AckUpstreamByHops(Has(n, Line), n.row[Line].hops, lineHops)

\* Mutant: the hop a copy came over is not taken off.
Unspent(h) == h
\* A stored copy has one hop less than the copy that was heard.
Spent(h) == h - 1

\* on_rx, Accept: store with one hop less, mark the line a receipt answers,
\* arm our relay.
Accept(n, s, f, h, lineHops) ==
  LET stored  == Insert(n, f, NewRow("queued", Spent(h), FALSE))
      marked  == IF f # Line /\ AckMarksDelivered(Own(s, Line), LineKind)
                 THEN Advance(stored, Line, "delivered") ELSE stored
      forUs   == IF f # Line /\ ToUs(s, f) THEN Advance(marked, f, "relayed") ELSE marked
      up      == FromUpstream(forUs, f, lineHops)
      sided   == IF up THEN [forUs EXCEPT !.sides = @ \cup {f}] ELSE forUs
  IN  IF MayRelay(sided, s, f) /\ ~up THEN SetHold(sided, f, TRUE, Spent(h)) ELSE sided

\* acknowledge: our receipt, with the line's hop budget.  It walks home by
\* retries of its own unless the originator itself was heard.
Acknowledge(n, s, h) ==
  [Insert(n, s, NewRow("sent", Ttl, ~HeardFromOrigin(h, Ttl))) EXCEPT
     !.heardAt = h, !.keyed = @ + 1, !.jobs = @ \cup {<<s, Ttl>>}]

\* Mutant: a relay station answers a direct line too.
AnswersAny(s, h) == AcksLine(LineKind, h, Ttl)
Answers(s, h) ==
  /\ CASE LineKind = "direct"   -> s = Dest
       [] LineKind = "closed"   -> s \in Members
       [] LineKind = "bulletin" -> TRUE
  /\ AcksLine(LineKind, h, Ttl)

\* First copy of the line: show it, answer it, note who has it.
LineArrived(n, s, h) ==
  LET answered == IF Answers(s, h) THEN Acknowledge(n, s, h) ELSE n
      noted    == [answered EXCEPT !.receipts = @ \cup {Origin}]
  IN  IF LineKind # "closed" \/ s \notin Members THEN answered
      ELSE IF AllReceived(noted) THEN SetDelivery(noted, Line, "all") ELSE noted

\* First copy of a receipt.
AckArrived(n, s, f, c) ==
  LET ended   == IF Has(n, Line) /\ AckEndsRelay(LineKind, f = Dest)
                 THEN [n EXCEPT !.downstream = @ \cup {Line}] ELSE n
      marked  == IF AckMarksDelivered(Own(s, Line), LineKind)
                 THEN Advance(ended, Line, "delivered") ELSE ended
      closed  == LineKind = "closed" /\ Has(n, Line)
      noted   == IF closed THEN [marked EXCEPT !.receipts = @ \cup {f, s}] ELSE marked
      alled   == IF closed /\ AllReceived(noted) THEN Advance(noted, Line, "all") ELSE noted
      pruned  == IF /\ closed /\ ~Own(s, Line)
                    /\ QueuedRepeatUnneeded(alled.row[Line].tries)
                    /\ ReachedNeighbours(alled, Line, c)
                 THEN Cancel(Release(alled, Line), Line) ELSE alled
      keep    == \/ closed /\ GroupStillWaiting(pruned, Line)
                 \/ Has(n, Line) /\ ~Own(s, Line) /\ BulletinKeepsWalking(LineKind)
  IN  IF keep THEN pruned
      ELSE Cancel(SetHold(pruned, Line, FALSE,
                          IF Own(s, Line) THEN 0 ELSE pruned.row[Line].hops), Line)

\* The receipts of others we hold for the line go once more, each whose gap
\* has run out; one with a repeat still to come sends that repeat instead.
ResendHeldAcks(n, s, g) ==
  LET resent == {a \in (Node \ {s}) \cap g.ready :
                   /\ Has(n, a) /\ n.row[a].hops > 0
                   /\ a \notin n.downstream /\ a \notin n.sides
                   /\ ~HoldUntil(n, a)
                   /\ MayRelay(n, s, a)
                   /\ ~CopiesSpent(n, a)}
  IN  [n EXCEPT !.jobs = @ \cup {<<a, n.row[a].hops>> : a \in resent},
                !.copies = [f \in Frame |-> IF f \in resent THEN @[f] + 1 ELSE @[f]]]

\* A later copy of a frame we hold: a relay further on ends our walk, a
\* retry from the originator's side is passed on.
RelayHeardRetry(n, s, f, h, c, g) ==
  LET walks  == f # Line \/ KeepsWalking(LineKind) \/ ClosedGroupWalks(LineKind)
      heard  == [n EXCEPT !.downstream = @ \cup {f}]
      resent == IF f = Line THEN ResendHeldAcks(n, s, g) ELSE n
      passes == /\ RetryPassesOn(KindOf(f), f \in n.downstream, GroupStillWaiting(n, f))
                /\ ~ReachedNeighbours(resent, f, c)
                /\ ~IsEcho(resent, s, f, c)
                /\ ~CopiesSpent(resent, f)
                /\ MayRelay(resent, s, f)
                /\ f \in g.ready
  IN  IF HeardFurther(h, n.row[f].hops)
      THEN IF walks THEN Cancel(Release(heard, f), f) ELSE heard
      ELSE IF \/ ~OriginRetry(h, n.row[f].hops)
              \/ f \in n.sides
              \/ f # Line /\ n.copies[f] > 0
           THEN n
      ELSE IF passes THEN Dispatch(resent, s, f) ELSE resent

OwnReceiptWalking(n, s) ==
  HoldUntil(n, s) /\ AckWalkContinues(s \in n.downstream, n.row[s].tries, MaxRetries)

\* The sender is still waiting for our receipt: key the one we have again.
AnswerAgain(n, s, h) ==
  IF Has(n, s)
  THEN [n EXCEPT !.downstream = @ \ {s}, !.keyed = @ + 1,
                 !.jobs = @ \cup {<<s, n.row[s].hops>>}]
  ELSE Acknowledge(n, s, h)

\* A retry of a frame we already handled.
MaybeAnswerRetry(n, s, f, h, c, g) ==
  LET member   == s \in Members
      forUs    == \/ LineKind = "direct" /\ s = Dest
                  \/ LineKind = "bulletin"
                  \/ LineKind = "closed" /\ member
      wanted   == forUs /\ CopyWantsNewAck(h, n.row[f].hops) /\ ~OwnReceiptWalking(n, s)
      counted  == IF wanted THEN [n EXCEPT !.asked = @ + 1] ELSE n
      answered == IF /\ wanted /\ g.answers
                     /\ OwnReceiptAllowed(counted.keyed, counted.asked)
                  THEN AnswerAgain(counted, s, h) ELSE counted
  IN  IF f # Line \/ ~AcksLine(LineKind, h, Ttl) THEN RelayHeardRetry(n, s, f, h, c, g)
      ELSE IF LineKind = "closed" /\ ~member THEN answered
      ELSE RelayHeardRetry(answered, s, f, h, c, g)

\* A frame with h hops left, decoded at s.  lineHops is what a receipt's body
\* says of where its sender heard the line.
OnEnvelope(n, s, f, h, lineHops, c, g) ==
  LET action == Decide(Has(n, f), h, n.row[f].mark \in {"queued", "sent"})
      taken  == CASE action = "accept"    -> Accept(n, s, f, h, lineHops)
                  [] action = "dropRelay" -> Insert(n, f, NewRow("queued", 0, FALSE))
                  [] action = "suppress"  ->
                       IF DuplicateSuppresses(KindOf(f), h, n.row[f].hops)
                       THEN Cancel(Advance(Suppress(n, f), f, "relayed"), f) ELSE n
                  [] action = "ignore"    -> n
  IN  IF Own(s, f) THEN OwnFrameHeard(n, f, h)
      ELSE IF action \in {"suppress", "ignore"} THEN MaybeAnswerRetry(taken, s, f, h, c, g)
      ELSE IF f = Line THEN LineArrived(taken, s, h)
      ELSE AckArrived(taken, s, f, c)

-----------------------------------------------------------------------------
(***************************************************************************)
(* Steps.                                                                  *)
(***************************************************************************)
Init ==
  /\ node = [s \in Node |-> Fresh]
  /\ inbox = [s \in Node |-> {}]
  /\ losses = 0 /\ faults = 0

Becomes(s, n) == node' = [node EXCEPT ![s] = n]

\* send_chat: store, hand to the air queue, [tx], arm the first retry.
SendLine ==
  LET stored == Insert(node[Origin], Line, NewRow("queued", Ttl, FALSE))
      sent   == SetDelivery(Dispatch(stored, Origin, Line), Line, "sent")
  IN  /\ ~Has(node[Origin], Line)
      /\ Becomes(Origin, SetHold(sent, Line, TRUE, Ttl))
      /\ UNCHANGED <<inbox, losses, faults>>

\* A frame is keyed at s: each neighbour decodes it or misses it.
Misses(s, heard) ==
  IF Lossy \/ heard = Nbr[s] THEN UNCHANGED losses
                            ELSE losses < MaxLosses /\ losses' = losses + 1
OnAir(s, f, h) ==
  \E heard \in SUBSET Nbr[s] :
    /\ Misses(s, heard)
    /\ inbox' = [r \in Node |-> IF r \in heard THEN inbox[r] \cup {<<f, h>>} ELSE inbox[r]]

\* The air queue keys the line's copy.
KeyLine(s) ==
  \E h \in node[s].queue :
    /\ Becomes(s, [node[s] EXCEPT !.queue = {}])
    /\ OnAir(s, Line, h)
    /\ UNCHANGED faults

\* A receipt task keys, unless a station further on was heard carrying it.
KeyAck(s) ==
  \E job \in node[s].jobs :
    /\ Becomes(s, [node[s] EXCEPT !.jobs = @ \ {job}])
    /\ IF job[1] \in node[s].downstream THEN UNCHANGED <<inbox, losses>>
                                        ELSE OnAir(s, job[1], job[2])
    /\ UNCHANGED faults

Receive(s) ==
  \E m \in inbox[s] : \E c \in Around(s), g \in Gaps(s, m[1]) :
    /\ inbox' = [inbox EXCEPT ![s] = @ \ {m}]
    /\ Becomes(s, OnEnvelope(node[s], s, m[1], m[2],
                             IF m[1] = Line THEN 0 ELSE node[m[1]].heardAt, c, g))
    /\ UNCHANGED <<losses, faults>>

\* The hold pump, for one due row of someone else's frame.
Pumped(n, s, f, c) ==
  LET r     == n.row[f]
      heard == f \in n.downstream \/ (f = Line /\ ReachedNeighbours(n, f, c))
      sent  == Dispatch(n, s, f)
      walks == \/ KeepRelaying(KindOf(f), r.hops, r.tries, MaxRetries, heard)
               \/ GroupWalkContinues(KindOf(f), r.hops, r.tries, MaxRetries, heard)
               \/ AckRelayWalks(KindOf(f), r.hops, NextToOrigin(n, f), r.tries, MaxRetries, heard)
  IN  IF ~MayRelay(n, s, f) THEN Cancel(SetHold(n, f, FALSE, 0), f)
      ELSE IF IsEcho(n, s, f, c) \/ (r.tries > 0 /\ (heard \/ CopiesSpent(n, f)))
      THEN Release(n, f)
      ELSE IF walks THEN BumpRetry(Advance(sent, f, "relayed"), f)
      ELSE Release(sent, f)

\* Nothing is queued, on the air or undecoded anywhere.
Quiet == \A s \in Node : node[s].queue = {} /\ node[s].jobs = {} /\ inbox[s] = {}
MayComeDue == Patient => Quiet
\* A first relay waits a jitter of a second, a repeat or retry eight and more.
RelayDue(s, f) == HoldUntil(node[s], f) /\ node[s].row[f].hops > 0 /\ ~Own(s, f)
MayRetry ==
  /\ MayComeDue
  /\ Patient => \A s \in Node, f \in Frame : RelayDue(s, f) => node[s].row[f].tries > 0

HoldDue(s, f) ==
  /\ IF node[s].row[f].tries = 0 THEN MayComeDue ELSE MayRetry
  /\ RelayDue(s, f)
  /\ \E c \in Around(s) : Becomes(s, Pumped(node[s], s, f, c))
  /\ UNCHANGED <<inbox, losses, faults>>

\* ARQ: a retry of our line, or our receipt walking home, has come due.
RetryStep(n, s, f) ==
  IF /\ WalksUntilRelayed(KindOf(f))
     /\ ~AckWalkContinues(f \in n.downstream, n.row[f].tries, MaxRetries)
  THEN FinishAckWalk(n, f)
  ELSE IF ~WalksUntilRelayed(KindOf(f)) /\ ~StillAwaitingAck(n, f)
  THEN SetHold(n, f, FALSE, 0)
  ELSE IF ~StillAwaitingAck(n, f) THEN SetHold(Dispatch(n, s, f), f, FALSE, 0)
  ELSE BumpRetry(Dispatch(n, s, f), f)

RetryDue(s, f) ==
  /\ MayRetry
  /\ Own(s, f) /\ node[s].row[f].mark \in Retried /\ node[s].row[f].hold
  /\ node[s].row[f].tries < MaxRetries
  /\ f = Line => node[s].queue = {}     \* its last copy is not queued still
  /\ Becomes(s, RetryStep(node[s], s, f))
  /\ UNCHANGED <<inbox, losses, faults>>

\* ARQ: the retries are spent and the wait for a receipt has run out.
AckWaitStep(n, f) ==
  LET mark   == n.row[f].mark
      closed == SetHold(n, f, FALSE, 0)
  IN  IF WalksUntilRelayed(KindOf(f)) THEN FinishAckWalk(n, f)
      ELSE IF AckWaitRunsOn(mark, n.row[f].tries, MaxRetries) THEN BumpRetry(n, f)
      ELSE IF \/ ~StillAwaitingAck(n, f)
              \/ mark \in {"delivered", "gateway"}
              \/ n.carriedOn
      THEN closed
      ELSE Advance(closed, f, "failed")

AckWaitDue(s, f) ==
  /\ MayRetry
  /\ Own(s, f) /\ node[s].row[f].mark \in Retried /\ node[s].row[f].hold
  /\ node[s].row[f].tries >= MaxRetries
  /\ Becomes(s, AckWaitStep(node[s], f))
  /\ UNCHANGED <<inbox, losses, faults>>

Fault == faults < MaxFaults /\ faults' = faults + 1

\* Own unanswered rows turn [no] and stop retrying.
Failing(n, s, F) ==
  [n EXCEPT !.row = [f \in Frame |->
     IF f \in F /\ Own(s, f) /\ n.row[f].mark \in Failable
     THEN [n.row[f] EXCEPT !.mark = "failed", !.hold = FALSE] ELSE n.row[f]]]

\* /radio flush: every own row fails, and every relay hold is dropped.
Flush(s) ==
  LET failed == Failing(node[s], s, Frame)
      quiet  == [failed EXCEPT !.row = [f \in Frame |->
                   IF Own(s, f) THEN failed.row[f] ELSE [failed.row[f] EXCEPT !.hold = FALSE]]]
  IN  /\ Fault
      /\ Becomes(s, IF Own(s, Line) /\ node[s].row[Line].mark \in Failable
                    THEN Cancel(quiet, Line) ELSE quiet)
      /\ UNCHANGED <<inbox, losses>>

\* The age limit: our own unanswered row fails, someone else's is let go.
Expire(s, f) ==
  /\ Fault
  /\ Own(s, f) /\ node[s].row[f].mark \in Failable
  /\ Becomes(s, Cancel(Failing(node[s], s, {f}), f))
  /\ UNCHANGED <<inbox, losses>>

HoldAged(s, f) ==
  /\ Fault
  /\ RelayDue(s, f)
  /\ Becomes(s, SetHold(node[s], f, FALSE, 0))
  /\ UNCHANGED <<inbox, losses>>

\* The program stops and starts: the store survives, the rest is gone.
Restart(s) ==
  /\ Fault
  /\ Becomes(s, Stopped(node[s].row, node[s].receipts, node[s].heardAt))
  /\ UNCHANGED <<inbox, losses>>

Next ==
  \/ SendLine
  \/ \E s \in Node : KeyLine(s) \/ KeyAck(s) \/ Receive(s) \/ Flush(s) \/ Restart(s)
  \/ \E s \in Node, f \in Frame :
       HoldDue(s, f) \/ RetryDue(s, f) \/ AckWaitDue(s, f) \/ Expire(s, f) \/ HoldAged(s, f)

Spec == Init /\ [][Next]_vars

\* The one-second ticks go on, the air queue and the receipt tasks key what
\* they hold, and a decoded frame is handled: no station stands still.  Nobody
\* has to send anything.
Works(s) ==
  \/ KeyLine(s) \/ KeyAck(s) \/ Receive(s)
  \/ \E f \in Frame : HoldDue(s, f) \/ RetryDue(s, f) \/ AckWaitDue(s, f)
Fairness == \A s \in Node : WF_vars(Works(s))
FairSpec == Spec /\ Fairness

-----------------------------------------------------------------------------
(***************************************************************************)
(* Properties.                                                             *)
(***************************************************************************)
\* Every station's rows, sets and counters, and every frame on the air, stay
\* in the ranges the code gives them.
TypeOK ==
  /\ node \in [Node -> Station]
  /\ inbox \in [Node -> SUBSET (Frame \X Hops)]
  /\ losses \in 0..MaxLosses /\ faults \in 0..MaxFaults

HasLine(s) == Has(node[s], Line)
LineMark(s) == node[s].row[Line].mark

\* [ok] on anyone's copy means a station other than the sender has the line,
\* and of a direct line its addressee; [all] means every member has it
\* (store marks set by Engine::on_rx and on_envelope from receipts).
MarksAreTrue ==
  \A s \in Node :
    /\ LineMark(s) \in {"delivered", "all"} => \E r \in Node \ {Origin} : HasLine(r)
    /\ LineMark(s) = "delivered" /\ LineKind = "direct" => HasLine(Dest)
    /\ LineMark(s) = "all" => \A m \in Members : HasLine(m)

\* A delivery mark never moves back, on any row of any station, over late
\* receipts, echoes, the age limit, flushes and restarts (advance_delivery).
MarksMoveForward ==
  [][\A s \in Node, f \in Frame :
       Has(node[s], f) => /\ Has(node[s], f)'
                          /\ CanAdvance(node[s].row[f].mark, node'[s].row[f].mark)]_vars

\* The retries give a line up, [no], only once they are spent and only while
\* no receipt and no relay of it was heard (ack_wait_due in the ARQ loop).
GivesUpOnlyUnheard ==
  [][LineMark(Origin) # "failed" /\ LineMark(Origin)' = "failed" /\ faults' = faults
     => /\ node[Origin].row[Line].tries > MaxRetries
        /\ ~node[Origin].carriedOn
        /\ \A r \in Node : ~Has(node[Origin], r)]_vars

\* Every hop costs one: a station k hops from a frame's originator never
\* stores it with more than the budget less k (on_rx, the relays' copies).
HopsAreSpent ==
  \A s \in Node, f \in Frame :
    Has(node[s], f) => node[s].row[f].hops + Dist[OriginOf(f)][s] <= Ttl

\* A finished line keeps quiet: once a direct line is [ok], or a group line
\* [all], no copy of it is left in the station's air queue to key.
FinishedIsNotKeyed ==
  \A s \in Node :
    \/ LineMark(s) = "all"
    \/ LineMark(s) = "delivered" /\ LineKind = "direct"
    => node[s].queue = {}

\* Receipts travel toward the originator: a station relays only receipts of
\* stations that heard the line with fewer hops left than it did itself.
ReceiptsGoHome ==
  \A s \in Node, a \in Node :
    node[s].copies[a] > 0 => /\ HasLine(s)
                             /\ node[a].heardAt <= node[s].row[Line].hops

\* A station keys someone else's frame at most once more than its cap.
CopiesAreCapped ==
  \A s \in Node, f \in Frame :
    ~Own(s, f) => node[s].copies[f] <= 1 + (IF f = Line THEN RELAY_MAX_COPIES ELSE 1 + MaxRetries)

\* Our own receipt always leaves with the line's hop budget (ack_hop_budget).
ReceiptHasItsBudget == \A s \in Node, h \in Hops : <<s, h>> \in node[s].jobs => h = Ttl

\* The stations together give the sender what LineService promises.
Service == INSTANCE LineService WITH
  mark <- LineMark(Origin), holders <- {s \in Node : HasLine(s)}
ServesLine == Service!Spec

Idle(s) ==
  /\ node[s].queue = {} /\ node[s].jobs = {} /\ inbox[s] = {}
  /\ \A f \in Frame : ~RelayDue(s, f)

\* The air falls silent: whatever is lost, the retries, relays, answers and
\* repeats of one line come to an end on every station.
AirFallsSilent == <>[](\A s \in Node : Idle(s))

\* Where a line is going: its addressee, the closed group, or everybody.
Audience == CASE LineKind = "direct"   -> {Dest}
              [] LineKind = "closed"   -> Members
              [] LineKind = "bulletin" -> Node
\* The mark an answered line ends with.  The sender of a bulletin is content
\* to hear it carried on.
AnsweredMarks == CASE LineKind = "direct"   -> {"delivered"}
                   [] LineKind = "closed"   -> {"all"}
                   [] LineKind = "bulletin" -> {"relayed", "delivered"}

\* While timers outlast what is under way and losses stay within MaxLosses, a
\* line that was sent reaches its audience, and its receipts come home: it
\* ends [ok], a closed group's [all].
LineIsAnswered ==
  HasLine(Origin) ~> /\ \A s \in Audience : HasLine(s)
                     /\ LineMark(Origin) \in AnsweredMarks

\* The same of a line that at most one station misses once, on a network that
\* may lose more.
AnsweredDespiteOneLoss == [](losses <= 1) => LineIsAnswered
=============================================================================
