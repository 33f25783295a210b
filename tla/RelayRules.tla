----------------------------- MODULE RelayRules -----------------------------
(***************************************************************************)
(* The pure decisions of relay.rs, over what they look at in a frame: its  *)
(* kind, its hop count, the hop count of our stored copy and our row.      *)
(*                                                                         *)
(* A frame's kind folds message type, GROUP flag and destination:          *)
(*   "direct"    a line (or invite) to one station                         *)
(*   "closed"    a line to a closed group                                  *)
(*   "bulletin"  a line to #bulletin                                       *)
(*   "meta"      a WCRMETA status frame of a closed group, never receipted *)
(*   "ack"       a receipt                                                 *)
(***************************************************************************)
EXTENDS Naturals, FiniteSets

Kind == {"direct", "closed", "bulletin", "meta", "ack"}

RELAY_MAX_COPIES == 3
RELAY_ACK_MAX_COPIES == 2
NEXT_TO_ORIGIN_ACK_REPEATS == 1

LesserOf(a, b) == IF a <= b THEN a ELSE b

IsGroup(kind) == kind \in {"closed", "bulletin", "meta"}
BulletinKeepsWalking(kind) == kind = "bulletin"
KeepsWalking(kind) == kind \in {"bulletin", "meta"}
ClosedGroupWalks(kind) == kind \in {"closed", "meta"}
WalksUntilRelayed(kind) == kind \in {"ack", "meta"}
IsDirectLine(kind) == kind = "direct"

\* A copy with fewer hops was relayed further on; one with more came from
\* the originator's side; one with all of them from the originator itself.
HeardFurther(incoming, stored) == incoming < stored
OriginRetry(incoming, stored) == incoming > stored
CopyWantsNewAck(incoming, stored) == ~HeardFurther(incoming, stored)
HeardFromOrigin(hops, initial) == hops >= initial

\* Receive decision: what on_rx does with a frame.
Decide(seen, hops, waiting) ==
  IF seen THEN IF waiting THEN "suppress" ELSE "ignore"
          ELSE IF hops = 0 THEN "dropRelay" ELSE "accept"

\* May this station key the frame again for someone else?
MayRebroadcast(kind, hops, ours, toUs, mark) ==
  /\ hops > 0
  /\ ~ours
  /\ ~toUs
  /\ kind # "ack" => /\ mark # "all"
                     /\ mark = "delivered" => kind \in {"closed", "meta"}

AckMarksDelivered(ours, kind) == ours \/ ~BulletinKeepsWalking(kind)

\* The addressee's receipt ends the relay of a direct line.
AckEndsRelay(kind, fromDest) == ~IsGroup(kind) /\ fromDest

AckWalkContinues(heard, retries, max) == ~heard /\ retries < max

\* Mutant: a bulletin is relayed once and never repeated.
RelayedOnce(kind, hops, retries, max, heard) == FALSE
KeepRelaying(kind, hops, retries, max, heard) ==
  KeepsWalking(kind) /\ hops > 0 /\ AckWalkContinues(heard, retries, max)

GroupWalkContinues(kind, hops, retries, max, heard) ==
  ClosedGroupWalks(kind) /\ hops > 0 /\ AckWalkContinues(heard, retries, max)

AckRelayWalks(kind, hops, nextToOrigin, retries, max, heard) ==
  /\ kind = "ack"
  /\ hops > 0
  /\ AckWalkContinues(heard, retries,
       IF nextToOrigin THEN LesserOf(max, NEXT_TO_ORIGIN_ACK_REPEATS) ELSE max)

\* Does a duplicate cancel our pending copy?  Not one from the originator's
\* side, of a line that is carried hop by hop or goes to one station.
DuplicateSuppresses(kind, incoming, stored) ==
  ~ /\ KeepsWalking(kind) \/ ClosedGroupWalks(kind) \/ IsDirectLine(kind)
    /\ OriginRetry(incoming, stored)

\* Does a relay take a retry of the originator's further?
RetryPassesOn(kind, heardFurther, receiptsMissing) ==
  ~heardFurther \/ receiptsMissing \/ IsDirectLine(kind)

\* Only stations that heard a bulletin from its originator answer it.
AcksLine(kind, hops, initial) == kind = "bulletin" => HeardFromOrigin(hops, initial)

\* Mutant: the cap on copies is left out.
Uncapped(kind, nextToOrigin, max) == 100
RelayMaxCopies(kind, nextToOrigin, max) ==
  IF kind # "ack" THEN RELAY_MAX_COPIES
  ELSE IF nextToOrigin THEN RELAY_ACK_MAX_COPIES ELSE 1 + max

OwnReceiptAllowed(keyed, retriesHeard) == keyed < 1 + retriesHeard

QueuedRepeatUnneeded(handed) == handed > 1

\* A receipt's sender is no further from the originator than we are: a station
\* without the line is not on its path.  Stored copies hold one hop less.
\* Mutant: the comparison is the wrong way round.
Downstream(haveLine, lineHops, theirs) == haveLine => theirs <= lineHops + 1
AckUpstreamByHops(haveLine, lineHops, theirs) == haveLine => lineHops + 1 <= theirs

\* Every station we hear directly has the line already.
NeighboursHold(neighbours, holders, cameRelayed) ==
  /\ neighbours # {}
  /\ IF Cardinality(neighbours) = 1 THEN cameRelayed
                                    ELSE neighbours \subseteq holders

\* A bulletin heard straight from its origin while nobody else is around.
BulletinRelayIsEcho(gateway, kind, direct, others) ==
  ~gateway /\ BulletinKeepsWalking(kind) /\ direct /\ others = {}

\* node.rs: the last copy waits two intervals before [no].
\* Mutants: the wait is renewed for ever; the last copy gets no wait of its own.
RunsOnForever(mark, retries, max) == mark \in {"sent", "relayed", "gateway"} /\ retries >= max
NoLastWait(mark, retries, max) == FALSE
AckWaitRunsOn(mark, retries, max) ==
  mark \in {"sent", "relayed", "gateway"} /\ retries = max
=============================================================================
