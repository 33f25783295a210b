---------------------------- MODULE MailTransfer ----------------------------
(***************************************************************************)
(* A Radio+ station mails by radio (mail/air.rs, mail/gateway.rs,          *)
(* mail/store.rs, mail/pick.rs, net/hub_mail.rs).  The station keys a mail *)
(* in chunks to a gateway, one it names or one it picks among those that   *)
(* answer its ask.  A gateway collects chunks from whatever it hears; once *)
(* the channel is quiet it reports what it has, or posts a whole mail to   *)
(* the hub, which hands it to Resend, and keys the outcome.  The station's *)
(* mail task handles one command at a time, and hears while its lease      *)
(* waits for the radio.  One mail is followed.                             *)
(***************************************************************************)
EXTENDS Integers, Sequences, FiniteSets

CONSTANTS
  Gateway,    \* the internet-radio stations in range
  Pinned,     \* the gateway named in the setup, or AutoGw
  AutoGw,
  Chunks,     \* chunks of the mail; the first alone names its writer
  ProbeMin,   \* PROBE_MIN_MISSING
  Cap,        \* mail_attempt_cap
  MaxLosses,  \* bursts and answers not heard, waits that end early, holds
  MaxFaults,  \* restarts, radio and hub failures, picks grown old
  MaxTrouble, \* losses, faults and presses together
  MaxByHand   \* presses of Retry

Chunk == 0..Chunks - 1

ASSUME MailAssumption ==
  /\ AutoGw \notin Gateway /\ Pinned \in Gateway \cup {AutoGw} /\ IsFiniteSet(Gateway)
  /\ {Chunks, Cap} \subseteq Nat \ {0}
  /\ {ProbeMin, MaxLosses, MaxFaults, MaxTrouble, MaxByHand} \subseteq Nat

VARIABLES
  row,       \* the mail in the station's outbox; got: chunks a gateway has
  via,       \* mail_via: gateways it was keyed to, in order of first use
  wait,      \* the latest wait for an answer has yet to run out
  due,       \* Send commands for the mail, waiting their turn or their time
  lease,     \* the burst that waits for the radio: its gateway and chunks
  inbox,     \* answers heard and not yet handled
  pick,      \* Auto's list of gateways, which one is in use, and whether the
             \* list is too old, or of another band or preset
  ask,       \* Ask commands, and the Send commands that wait for an ask's end
  tried, reasked,  \* gateways the mail failed on; it asked again for it
  gate,      \* each gateway's Assembler, and how far it is with the mail
  relay,     \* gateways whose store says this mail was accepted
  hub,       \* hub_mail has the mail; how often Resend took it of a gateway
  spent      \* losses, faults and presses so far

auto == <<pick, ask, tried, reasked>>
station == <<row, via, wait, due, lease, inbox, auto>>
gateways == <<gate, relay, hub>>
vars == <<station, gateways, spent>>

NoLease == [gw |-> AutoGw, plan |-> {}]
NoPick == [state |-> "idle", list |-> <<>>, at |-> 1, stale |-> "no"]
NoAsk == [cmd |-> 0, after |-> 0]
EmptyGate == [heard |-> <<>>, bucket |-> {}, dest |-> AutoGw, knows |-> FALSE,
              ready |-> AutoGw, quiet |-> FALSE, reack |-> FALSE, at |-> "idle"]

Lists == {l \in UNION {[1..n -> Gateway] : n \in 0..Cardinality(Gateway)} :
            \A i, j \in DOMAIN l : l[i] = l[j] => i = j}
Answer == [kind : {"ok", "fail", "have"}, bits : SUBSET Chunk, during : BOOLEAN]
Burst == [gw : Gateway, plan : SUBSET Chunk]
Posting == {"post", "resend", "record", "accepted"}

TypeOK ==
  /\ row \in [state : {"queued", "locating", "tx", "gateway", "sent", "failed"},
              retries : 0..Cap + 1, got : SUBSET Chunk, sized : BOOLEAN]
  /\ via \in Lists /\ {wait, reasked} \subseteq BOOLEAN /\ due \in 0..2
  /\ lease \in [gw : Gateway \cup {AutoGw}, plan : SUBSET Chunk]
  /\ inbox \in Seq(Answer)
  /\ pick \in [state : {"idle", "asking", "picked", "none"}, list : Lists,
               at : Nat \ {0}, stale : {"no", "old", "band"}]
  /\ pick.state = "picked" => pick.at \in DOMAIN pick.list
  /\ ask \in [cmd : 0..2, after : 0..2]
  /\ tried \subseteq Gateway /\ relay \subseteq Gateway
  /\ gate \in [Gateway -> [heard : Seq(Burst), bucket : (SUBSET Chunk) \ {Chunk},
       dest : Gateway \cup {AutoGw}, knows : BOOLEAN, ready : Gateway \cup {AutoGw},
       quiet : BOOLEAN, reack : BOOLEAN, at : {"idle", "ok", "fail", "have"} \cup Posting]]
  /\ hub \in [row : BOOLEAN, taken : [Gateway -> Nat], cut : BOOLEAN]
  /\ spent \in [losses : 0..MaxLosses, faults : 0..MaxFaults, byHand : 0..MaxByHand]

Init ==
  /\ row = [state |-> "queued", retries |-> 0, got |-> {}, sized |-> FALSE]
  /\ via = <<>> /\ wait = FALSE /\ due = 1 /\ lease = NoLease /\ inbox = <<>>
  /\ pick = NoPick /\ ask = NoAsk
  /\ tried = {} /\ reasked = FALSE
  /\ gate = [g \in Gateway |-> EmptyGate] /\ relay = {}
  /\ hub = [row |-> FALSE, taken |-> [g \in Gateway |-> 0], cut |-> FALSE]
  /\ spent = [losses |-> 0, faults |-> 0, byHand |-> 0]

Finished(state) == state \in {"sent", "failed"}
UpToTwo(n) == IF n > 2 THEN 2 ELSE n
WithinTrouble == spent'.losses + spent'.faults + spent'.byHand <= MaxTrouble
Loses(n) ==
  /\ spent.losses + n <= MaxLosses /\ spent' = [spent EXCEPT !.losses = @ + n]
  /\ n > 0 => WithinTrouble
Fault ==
  /\ spent.faults < MaxFaults /\ spent' = [spent EXCEPT !.faults = @ + 1] /\ WithinTrouble
\* The mail task handles one command at a time, and a burst is one.
TaskFree == lease.plan = {}

-----------------------------------------------------------------------------
\* Where Radio+ mail goes: route and untried_gateway.
Usable == pick.state = "picked" /\ pick.stale = "no"
Locates == Pinned = AutoGw /\ ~Usable
Current == IF Pinned = AutoGw THEN pick.list[pick.at] ELSE Pinned

\* next_after: the places further down the list whose gateway is not in skip.
NextAfter(skip) == {i \in pick.at + 1..Len(pick.list) : pick.list[i] \notin skip}
First(places) == CHOOSE i \in places : \A j \in places : i <= j

\* The chunks of a try: those no gateway reported, or the first alone as a
\* probe when nothing was heard back.
Planned(r) ==
  IF r.retries > 0 /\ r.got = {} /\ Chunks > ProbeMin THEN {0} ELSE Chunk \ r.got

\* rf_send, up to the lease.  A hold before the lease comes to one after it.
RfSend(r, gw) ==
  /\ row' = [r EXCEPT !.sized = TRUE]
  /\ lease' = IF Planned(r) = {} THEN NoLease ELSE [gw |-> gw, plan |-> Planned(r)]

\* fail_mail; the wait for an answer is off.
FailMail(r) == row' = [r EXCEPT !.state = "failed"] /\ wait' = FALSE

\* defer_to_ask: the Send waits for the end of an ask.
Defers ==
  ask' = [cmd |-> IF pick.state = "asking" THEN ask.cmd ELSE UpToTwo(ask.cmd + 1),
          after |-> UpToTwo(ask.after + 1)]

\* send_one.
SendFinished ==
  /\ TaskFree /\ due > 0 /\ Finished(row.state)
  /\ due' = due - 1
  /\ UNCHANGED <<row, via, wait, lease, inbox, auto, gateways, spent>>

SendLocates ==
  /\ TaskFree /\ due > 0 /\ ~Finished(row.state) /\ Locates
  /\ due' = due - 1 /\ row' = [row EXCEPT !.state = "locating"] /\ Defers
  /\ UNCHANGED <<via, wait, lease, inbox, pick, tried, reasked, gateways, spent>>

SendRouted ==
  /\ TaskFree /\ due > 0 /\ ~Finished(row.state) /\ ~Locates
  /\ due' = due - 1
  /\ \/ /\ Pinned # AutoGw \/ Current \notin tried
        /\ RfSend(row, Current) /\ UNCHANGED <<wait, pick>>
     \/ /\ Pinned = AutoGw /\ Current \in tried /\ NextAfter(tried) # {}
        /\ RfSend(row, pick.list[First(NextAfter(tried))])
        /\ pick' = [pick EXCEPT !.at = First(NextAfter(tried))] /\ UNCHANGED wait
     \/ /\ Pinned = AutoGw /\ Current \in tried /\ NextAfter(tried) = {}
        /\ FailMail(row) /\ UNCHANGED <<lease, pick>>
  /\ UNCHANGED <<via, inbox, ask, tried, reasked, gateways, spent>>

-----------------------------------------------------------------------------
\* reset_for_gateway: the next gateway holds none of the chunks.
ResetForGateway(r) == [state |-> "queued", retries |-> 0, got |-> {}, sized |-> FALSE]

\* give_up, on a gateway that did not acknowledge.
Older(stale) == IF stale = "no" THEN "old" ELSE stale
GiveUp(r) ==
  LET failed == tried \cup {via[Len(via)]} IN
  /\ wait' = FALSE
  /\ \/ /\ Pinned # AutoGw \/ via = <<>>
        /\ row' = [r EXCEPT !.state = "failed"] /\ UNCHANGED <<due, auto>>
     \/ /\ Pinned = AutoGw /\ via # <<>> /\ NextAfter(failed) # {}
        /\ tried' = failed /\ pick' = [pick EXCEPT !.at = First(NextAfter(failed))]
        /\ row' = ResetForGateway(r) /\ due' = UpToTwo(due + 1)
        /\ UNCHANGED <<ask, reasked>>
     \/ /\ Pinned = AutoGw /\ via # <<>> /\ NextAfter(failed) = {} /\ ~reasked
        /\ tried' = failed /\ reasked' = TRUE /\ pick' = [pick EXCEPT !.stale = Older(@)]
        /\ row' = [ResetForGateway(r) EXCEPT !.state = "locating"] /\ Defers
        /\ UNCHANGED due
     \/ /\ Pinned = AutoGw /\ via # <<>> /\ NextAfter(failed) = {} /\ reasked
        /\ tried' = failed /\ row' = [r EXCEPT !.state = "failed"]
        /\ UNCHANGED <<due, pick, ask, reasked>>

\* The rest of rf_send, once the lease has the radio: what is still missing is
\* keyed, and each gateway hears some of it.  Hearing all costs nothing.
HeardBy(heard) ==
  gate' = [g \in Gateway |->
    IF heard[g] = {} THEN gate[g]
    ELSE [gate[g] EXCEPT !.heard = Append(@, [gw |-> lease.gw, plan |-> heard[g]])]]

Key ==
  LET still == lease.plan \ row.got IN
  /\ ~TaskFree /\ ~Finished(row.state) /\ still # {}
  /\ \E heard \in [Gateway -> SUBSET still] :
       HeardBy(heard) /\ Loses(Cardinality({g \in Gateway : heard[g] # still}))
  /\ row' = [row EXCEPT !.state = "tx"] /\ wait' = TRUE
  /\ via' = IF \E i \in DOMAIN via : via[i] = lease.gw THEN via ELSE Append(via, lease.gw)
  /\ lease' = NoLease
  /\ UNCHANGED <<due, inbox, auto, relay, hub>>

\* Finished meanwhile, or all of it reported: nothing is keyed.
KeyNothing ==
  /\ ~TaskFree /\ (Finished(row.state) \/ lease.plan \subseteq row.got)
  /\ wait' = (wait \/ ~Finished(row.state)) /\ lease' = NoLease
  /\ UNCHANGED <<row, via, due, inbox, auto, gateways, spent>>

\* Another station's mail was heard: the try waits.  Mutant: it is forgotten.
ForgetsSend == due
HoldSend == UpToTwo(due + 1)
KeyHeld ==
  /\ ~TaskFree /\ ~Finished(row.state) /\ Loses(1)
  /\ row' = [row EXCEPT !.state = "queued"] /\ wait' = FALSE
  /\ due' = HoldSend /\ lease' = NoLease
  /\ UNCHANGED <<via, inbox, auto, gateways>>

\* The radio is not running, or the burst did not go out.
KeyFails ==
  /\ ~TaskFree /\ Fault /\ lease' = NoLease
  /\ \/ FailMail(row) /\ UNCHANGED <<due, auto>>
     \/ LET r == [row EXCEPT !.retries = @ + 1, !.state = "queued"] IN
        IF r.retries >= Cap THEN GiveUp(r)
        ELSE row' = r /\ wait' = FALSE /\ due' = UpToTwo(due + 1) /\ UNCHANGED auto
  /\ UNCHANGED <<via, inbox, gateways>>

\* The waits outlast a gateway's quiet gap, its post and its answer.
Calm ==
  inbox = <<>> /\ \A g \in Gateway : gate[g].at = "idle" /\ ~gate[g].quiet /\ gate[g].heard = <<>>

\* on_ack_wait.  A retry goes to the last of the gateways first used.
AckWait ==
  /\ TaskFree /\ wait /\ IF Calm THEN UNCHANGED spent ELSE Loses(1)
  /\ \/ /\ Finished(row.state) /\ wait' = FALSE /\ UNCHANGED <<row, lease, due, auto>>
     \/ /\ row.state = "gateway" /\ FailMail(row) /\ UNCHANGED <<lease, due, auto>>
     \/ /\ row.state \in {"queued", "locating", "tx"} /\ row.retries >= Cap
        /\ GiveUp(row) /\ UNCHANGED lease
     \/ /\ row.state \in {"queued", "locating", "tx"} /\ row.retries < Cap
        /\ RfSend([row EXCEPT !.retries = @ + 1, !.state = "queued"], via[Len(via)])
        /\ wait' = FALSE /\ UNCHANGED <<due, auto>>
  /\ UNCHANGED <<via, inbox, gateways>>

-----------------------------------------------------------------------------
\* A gateway (on_incoming): a mail it knows accepted is not collected again, a
\* set that completes is ready for the quiet gap, unless it is ready already.
AcceptedOrigin(g) == g \in relay

\* put_chunk, in the order of the burst: the first chunk names its gateway,
\* and what follows the last one missing starts a new set.
\* Mutant: a set that completes stays.
NotCleared(had, sent, last) == had \cup sent
SlotCleared(had, sent, last) == {i \in sent : i > last}

Collect(b, burst) ==
  LET have == b.bucket \cup burst.plan
      dest == IF 0 \in burst.plan \ b.bucket THEN burst.gw ELSE b.dest
      last == First({i \in burst.plan : Chunk \subseteq b.bucket \cup {j \in burst.plan : j <= i}})
      knew == [b EXCEPT !.knows = @ \/ 0 \in burst.plan, !.quiet = TRUE, !.dest = dest]
  IN
  IF have # Chunk THEN [knew EXCEPT !.bucket = have]
  ELSE [knew EXCEPT !.bucket = SlotCleared(b.bucket, burst.plan, last),
                    !.ready = IF @ = AutoGw THEN dest ELSE @]

Hear(g) ==
  /\ gate[g].at = "idle" /\ gate[g].heard # <<>>
  /\ LET b == [gate[g] EXCEPT !.heard = Tail(@)]
         burst == Head(gate[g].heard)
     IN gate' = [gate EXCEPT ![g] =
          IF AcceptedOrigin(g) THEN [b EXCEPT !.bucket = {}, !.reack = TRUE, !.quiet = TRUE]
          ELSE Collect(b, burst)]
  /\ UNCHANGED <<station, relay, hub, spent>>

\* on_quiet: a mail is taken up by the gateway it is for.
ForUs(g) == gate[g].ready = g

OnQuiet(g) ==
  LET b == [gate[g] EXCEPT !.quiet = FALSE, !.ready = AutoGw, !.reack = FALSE] IN
  /\ gate[g].at = "idle" /\ gate[g].heard = <<>> /\ gate[g].quiet
  /\ gate' = [gate EXCEPT ![g] = [b EXCEPT !.at =
       IF gate[g].ready # AutoGw
       THEN IF ~ForUs(g) THEN "idle" ELSE IF g \in relay THEN "ok" ELSE "post"
       ELSE IF gate[g].reack THEN "ok"
       ELSE IF gate[g].bucket # {} /\ gate[g].knows THEN "have" ELSE "idle"]]
  /\ UNCHANGED <<station, relay, hub, spent>>

GateStep(g, from, to) == gate[g].at = from /\ gate' = [gate EXCEPT ![g].at = to]

\* post_send: a mail the hub has is accepted as a duplicate.
\* Mutant: the hub does not look.
NoneKnown == FALSE
OutStatus == hub.row

HubChecks(g) ==
  /\ GateStep(g, "post", IF OutStatus THEN "accepted" ELSE "resend")
  /\ UNCHANGED <<station, relay, hub, spent>>

ResendTakes(g) ==
  /\ GateStep(g, "resend", "record") /\ hub' = [hub EXCEPT !.taken[g] = @ + 1]
  /\ UNCHANGED <<station, relay, spent>>

HubRecords(g) ==
  /\ GateStep(g, "record", "accepted") /\ hub' = [hub EXCEPT !.row = TRUE]
  /\ UNCHANGED <<station, relay, spent>>

\* deliver: the gateway notes that the mail was accepted.
Accepted(g) ==
  /\ GateStep(g, "accepted", "ok") /\ relay' = relay \cup {g}
  /\ UNCHANGED <<station, hub, spent>>

\* The post fails or times out; a hub then drops what it was doing.
CutIfSent(g) == hub' = [hub EXCEPT !.cut = @ \/ gate[g].at = "record"]
PostFails(g) ==
  /\ gate[g].at \in Posting /\ Fault /\ CutIfSent(g)
  /\ gate' = [gate EXCEPT ![g].at = "fail"]
  /\ UNCHANGED <<station, relay>>

-----------------------------------------------------------------------------
\* An answer reaches the station (on_rf): what it says is noted at once, for
\* the burst that waits for the radio, and the mail task handles it later.
Noted(a) ==
  IF a.kind = "have" /\ row.sized /\ row.state # "sent" THEN [row EXCEPT !.got = @ \cup a.bits]
  ELSE IF a.kind = "ok" /\ ~Finished(row.state) THEN [row EXCEPT !.state = "sent"]
  ELSE row

Reply(g) ==
  LET a == [kind |-> gate[g].at, bits |-> IF gate[g].at = "have" THEN gate[g].bucket ELSE {},
            during |-> ~TaskFree]
  IN
  /\ gate[g].at \in {"ok", "fail", "have"} /\ gate' = [gate EXCEPT ![g].at = "idle"]
  /\ \/ row' = Noted(a) /\ inbox' = Append(inbox, a) /\ UNCHANGED spent
     \/ Loses(1) /\ UNCHANGED <<row, inbox>>
  /\ UNCHANGED <<via, wait, due, lease, auto, relay, hub>>

\* apply_mail.
AnswerOf(kind) ==
  /\ TaskFree /\ inbox # <<>> /\ Head(inbox).kind = kind /\ inbox' = Tail(inbox)
  /\ UNCHANGED <<via, due, lease, pick, ask, reasked, gateways, spent>>

AcceptMail ==
  /\ AnswerOf("ok")
  /\ row' = [row EXCEPT !.state = "sent"] /\ wait' = FALSE /\ tried' = {}

RejectMail == AnswerOf("fail") /\ FailMail(row) /\ UNCHANGED tried

\* Mutant: a mail whose every chunk is reported is a sent one.
SaysSent == "sent"
AtGateway == "gateway"
HaveReport ==
  LET got == row.got \cup Head(inbox).bits
      all == row.sized /\ got = Chunk
      goesOn == row.sized /\ ~all /\ ~Head(inbox).during
  IN
  /\ AnswerOf("have") /\ UNCHANGED tried
  /\ row' = [row EXCEPT !.got = got, !.state = IF all /\ ~Finished(@) THEN AtGateway ELSE @]
  /\ wait' = (wait \/ (~Finished(row.state) /\ (all \/ goesOn)))

-----------------------------------------------------------------------------
\* Auto asks which gateways hear the station: start_ask, finish_ask.  It asks
\* by itself once, and on another band or preset (auto_tick).  The ask itself is
\* one step; one that fails puts Auto's list back and leaves further Asks.
AsksItself == pick.state = "idle" \/ (pick.state \in {"picked", "none"} /\ pick.stale = "band")
FreeToAsk == Pinned = AutoGw /\ TaskFree /\ (ask.cmd > 0 \/ AsksItself)

StartAsk ==
  /\ FreeToAsk
  /\ \/ /\ pick' = [pick EXCEPT !.state = "asking"] /\ ask' = [ask EXCEPT !.cmd = 0]
        /\ UNCHANGED <<row, wait, spent>>
     \/ /\ pick.state # "asking" /\ Fault /\ UNCHANGED pick
        /\ \/ AsksItself /\ ask' = [ask EXCEPT !.after = 0]
           \/ ask.cmd > 0 /\ ask' = [cmd |-> ask.cmd - 1, after |-> 0]
        /\ IF ask.after > 0 THEN FailMail(row) ELSE UNCHANGED <<row, wait>>
  /\ UNCHANGED <<via, due, lease, inbox, tried, reasked, gateways>>

AskDone ==
  /\ TaskFree /\ pick.state = "asking"
  /\ \E list \in Lists :
       /\ Loses(Cardinality(Gateway) - Len(list))
       /\ pick' = [state |-> IF list = <<>> THEN "none" ELSE "picked",
                   list |-> list, at |-> 1, stale |-> "no"]
       /\ ask' = [ask EXCEPT !.after = 0]
       /\ IF list # <<>> THEN due' = UpToTwo(due + ask.after) /\ UNCHANGED <<row, wait>>
          ELSE IF ask.after > 0 THEN FailMail(row) /\ UNCHANGED due
          ELSE UNCHANGED <<row, wait, due>>
  /\ UNCHANGED <<via, lease, inbox, tried, reasked, gateways>>

\* An hour passes, or the band or the preset changes.
PickAges ==
  /\ \E stale \in {"old", "band"} :
       /\ pick' = [pick EXCEPT !.stale = stale] /\ pick.stale \notin {stale, "band"}
       /\ pick.state = "picked" \/ (pick.state = "none" /\ stale = "band")
  /\ Fault
  /\ UNCHANGED <<row, via, wait, due, lease, inbox, ask, tried, reasked, gateways>>

\* Retry in the Email tab.  Chunks reported, and gateways tried, are kept.
Retry ==
  /\ row.state = "failed" /\ spent.byHand < MaxByHand
  /\ spent' = [spent EXCEPT !.byHand = @ + 1] /\ WithinTrouble
  /\ row' = [row EXCEPT !.state = "queued", !.retries = 0]
  /\ due' = UpToTwo(due + 1)
  /\ UNCHANGED <<via, wait, lease, inbox, auto, gateways>>

\* The station starts again: fail_unfinished.  What it heard and its mail task
\* had no time for is lost.
\* Mutants: mail an earlier run was sending is left as it was; all mail fails.
FailNone(r) == r
FailEvery(r) == [r EXCEPT !.state = "failed"]
FailUnfinished(r) == IF r.state = "sent" THEN r ELSE [r EXCEPT !.state = "failed"]
Restart ==
  /\ Fault /\ row' = FailUnfinished(row)
  /\ wait' = FALSE /\ due' = 0 /\ lease' = NoLease /\ inbox' = <<>>
  /\ pick' = NoPick /\ ask' = NoAsk /\ tried' = {} /\ reasked' = FALSE
  /\ UNCHANGED <<via, gateways>>

RestartGateway(g) ==
  /\ gate[g] # EmptyGate /\ Fault /\ CutIfSent(g)
  /\ gate' = [gate EXCEPT ![g] = EmptyGate]
  /\ UNCHANGED <<station, relay>>

-----------------------------------------------------------------------------
Sending == SendFinished \/ SendLocates \/ SendRouted
Keying == Key \/ KeyNothing \/ KeyHeld \/ KeyFails
Answered == AcceptMail \/ RejectMail \/ HaveReport
AtTheGateway(g) ==
  Hear(g) \/ OnQuiet(g) \/ HubChecks(g) \/ ResendTakes(g) \/ HubRecords(g) \/ Accepted(g)

Next ==
  \/ Sending \/ Keying \/ Answered \/ AckWait \/ StartAsk \/ AskDone
  \/ PickAges \/ Retry \/ Restart
  \/ \E g \in Gateway : AtTheGateway(g) \/ Reply(g) \/ PostFails(g) \/ RestartGateway(g)

Spec == Init /\ [][Next]_vars

\* The mail task and the gateways go on, and timers run out.
Fairness ==
  /\ WF_vars(Sending) /\ WF_vars(Keying) /\ WF_vars(Answered) /\ WF_vars(AckWait)
  /\ WF_vars(StartAsk) /\ WF_vars(AskDone)
  /\ \A g \in Gateway : WF_vars(AtTheGateway(g)) /\ WF_vars(Reply(g))
FairSpec == Spec /\ Fairness

-----------------------------------------------------------------------------
\* What the station shows; an acceptance counts once it is heard.
Shown ==
  IF row.state = "sent" \/ \E i \in DOMAIN inbox : inbox[i].kind = "ok" THEN "sent"
  ELSE IF row.state = "failed" THEN "failed" ELSE "waiting"

\* The mail is shown as sent only once Resend took it; see MailService.
Service == INSTANCE MailService WITH
  shown <- Shown, taken <- \E g \in Gateway : hub.taken[g] > 0
ServesMail == Service!Spec

\* A mail whose acceptance was heard is shown as sent from then on, whatever
\* bursts, reports, retries and further gateways follow: a burst that fails
\* queues a mail accepted meanwhile, whose acceptance is then yet to be handled.
\* Not so where an ask that a Send waits for fails it, the late answer of
\* another gateway does, or the station starts again before that is handled.
SentStays ==
  [][Shown = "sent" => \/ Shown' = "sent" \/ ask.after > 0
                       \/ inbox # <<>> /\ Head(inbox).kind = "fail"
                       \/ Restart /\ row.state # "sent"]_vars

\* A gateway has Resend send a mail once, whatever is repeated, restarts and
\* gets lost, unless its post was cut off after Resend took it.
PostedOncePerGateway == \A g \in Gateway : hub.taken[g] <= 1 \/ hub.cut

\* No mail waits for ever: it is sent, or fails and offers Retry (QA #241).
MailEnds == ~Finished(row.state) /\ spent.byHand = 0 ~> Finished(row.state)

\* With no failure and at most one thing lost on the air, the mail is sent.
GetsThrough ==
  [](spent.losses <= 1 /\ spent.faults = 0 /\ spent.byHand = 0) => <>(row.state = "sent")

\* And so is one that Retry brought back: it "is sent again from the start"
\* (docs/EMAIL.md).
RetryEnds == ~Finished(row.state) /\ spent.byHand > 0 ~> Finished(row.state)
=============================================================================
