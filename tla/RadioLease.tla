---------------------------- MODULE RadioLease -----------------------------
(***************************************************************************)
(* Who has the modem (air.rs, mail/lease.rs, burst in mail/air.rs).  Three *)
(* tasks of a station use one modem and set its configuration: the air     *)
(* queue, which sends lines; a receipt, which pauses the queue and may     *)
(* turn the modem's busy test off; and a mail burst, which holds the queue *)
(* for its lease and sets a mode of its own.  Each waits for the others    *)
(* with a patience that ends, so time is part of the model: Tick is one    *)
(* unit of it, and no task lets a unit pass that it has no cause to wait.  *)
(* A line's calls to the modem take any time; what a receipt's and a       *)
(* burst's calls take is part of the waits beside them.                    *)
(***************************************************************************)
EXTENDS Integers

CONSTANTS
  ListenMax,   \* three frames: how long a run of frames holds a receipt
  Cap,         \* emergency_max_defer_ms
  PeerMax,     \* ACK_PEER_RX_MAX
  OwnMax,      \* ACK_OWN_TX_MAX
  HandedMax,   \* OWN_HANDED_MAX
  AckMailWait, \* ACK_MAIL_WAIT
  AckDrain, AckDrainMax, \* drain_cap of a receipt, and with frames ahead of it
  MaxDefer,    \* max_defer_ms
  ChatGrace,   \* the 5 s a lease adds to it
  AckWait,     \* the 20 s a lease waits for a receipt
  LeaseWait,   \* each of its waits for the channel and the transmitter
  ChatDrain, BurstDrain,  \* the waits for frames to leave the modem
  MaxFail      \* modem calls that fail in one run

Patience == {ListenMax, Cap, PeerMax, OwnMax, HandedMax, AckMailWait, AckDrain, AckDrainMax,
             MaxDefer, ChatGrace, AckWait, LeaseWait, ChatDrain, BurstDrain}

ASSUME LeaseAssumption ==
  MaxFail \in Nat /\ \A p \in Patience : p \in Nat \ {0}

Kind == {"line", "receipt", "mail"}

VARIABLES
  paused, lease,  \* the queue's paused and mail_lease
  inFlight,       \* a line is off the queue and not yet at the modem
  cancelled,      \* in_flight_cancelled
  handed,         \* what is left of HandedMax since own_handed_at; 0 for none
  keyedSince,     \* own_keyed
  line,           \* pace_and_send: where it is, how long it may wait on
  receipt,        \* transmit_ack: where, how long, how long its busy test,
                  \* forced, sync test, and whether that test's last
                  \* pass read the modem's status
  burst,          \* burst: where, how long it may wait on
  rushed,         \* the waits of this burst for others that ran out
  config,         \* the modem's configuration
  inModem, ptt,   \* the kinds of frame the modem holds, and whether it keys
  stayed,         \* how long the modem has held a line
  fails, stuck    \* calls failed, and that a restore was one of them

airVars == <<paused, lease, inFlight, cancelled, handed, keyedSince>>
modemVars == <<config, inModem, ptt, stayed, fails, stuck>>
vars == <<airVars, line, receipt, burst, rushed, modemVars>>

OffReceipt == [at |-> "off", age |-> 0, test |-> 0, forced |-> FALSE, sync |-> FALSE, read |-> FALSE]
OffBurst == [at |-> "off", left |-> 0]

Largest == CHOOSE p \in Patience : \A q \in Patience : q <= p

LineStates == [at : {"off", "sensing", "checked", "set", "drain"}, left : 0..Largest]
ReceiptStates ==
  [at : {"off", "mail", "testing", "set", "send", "drain", "restore", "resume"},
   age : 0..Largest + Cap, test : 0..Cap,
   forced : BOOLEAN, sync : BOOLEAN, read : BOOLEAN]
BurstStates ==
  [at : {"off", "ack", "line", "clear", "stable", "set", "send", "drain", "restore", "release"},
   left : 0..2 * Largest]

TypeOK ==
  /\ {paused, lease, inFlight, cancelled, keyedSince, ptt, stuck} \subseteq BOOLEAN
  /\ handed \in 0..HandedMax /\ stayed \in 0..HandedMax /\ fails \in 0..MaxFail
  /\ line \in LineStates /\ receipt \in ReceiptStates /\ burst \in BurstStates
  /\ rushed \subseteq {"ack", "line"}
  /\ config \in {"chat", "forced", "mail"} /\ inModem \subseteq Kind

Init ==
  /\ paused = FALSE /\ lease = FALSE /\ inFlight = FALSE /\ cancelled = FALSE
  /\ handed = 0 /\ keyedSince = FALSE
  /\ line = [at |-> "off", left |-> 0] /\ receipt = OffReceipt
  /\ burst = OffBurst /\ rushed = {}
  /\ config = "chat" /\ inModem = {} /\ ptt = FALSE /\ stayed = 0
  /\ fails = 0 /\ stuck = FALSE

-----------------------------------------------------------------------------
\* Calls to the modem.  One that fails leaves the configuration as it was.
CallFails == fails < MaxFail /\ fails' = fails + 1
Configure(c) ==
  \/ config' = c /\ UNCHANGED <<fails, stuck>>
  \/ CallFails /\ UNCHANGED <<config, stuck>>
Restore ==
  \/ config' = "chat" /\ stuck' = FALSE /\ UNCHANGED fails
  \/ CallFails /\ stuck' = TRUE /\ UNCHANGED config

\* A frame to the modem, noted by the queue (note_keyed).
HandOver(k) ==
  /\ inModem' = inModem \cup {k}
  /\ handed' = HandedMax /\ keyedSince' = FALSE
  /\ UNCHANGED <<config, ptt, stayed, fails, stuck>>
NotHanded == CallFails /\ UNCHANGED <<handed, keyedSince, config, inModem, ptt, stayed, stuck>>

\* The modem keys all it holds in one go, and then holds nothing.  While it
\* contends for the channel with one frame it shows PTT off and an empty queue.
Keys ==
  /\ inModem # {} /\ ~ptt /\ ptt' = TRUE
  /\ UNCHANGED <<airVars, line, receipt, burst, rushed, config, inModem, stayed, fails, stuck>>
LetsGo ==
  /\ ptt /\ ptt' = FALSE /\ inModem' = {} /\ stayed' = 0
  /\ UNCHANGED <<airVars, line, receipt, burst, rushed, config, fails, stuck>>
ShowsBusy == ptt \/ \E k, l \in inModem : k # l

-----------------------------------------------------------------------------
\* The air queue: pop_ready and pace_and_send.
PopReady ==
  /\ line.at = "off" /\ ~paused /\ ~lease
  /\ line' = [at |-> "sensing", left |-> MaxDefer]
  /\ inFlight' = TRUE /\ cancelled' = FALSE
  /\ UNCHANGED <<paused, lease, handed, keyedSince, receipt, burst, rushed, modemVars>>

\* The line's receipt came; pace_and_send asks once, after it sensed.
CancelLine ==
  /\ line.at = "sensing" /\ ~cancelled /\ cancelled' = TRUE
  /\ UNCHANGED <<paused, lease, inFlight, handed, keyedSince, line, receipt, burst, rushed,
                 modemVars>>

LineSensed ==
  /\ line.at = "sensing"
  /\ line' = [line EXCEPT !.at = IF cancelled THEN "off" ELSE "checked"]
  /\ inFlight' = ~cancelled /\ cancelled' = FALSE
  /\ UNCHANGED <<paused, lease, handed, keyedSince, receipt, burst, rushed, modemVars>>

SetRung ==
  /\ line.at = "checked"
  /\ line' = [line EXCEPT !.at = "set"]
  /\ Configure("chat")
  /\ UNCHANGED <<airVars, receipt, burst, rushed, inModem, ptt, stayed>>

\* A frame that cannot be handed over is still in flight while the queue
\* waits out its airtime.
HandLine ==
  /\ line.at = "set"
  /\ line' = [at |-> "drain", left |-> ChatDrain]
  /\ \/ HandOver("line") /\ inFlight' = FALSE
     \/ NotHanded /\ UNCHANGED inFlight
  /\ UNCHANGED <<paused, lease, cancelled, receipt, burst, rushed>>

\* pop_ready, asked for the next item, clears in_flight, paused or not.
\* Mutant: it does so only for the item it takes.
ClearsForNext == UNCHANGED <<inFlight, cancelled>>
AsksForNext == inFlight' = FALSE /\ cancelled' = FALSE

\* The wait ends with the frames, its time, or a status read that fails.
LineDrained ==
  /\ line.at = "drain"
  /\ \/ ("line" \notin inModem \/ line.left = 0) /\ UNCHANGED fails
     \/ CallFails
  /\ line' = [line EXCEPT !.at = "off"] /\ AsksForNext
  /\ UNCHANGED <<paused, lease, handed, keyedSince, receipt, burst, rushed,
                 config, inModem, ptt, stayed, stuck>>

-----------------------------------------------------------------------------
\* A receipt: transmit_ack.  Receipts key one at a time (ack_lock).  The modem
\* tells a signal from hiss (FM), or it only tests the level.
Sync == receipt.sync
Receipt(at) == receipt' = [receipt EXCEPT !.at = at]

AckDue ==
  /\ receipt.at = "off"
  /\ \E sync \in BOOLEAN : receipt' = [OffReceipt EXCEPT !.at = "mail", !.sync = sync]
  /\ UNCHANGED <<airVars, line, burst, rushed, modemVars>>

\* Mutant: the lease is looked at earlier than the pause is set.
PausesAnyway == paused' = TRUE
PauseForAck == ~lease /\ paused' = TRUE

\* Without carrier sense (rf.csma) a receipt is sent at once.
AckStarts ==
  /\ receipt.at = "mail" /\ PauseForAck
  /\ \E at \in {"testing", "send"} : receipt' = [receipt EXCEPT !.at = at, !.age = 0]
  /\ UNCHANGED <<lease, inFlight, cancelled, handed, keyedSince, line, burst, rushed, modemVars>>

AckGivesUp ==
  /\ receipt.at = "mail" /\ lease /\ receipt.age = AckMailWait
  /\ receipt' = OffReceipt
  /\ UNCHANGED <<airVars, line, burst, rushed, modemVars>>

\* A status read tells the queue about PTT (note_ptt): our frame is out once
\* PTT was seen on and is off again.
NotePtt ==
  /\ keyedSince' = (Sync /\ handed # 0 /\ ptt)
  /\ handed' = IF keyedSince /\ ~ptt THEN 0 ELSE handed

\* Mutant: what was handed over and does not show is not asked about.
OwnShows == ShowsBusy \/ inFlight
\* ack_own_tx_pending, own_frame_on_its_way
OwnOnItsWay == ShowsBusy \/ inFlight \/ handed' # 0
OwnHolds == Sync /\ receipt.age < OwnMax

CapElapsed == (IF Sync THEN receipt.test ELSE receipt.age) >= Cap

\* A pass that waits on: our own frame starts the busy test again.
AckReads ==
  /\ receipt.at = "testing" /\ OwnHolds /\ NotePtt /\ OwnOnItsWay
  /\ receipt' = [receipt EXCEPT !.test = 0]
  /\ UNCHANGED <<paused, lease, inFlight, cancelled, line, burst, rushed, modemVars>>

\* A pass of the wait that ends it: with the busy test on once a sync modem
\* hears nothing, with it off at the cap, or over noise on a level modem.
AckReady ==
  /\ receipt.at = "testing" /\ NotePtt /\ (OwnHolds => ~OwnOnItsWay)
  /\ \/ Sync /\ ~ptt /\ ~CapElapsed /\ receipt' = [receipt EXCEPT !.at = "send", !.test = 0, !.read = TRUE]
     \/ (CapElapsed \/ ~Sync) /\ receipt' = [receipt EXCEPT !.at = "set", !.forced = TRUE, !.test = 0, !.read = Sync]
  /\ UNCHANGED <<paused, lease, inFlight, cancelled, line, burst, rushed, modemVars>>

\* Where the status read fails, no frame of ours and no carrier is seen.
AckUnread ==
  /\ receipt.at = "testing" /\ CallFails
  /\ \/ Sync /\ ~CapElapsed /\ receipt' = [receipt EXCEPT !.at = "send", !.test = 0]
     \/ CapElapsed /\ receipt' = [receipt EXCEPT !.at = "set", !.forced = TRUE, !.test = 0]
  /\ UNCHANGED <<airVars, line, burst, rushed, config, inModem, ptt, stayed, stuck>>

ForceTest ==
  /\ receipt.at = "set" /\ Receipt("send") /\ Configure("forced")
  /\ UNCHANGED <<airVars, line, burst, rushed, inModem, ptt, stayed>>

HandReceipt ==
  /\ receipt.at = "send"
  /\ receipt' = [receipt EXCEPT !.at = "drain", !.age = 0, !.test = 0, !.read = FALSE]
  /\ HandOver("receipt") \/ NotHanded
  /\ UNCHANGED <<paused, lease, inFlight, cancelled, line, burst, rushed>>

\* How long a receipt waits to leave the modem: shorter once a lease waits.
DrainLimit ==
  IF lease THEN AckDrain ELSE IF Sync /\ HandedMax > AckDrainMax THEN HandedMax ELSE AckDrainMax

AckDrained ==
  /\ receipt.at = "drain"
  /\ \/ /\ NotePtt /\ UNCHANGED fails
        /\ "receipt" \notin inModem \/ (Sync /\ handed' = 0) \/ receipt.age >= DrainLimit
     \/ CallFails /\ UNCHANGED <<handed, keyedSince>>
  /\ Receipt(IF receipt.forced THEN "restore" ELSE "resume")
  /\ UNCHANGED <<paused, lease, inFlight, cancelled, line, burst, rushed,
                 config, inModem, ptt, stayed, stuck>>

RestoreTest ==
  /\ receipt.at = "restore" /\ Receipt("resume") /\ Restore
  /\ UNCHANGED <<airVars, line, burst, rushed, inModem, ptt, stayed>>

\* Mutant: a receipt that ends under a lease leaves the queue as it is.
UnpauseOutsideLease == paused' = (paused /\ lease)
Unpause == paused' = FALSE

Resume ==
  /\ receipt.at = "resume" /\ receipt' = OffReceipt /\ Unpause
  /\ UNCHANGED <<lease, inFlight, cancelled, handed, keyedSince, line, burst, rushed, modemVars>>

-----------------------------------------------------------------------------
\* A mail burst: the steps of lease_sequence.
Burst(at, left) == burst' = [at |-> at, left |-> left]
BurstGoes(from) == burst.at = from /\ UNCHANGED <<line, receipt>>

HoldForMail == lease' = TRUE /\ UNCHANGED paused

BurstStarts ==
  /\ BurstGoes("off") /\ HoldForMail /\ Burst("ack", AckWait) /\ rushed' = {}
  /\ UNCHANGED <<inFlight, cancelled, handed, keyedSince, modemVars>>

\* A wait for another task ends when that is over, or in a hurry.
WaitOver(from, holds, next, left) ==
  /\ BurstGoes(from) /\ (holds => burst.left = 0) /\ Burst(next, left)
  /\ rushed' = IF holds THEN rushed \cup {from} ELSE rushed
  /\ UNCHANGED <<airVars, modemVars>>

AckWaited == WaitOver("ack", paused, "line", MaxDefer + ChatGrace)

\* Mutant: only a line that still waits for the channel is waited for.
StillSensing == line.at = "sensing"
ChatInFlight == inFlight
LineWaited == WaitOver("line", ChatInFlight, "clear", LeaseWait)
TxStable ==
  /\ BurstGoes("stable") /\ (ShowsBusy => burst.left = 0) /\ Burst("set", 0)
  /\ UNCHANGED <<airVars, rushed, modemVars>>

\* Mutant: a burst given up leaves the lease held.
JustEnds == Burst("off", 0)
EndsLease == Burst("release", 0)

\* wait_idle gives the burst up, wait_clear and wait_quiet go on.
ChannelClear ==
  /\ BurstGoes("clear")
  /\ \/ Burst("stable", LeaseWait)
     \/ burst.left = 0 /\ EndsLease
  /\ UNCHANGED <<airVars, rushed, modemVars>>

\* Nothing is left to send, or the mode is set.
SetMail ==
  /\ BurstGoes("set")
  /\ \/ Burst("release", 0) /\ UNCHANGED <<config, fails, stuck>>
     \/ config' = "mail" /\ Burst("send", 0) /\ UNCHANGED <<fails, stuck>>
     \/ CallFails /\ Burst("restore", 0) /\ UNCHANGED <<config, stuck>>
  /\ UNCHANGED <<airVars, rushed, inModem, ptt, stayed>>

\* Mutant: a frame that could not be handed over ends the burst at once.
LeavesAsItIs == "release"
AfterFailure == "restore"

SendMail ==
  /\ BurstGoes("send")
  /\ \/ HandOver("mail") /\ Burst("drain", BurstDrain)
     \/ NotHanded /\ Burst(AfterFailure, 0)
  /\ UNCHANGED <<paused, lease, inFlight, cancelled, rushed>>

BurstDrained ==
  /\ BurstGoes("drain") /\ ("mail" \notin inModem \/ burst.left = 0)
  /\ Burst("restore", 0)
  /\ UNCHANGED <<airVars, rushed, modemVars>>

RestoreChat ==
  /\ BurstGoes("restore") /\ Burst("release", 0) /\ Restore
  /\ UNCHANGED <<airVars, rushed, inModem, ptt, stayed>>

ReleaseMail ==
  /\ BurstGoes("release") /\ burst' = OffBurst /\ lease' = FALSE /\ rushed' = {}
  /\ UNCHANGED <<paused, inFlight, cancelled, handed, keyedSince, modemVars>>

-----------------------------------------------------------------------------
\* One unit of time: every task that waits has cause and patience to.
\* Mutant: the rest of a time runs below nothing.
RunsUnder(n) == n - 1
Less(n) == IF n = 0 THEN 0 ELSE n - 1

LinePasses ==
  \/ line.at \in {"off", "checked", "set"} /\ UNCHANGED line
  \/ line.at \in {"sensing", "drain"} /\ line.left > 0 /\ line' = [line EXCEPT !.left = @ - 1]

Older(test) == receipt' = [receipt EXCEPT !.age = @ + 1, !.test = test]
OwnPends == Sync /\ (ShowsBusy \/ inFlight \/ handed # 0)

\* A run of frames, our own frame or a frame on the air holds the busy test.
ReceiptPasses ==
  \/ receipt.at = "off" /\ UNCHANGED receipt
  \/ receipt.at = "mail" /\ lease /\ receipt.age < AckMailWait /\ Older(0)
  \/ receipt.at = "drain" /\ receipt.age < DrainLimit /\ Older(0)
  \/ /\ receipt.at = "testing"
     /\ \/ receipt.age < ListenMax /\ Older(0)
        \/ OwnHolds /\ OwnPends /\ Older(0)
        \/ Sync /\ receipt.age < PeerMax /\ Older(0)
        \/ (Sync => ~(OwnHolds /\ OwnPends)) /\ ~CapElapsed
           /\ Older(IF Sync THEN receipt.test + 1 ELSE 0)

BurstPasses ==
  \/ burst.at = "off" /\ UNCHANGED burst
  \/ /\ burst.at \in {"ack", "line", "clear", "stable", "drain"} /\ burst.left > 0
     /\ burst' = [burst EXCEPT !.left = @ - 1]

\* Status reads that fail let the busy test run under our own frame.
UnreadPasses ==
  /\ receipt.at = "testing" /\ Sync /\ ~CapElapsed /\ CallFails
  /\ Older(receipt.test + 1)

Tick ==
  /\ LinePasses /\ BurstPasses
  /\ (ReceiptPasses /\ UNCHANGED fails) \/ UnreadPasses
  /\ handed' = Less(handed) /\ keyedSince' = (keyedSince /\ handed > 1)
  /\ stayed' = IF "line" \in inModem /\ stayed < HandedMax THEN stayed + 1 ELSE stayed
  /\ UNCHANGED <<paused, lease, inFlight, cancelled, rushed, config, inModem, ptt, stuck>>

LineStep == LineSensed \/ SetRung \/ HandLine \/ LineDrained
ReceiptStep ==
  AckStarts \/ AckGivesUp \/ AckReady \/ AckUnread \/ ForceTest \/ HandReceipt \/ AckDrained \/ RestoreTest \/ Resume
BurstStep ==
  \/ AckWaited \/ LineWaited \/ ChannelClear \/ TxStable \/ SetMail \/ SendMail
  \/ BurstDrained \/ RestoreChat \/ ReleaseMail

Next ==
  \/ PopReady \/ CancelLine \/ LineStep
  \/ AckDue \/ AckReads \/ ReceiptStep
  \/ BurstStarts \/ BurstStep
  \/ Keys \/ LetsGo \/ Tick

Spec == Init /\ [][Next]_vars

\* Time passes, and each task takes its steps.
FairSpec ==
  /\ Spec /\ SF_vars(Tick)
  /\ WF_vars(LineStep) /\ WF_vars(ReceiptStep) /\ WF_vars(BurstStep)

-----------------------------------------------------------------------------
Setting == receipt.at \in {"set", "send", "drain", "restore"}
Bursting == burst.at \in {"send", "drain", "restore"}

\* Where the lease lost no patience, the modem has mail's configuration from
\* the time the burst set it until it puts chat's back (burst, mail/air.rs).
BurstKeepsItsMode == burst.at \in {"send", "drain"} /\ rushed = {} => config = "mail"

\* A receipt and a burst use the modem together only if the burst's wait for
\* the receipt ran out: a receipt that ends does not end the lease, and none
\* starts under it (pause_for_ack, hold_for_mail).
OverlapsOnlyInHurry == Setting /\ Bursting => "ack" \in rushed

\* Once nobody uses the modem it is back on chat's configuration, unless a
\* call to put it back failed (burst's clean-up, transmit_ack).
ChatComesBack == line.at # "set" /\ ~Setting /\ burst.at \notin {"send", "drain", "restore"} =>
  config = "chat" \/ stuck

\* On FM a receipt whose last pass read the modem's status is not handed over
\* on top of a line of ours the modem has yet to key, until one of the two
\* bounds for that is over (own_frame_on_its_way).
RidesNoLine ==
  [][HandReceipt /\ receipt.read =>
       "line" \notin inModem \/ stayed = HandedMax \/ receipt.age >= OwnMax]_vars

\* Whatever is heard and whoever waits for whom, the queue is not held for ever.
QueueRunsAgain == paused ~> ~paused
LeaseEnds == lease ~> ~lease

\* A line counts as in flight only while the queue is at it, also if it never
\* reached the modem: no receipt and no lease waits for it after that.
FlightEnds == inFlight ~> ~inFlight
=============================================================================
