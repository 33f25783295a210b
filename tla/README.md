# A TLA+ model of weechat-radio (`wcr`)

`wcr` is a chat node for amateur radio. A station keys short lines over a slow,
lossy, shared channel; other stations relay them, receipts come back the same
way, and the sender's IRC client sees a mark per line: `[..]` waiting, `[tx]`
keyed, `[rl]` heard back, `[gw]` taken by the internet hub, `[no]` given up,
`[ok]` received, `[all]` received by a whole closed group. The same program
carries mail over the air, talks to an internet hub, supervises a modem and
serves a web portal.

This directory holds TLA+ modules of the parts that decide what a mark means
and what goes on the air, TLC runs over small networks, and TLAPS proofs.

## The system

| Component | State it keeps | Operations | Talks to |
|---|---|---|---|
| Relay rules (`relay.rs`) | none (pure), `AckSides`, `Exchanges` | accept, suppress, relay, walk, answer, give up | called by the node |
| Message store (`store/mod.rs`) | rows: mark, hops, hold, retries, suppressed; group receipts; rosters | insert, advance, hold, bump, expire, flush | every task, one SQLite connection behind a lock |
| Node runtime (`node.rs`) | sets and maps in memory: heard downstream, carried on, copies keyed, receipts keyed, neighbours | receive handler, hold pump, retry (ARQ) loop, hub tick, beacon loop, commands | store, air queue, IRC, hub, mail |
| Air queue (`air.rs`) | queue of frames, pauses, carrier sense | enqueue, cancel, pace and send, key a receipt beside the queue | modem, mail lease |
| Radio mail (`mail/air.rs`, `mail/store.rs`, `mail/pick.rs`) | outbox rows, the waits for answers, Auto's list of gateways | send, retry, give up, ask, handle an answer | lease, gateways by radio |
| Mail gateway (`mail/gateway.rs`) | chunks heard of each mail, mails accepted | collect, report, post, answer | hub mail, radio |
| Radio lease (`mail/lease.rs`, `burst` in `mail/air.rs`) | the queue's pauses, what the modem was handed | wait for a receipt, a line, the channel; set a mode, send, put it back | air queue, modem |
| Hub (`net/`) | connected stations, a ten minute store, mail accepted and mail for stations | register, forward, deliver, hand a mail to Resend | hub client of each node |
| Update and restart (`update.rs`, `update_cli.rs`, `restart.rs`, `web/software.rs`) | the installed program and its backup, a note on the last update | install, restart when the radio is idle, probation, roll back | the whole process |
| IRC server (`ircd.rs`) | clients, the furthest mark shown per line | commands, TAGMSG marks | node |
| Modem (`modem/`, `tnc/`, `btaudio/`) | process and link state | start, supervise, KISS | node |
| Web, GUI, TUI, telemetry, GPS, path service | configuration and views | handlers | node |

What is hard here, and why tests reach little of it:

* The network is a distributed protocol over loss. Every station decides from
  hop counts and its own row whether a frame is an echo, a relay further on, or
  a retry from behind; one wrong comparison ends the line or never ends it.
* Timers of several loops (hold pump, ARQ, receipts) race with frames.
* A restart keeps the rows and forgets all that was heard.
* Several tasks write one mark through a read and a write under two locks, and
  report to the client on their own.
* Tasks hand frames to each other through bounded channels and shared flags, and
  read before an await what they write after it.
* Three users of one modem (lines, receipts, mail) change its settings and wait
  for each other, and every wait is cut off by a cap of its own.
* A mail passes three programs (station, gateway, hub), and any of them may stop
  between having done a thing and having said so.
* An update replaces the program that must undo it if it does not run.

The correctness of each part, in a sentence: the *rules* send receipts home and
lines outward, never more often than the caps, and spend a hop each time; the
*store* moves marks forward only; the *node* shows marks that are true, gives up
only a line nobody was heard to take, and falls silent in the end; the *air
queue* keys no copy of a finished line; the *lease* lets mail and a receipt use
the modem together only when its patience has run out, and puts chat's settings
back; *mail* shown as sent was sent, once for each gateway, and none waits for
ever; an *update* keeps only a program that stayed up, and undoes any other; the
*hub store* delivers a line kept for a station on its next hello, within ten
minutes.

The components, with what is left out and why, are also listed in
`PROJECT.json`, as are the hazards of the code at their lines.

## Modules

| Module | Models |
|---|---|
| `Delivery` | the marks, their ranks, and which mark may be written over which (`store/mod.rs`) |
| `RelayRules` | the pure decisions of `relay.rs` |
| `LineRelay` | one line and its receipts on a network of stations in `radio` mode: store rows, receive handler, hold pump, ARQ loop, air queue copy, receipt tasks, faults |
| `LineService` | what the network promises the sender of a line, without stations' insides |
| `MCLineRelay` | networks to check: stations in a line |
| `MarkStore` | the three tasks that write and show the mark of one line, statement by statement |
| `HubUplink` | a station's frames on their way to the hub: two tasks and a tick that offer, hold and flush; the client's task; mode commands |
| `RadioLease` | the air queue, a receipt and a mail burst that share one modem, with time |
| `MailService` | what is promised to the writer of a mail |
| `MailTransfer` | one mail from a station over any of several gateways to the hub and Resend |
| `Update` | installing a release, probation, rollback, restart |
| `LineRelayProofs`, `LineQuietProofs`, `MarkStoreProofs`, `HubUplinkProofs`, `RadioLeaseProofs`, `MailTransferProofs`, `MailTypesProofs`, `UpdateProofs` | theorems |

`LineRelay` composes `RelayRules` and `Delivery` and implements `LineService`;
`MailTransfer` composes station, gateways and hub and implements `MailService`.
The other modules stand alone: what they share with `LineRelay` is a queued frame,
which there is keyed at any later time, and the stored mark.

### LineRelay

A station is a record: `row` is the messages table (a row per frame: the line,
and a receipt per station), `receipts` the group receipts table; the other
fields are the maps of `Runtime` that this line appears in (`downstream_heard`,
`relay_copies`, `retries_heard`, `own_receipts`, `carried_on`, `rl_painted`),
the copy in the air queue, and receipt tasks still to key. The handlers are
operators from a station to a station, in the code's order; the actions apply
them:

| Action | Code |
|---|---|
| `SendLine` | `send_chat_with` |
| `Receive` | main select loop, `on_envelope` with `Engine::on_rx`: `OwnFrameHeard`, `Accept`, `LineArrived`, `AckArrived`, `MaybeAnswerRetry`, `RelayHeardRetry`, `ResendHeldAcks` |
| `HoldDue` | hold pump, one due row |
| `RetryDue`, `AckWaitDue` | ARQ loop, `retry_due` and `ack_wait_due` |
| `KeyLine` | `run_air_queue`, `pace_and_send` |
| `KeyAck` | `key_ack_now` |
| `Expire`, `HoldAged`, `Flush`, `Restart` | the age limit on own and others' rows, `/radio flush`, the program stopping and starting |

Abstractions. Time is not a number. A hold that is armed may come due in any
later step, unless `Patient` says timers outlast what is under way: a
first-relay jitter is at most about a second, the first retry is eight seconds
and more, and a receipt is waited for through `Exchanges`, so a retry meets a
network that has finished with the previous copy. The minimum gaps (`relay_due`,
`ack_due`, `relay_copy_too_soon`) may or may not have run out when asked if
`Overdue`, and have always run out otherwise; this makes the pump's own gap, which
only postpones to a later tick, invisible. The neighbour list is any set of
neighbours (beacons get lost), complete when `Aware`. A frame is kept once per
station while undecoded, so two equal copies on the air at the same moment are
one; a copy keyed again later is a new frame. Loss is any subset of the
neighbours, or at most `MaxLosses` missed frames.

`FairSpec` is weak fairness of each station's own work (`Works`): the air queue,
the receipt tasks, the main loop, and the one-second ticks of the pump and the
ARQ loop. These are tokio tasks in endless loops, none of which waits on another
station. Sending a line, loss and faults are not fair.

### LineService

Two variables: the sender's mark and the set of stations that have the line. A
line spreads only from a station that has it to one that can hear it; a mark is
shown only when earned (`[ok]` of a direct line: the addressee has it; `[all]`:
every member has it) and only moves forward. `ServesLine` is refinement: `mark`
is the row at the origin, `holders` the stations with a row. It holds with loss,
restarts, flushes and the age limit.

### MarkStore

`advance_delivery` calls `delivery_of` and `set_delivery`, each taking the
connection's lock: `Decide` and `Write`. `writing[t]` is what task `t` decided
in between, `painting[t]` what it is about to show, `shown` the IRC server's memory
of the furthest mark. Showing is two steps as well: `take_mark` refuses a lower mark and
notes a higher one under the lock of the clients (`Take`); the lock is dropped, and the
mark is sent over a bounded channel, which is awaited (`Tell`). `telling[t]` is what a
task took and has not sent yet; `told` and `last` are the furthest and the last mark the client
was sent, and `crossed` says that two tasks have had one each to send at one time.

The main loop awaits each handler (`MainFree`). Sending is three steps, as
`send_chat_with` awaits between them: the row is stored `[..]`, the line is
dispatched (the hub takes it, it waits in `pending_inet`, or neither), and only
then `[tx]` is written. A receipt is advanced twice, by `Engine::on_rx` and by
`on_envelope`, and then shown. The ARQ loop and the hub tick run beside it. The
ARQ loop gives up from a snapshot (`due`) that may be old; the age limit and the
flush hold the lock from SELECT to UPDATE and are one step (`Fail`). The hub tick
(`Reconnect`) empties `pending_inet`, and for a refused hub shows `[no]` without
storing it. `[retry]` marks, which are shown past `take_mark`, and the marks a client gets with
its history are left out.

### HubUplink

The node's end of the hub. `task[t]` is how far the main loop, the hold pump or
the hub tick is with the frame it offers; `client[c]` is the task of the `c`-th
client with its cancel token and channel; `flag` and `err` are the `ArcFlag` that
every client is given; `pending`, `offered`, `marked` are `pending_inet`,
`hub_offered`, `hub_marked`; `hubIn` counts frames in `hub_in`. The atomic steps
are those between awaits, and between two readings of the flag:

| Action | Code |
|---|---|
| `Offer`, `Send`, `Record`, `Decline`, `Hold` | `offer_hub` and `mark_hub_forward`: test `hub_offered` and the flag; await room; record, or read the flag again; hold |
| `Look`, `FlushNext` | hub tick: set `hub_ok`, banner, take the hold out to send it or drop it; send one frame |
| `TakeIn` | main loop: one frame of the hub's |
| `StopHub`, `StartHub` | mode command: `stop_hub` and the cleared hold, `start_hub` |
| `Dial` to `End` | `HubClient::connect`: dial, hello accepted or refused, frames out, frames in, connection lost, cancelled |

Abstractions. `marked` is what the client is shown as `[gw]` or the originator is
told; kinds that are never marked are left out. The test of `hub_offered` and the first
reading of the flag are one step: they have no await between. A refusal is one
value, whatever its wording; peers and LAN copies wait for nothing here. Backoff
times are not numbers, but a client pauses a second before it dials again, so
the tick, which looks once a second, has seen it down unless it was busy sending
(`Dial`). `MaxClient` bounds the number of mode commands, and `handed` counts to two.
A cancelled client may take any time to end: `sink.send` and `incoming.send` are
awaited outside the `select!` that watches the token.

`FairSpec`: the offering tasks, the tick and the main loop work on (each is a
tokio task that nothing but its own await stops), a client dials again and ends
when cancelled. `Accepted` and `Forward` are strongly fair: a hub that is asked again and
again takes the hello again and again, and a client that is connected again and
again writes again. Without it a hub that is down for ever keeps a frame in the
channel for ever.

### RadioLease

`line`, `receipt` and `burst` are the three users of the modem, each a place in its
code and the time it may still wait there. `paused`, `lease`, `inFlight`,
`cancelled`, `handed`, `keyedSince` are the fields of the air queue they
synchronise on. `config` is whose settings the modem has, `inModem` the kinds of
frame it holds, `ptt` whether it keys.

| Action | Code |
|---|---|
| `PopReady`, `LineSensed`, `SetRung`, `HandLine`, `LineDrained`, `AsksForNext` | `run_air_queue`, `pop_ready`, `pace_and_send`, `wait_for_tx_drain` |
| `CancelLine` | `AirQueue::cancel` |
| `AckDue`, `AckStarts`, `AckGivesUp` | `pause_for_ack` and the wait for a lease to end |
| `AckReads`, `AckReady`, `AckUnread`, `ForceTest`, `HandReceipt`, `AckDrained`, `RestoreTest`, `Resume` | `transmit_ack` |
| `BurstStarts`, `AckWaited`, `LineWaited`, `ChannelClear`, `TxStable`, `ReleaseMail` | `lease_sequence`, `hold_for_mail`, `release_mail` |
| `SetMail`, `SendMail`, `BurstDrained`, `RestoreChat` | `burst` |
| `Keys`, `LetsGo` | the modem: external |
| `Tick` | one unit of time |

Abstractions. `Tick` takes one unit of time from every wait, and a task that has
no reason or no patience to wait lets none pass; the constants are the code's
caps, and what counts is that they are positive and which is the longer. A line's
calls to the modem (its rung, the hand-over) take any time; what a receipt's and a
burst's take counts with the waits beside them. The
channel is any: a task that listens may hear something in each unit. A modem that
contends for the channel with a single frame shows PTT off and an empty queue, as the
comment on `own_frame_on_its_way` says; `handed` is the queue's memory of it.

Any call to the modem may fail, `MaxFail` times. A setting that fails leaves the settings as
they were (`Configure`, `Restore`). A line that cannot be handed over (`NotHanded`)
stays in flight while the queue waits out its airtime, until `pop_ready` is asked for
the next (`AsksForNext`). A wait for frames to leave the modem ends when a status read
fails. A receipt whose status read fails sees neither a frame of ours nor a carrier, and
goes on or lets its busy test run (`AckUnread`, `UnreadPasses`); `receipt.read` says that the pass that
ended the wait did read. Without `rf.csma` a receipt is sent at once (`AckStarts`).
A burst restores the preset it read at its start; here there is one, `"chat"`.

### MailTransfer

One mail. `row` is its row in the station's outbox, `via` the gateways it was
keyed to, `wait` and `due` the mail task's timers and queued commands, `lease` the
burst that waits for the radio, `inbox` answers noted and not yet handled, `pick`
and `ask` Auto's list and its making; `gate[g]` a gateway's `Assembler` and what it is
doing with the mail, `relay` the mails gateways know accepted, `hub` the hub's row
and how often Resend took the mail of each gateway.

| Action | Code |
|---|---|
| `SendFinished`, `SendLocates`, `SendRouted` | `send_one`, `route`, `untried_gateway`, `rf_send` up to the lease |
| `Key`, `KeyNothing`, `KeyHeld`, `KeyFails` | `rf_send` once the lease has the radio, holds, `burst_failed` |
| `AckWait` | `on_ack_wait`, `give_up`, `reset_for_gateway` |
| `Hear` | the gateway's `on_incoming`, `Assembler::put_chunk` |
| `OnQuiet` | `on_quiet`: post, answer again or report |
| `HubChecks`, `ResendTakes`, `HubRecords`, `Accepted`, `PostFails` | `deliver`, the hub's `post_send` |
| `Reply` | the gateway keys an answer; the station's `on_rf` notes it |
| `AcceptMail`, `RejectMail`, `HaveReport` | `apply_mail` |
| `StartAsk`, `AskDone`, `PickAges` | `start_ask`, `finish_ask`, `auto_tick`, an old pick |
| `Retry`, `Restart`, `RestartGateway` | Retry in the Email tab, `fail_unfinished`, a gateway starting again |

The mail task handles one command at a time and a burst is one (`TaskFree`), yet
what it hears while its lease waits is noted in the row at once (`Noted`): this is
why `Key` looks at the row again.

Abstractions. A mail is its chunks; the first names its writer and its gateway.
A gateway's collection is a set of chunks, in the order of the burst where the order counts
(`Collect`). `Restart` may come at any moment, and forgets whatever the mail task had under way.
`pick.stale` says why a list of gateways is no longer good: it is old, or the band or preset
changed, after which Auto asks by itself whatever its list (`AsksItself`); `ask.cmd` counts the Ask
commands still queued, and one ask that ends leaves the others. An ask is one step,
with any list of gateways as its result; those missing cost a loss each. A hold that comes
before the lease is counted as one after it
(`KeyHeld`), with the same end. Timers are not numbers: a wait that ends while a
gateway is busy with the mail, though the waits are made to outlast that, costs a loss.
`due`, `ask.cmd` and `ask.after` count to two.

### Update

`wcr` and `bak` are the installed program and its backup, each the version it is;
`marker` the note `wcr-update.json`; `process` the running `wcr web`; `job[a]` an
install or restart under way, from the web panel or a terminal. `proven` and
`started` record which versions stayed up and how often one on probation was started, and
`torn` that a failure left program, backup and note not going together.

| Action | Code |
|---|---|
| `Press`, `MoveAside`, `PutNew`, `TryNew`, `WriteNote` | `install`, `install_binary`, `new_binary_starts`, `restore_files`, the note |
| `HangUp`, `RestartNow`, `GoesQuiet`, `Restart`, `GivesUp` | `wcr restart`, the panel's restart, `safe_restart` with `confirm_before_deliberate_restart` |
| `Boot`, `Dies`, `Keep`, `GiveWay` | `on_start`, `watch_probation`, `confirm`, `roll_back` |
| `Release`, `PowerCut` | a newer release; the machine goes down between two steps |

A release is its number. `Broken` ones cannot print their version, `Bad` ones start
and die. `Patient` says that nobody presses a second time before the first
update is settled and while a good version runs: nothing in the code keeps a panel and a
terminal apart.

Each file operation may fail (`Fault`), and what the code then does is that action's
other disjunct: a program that cannot be moved aside is overwritten (`MoveAside`); a failed
copy ends the install with nothing put back (`PutNew`); a failed restore leaves the broken
program (`TryNew`) or lets the version on probation go on (`RollBack`); a note that
cannot be written stays or is lost (`Unsaved`), which leaves a new version without
probation (`WriteNote`), a start uncounted (`StartOn`) or an update not confirmed (`Keep`).

## Runs

| Run | Instance | Checks |
|---|---|---|
| `LineDirect` | direct line, 3 stations, any loss, gaps running, timers at any time, one fault | `TypeOK`, `HopsAreSpent`, `FinishedIsNotKeyed`, `MarksAreTrue`, `GivesUpOnlyUnheard`, `MarksMoveForward`, `ServesLine` |
| `LineClosed` | closed group of 3, 2 losses, fair, patient | `MarksAreTrue`, `ReceiptsGoHome`, `AnsweredDespiteOneLoss` |
| `BulletinAnswered` | bulletin, 4 stations, 2 retries, 2 losses, fair, patient, aware | `ReceiptsGoHome`, `CopiesAreCapped`, `LineIsAnswered`, `AirFallsSilent` |
| `MarkStore` | one line, three tasks | `ClientKeepsUp`, `LastWordStands` |
| `HubUplink` | 2 frames, 2 clients, channels of 1, refusals, frames from the hub | `TypeOK`, `FlagIsNotStale`, `HandedOnce`, `LaterCopyCanTry` |
| `RadioLease` | caps of 1 and 2 units, one failed call, fair | `TypeOK`, `BurstKeepsItsMode`, `OverlapsOnlyInHurry`, `ChatComesBack`, `RidesNoLine`, `QueueRunsAgain`, `LeaseEnds`, `FlightEnds` |
| `MailTransfer` | Auto with 2 gateways, 2 chunks, 1 retry, 3 troubles, fair | `TypeOK`, `PostedOncePerGateway`, `ServesMail`, `SentStays`, `MailEnds`, `GetsThrough` |
| `Update` | 5 releases, one broken, one bad, two power cuts or failed file operations, fair | `UpdateTypeOK`, `KeptHasStayedUp`, `StartsAreBounded`, `RollbackIsPrevious`, `BadGivesWay`, `StationComesBack` |
| `HubCircle` | 2 frames, 1 client, frames from the hub, fair | finds `MainComesBack` violated |
| `ReceiptBudget` | 3 stations | finds `ReceiptHasItsBudget` violated |
| `MarkStoreRace` | one line, three tasks | finds `ReceiptedStays` violated |
| `MailRetry` | one named gateway, 2 chunks, fair | finds `RetryEnds` violated |

Runs of one line, one mail and one series of releases say `CHECK_DEADLOCK FALSE`: a
network that has finished with its line stops, and so on. Runs of `HubUplink` and
`RadioLease` check deadlock.

What the less obvious properties say:

* `FinishedIsNotKeyed`: at a station whose row says `[ok]` (direct) or `[all]` no copy of
  the line is left in the air queue.
* `ReceiptsGoHome`: a station relays only receipts of stations that heard the line
  with fewer hops left than it did itself. Checked without faults: past the age limit
  (`HoldAged`) the row of the line has no hops left to compare with.
* `GivesUpOnlyUnheard`: the retries write `[no]` only once they are spent, and only where the
  sender heard neither a relay nor a receipt.
* `LaterCopyCanTry`: a frame that is recorded as offered was handed to the
  client or waits for it.
* `ClientKeepsUp`, `LastWordStands`: once all three tasks are done with a line, the furthest
  mark its client was sent is at least the stored one, and so is the last one, unless two
  tasks each had a mark to send at one time.
* `RidesNoLine`: on FM a receipt whose last look read the modem's status is not handed over on
  top of a line the modem has still to key, which would key both in one go, until one of the
  two bounds on that wait is over.
* `FlightEnds`: a line does not count as in flight for ever, also if it never reached the
  modem. Receipts and leases wait for a line in flight, each to a cap, and would do so
  every time.
* `SentStays`: excepts three holes of the code, see below.
* `GetsThrough`: a mail with no failure and one loss is sent, whichever thing was lost.
* `BadGivesWay`: a version that dies is replaced by its predecessor, however its deaths
  fall between starts, unless the operator restarted it and so kept it, or a file
  operation failed.
* `StationComesBack`: a station that is down runs again, also after failures, if there is still an
  installed program that starts.
* `RollbackIsPrevious`: also after a power cut, a failed copy and a count that was not
  saved; not once a backup could not be made or put back, or a note not be written.

### Bounds

Three stations in a line are the least with a relay whose two sides differ; four
have a relay that hears neither end. A hop budget of the number of stations lets
a line reach the end with a hop to spare, so that echoes from beyond still count;
`PrioTtl` below `Ttl` is a routine group line, whose budget exceeds its
priority's. One retry gives each frame its copy, its retry and its last wait;
`BulletinAnswered` has two so that first relay, repeats and answers to retries meet
at the cap of three. `MaxFaults` 1 puts one restart, flush or age limit at every
moment of a line's life.

Channels of one frame stand for channels of 64: what matters is full or not. Two
frames fill one and wait; a second client is the one a mode command starts while
the first still ends. In `HubUplink` only the second client's hello may be
refused, so that `LaterCopyCanTry` speaks of the first.

In `RadioLease` the constants keep the code's order of the caps that meet
(a receipt's wait for our own frame is longer than what the queue remembers, a
lease's wait for a receipt shorter than what a receipt may take), so every wait
can run out before and after every other that it can in the code. There is one
line, one receipt and one burst at a time because queue, `ack_lock` and mail task
take them one at a time, and each comes again for ever.

In `MailTransfer` two gateways are the least between which Auto changes; two chunks
the least of which one is reported and one is missing; `ProbeMin` 1 makes the probe
happen. `Cap` 1 means one retry per gateway, then the next gateway, then the second
ask. `MaxTrouble` 3 has three of losses, failures and presses anywhere, and is a bound
of what `MailEnds` says: see what is known of radio mail below.
`Update`'s five releases are the first, a good one, one that is broken, one that is bad, and
a last good one; two starts are allowed on probation, as in the code. `MaxFault` 2 has a
second failure meet what the first one left.

### Fairness

* `LineRelay`: `FairSpec` as above.
* `HubUplink`: `FairSpec` as above.
* `RadioLease`: `Tick` strongly, since time passes whatever steps compete with it;
  the line's, the receipt's and the burst's own steps weakly (tokio tasks that end every wait by
  a cap). The modem owes nothing: it may hold a frame for ever, and every wait for
  it is capped; but it answers each call, sooner or later and with an error perhaps, as the code sets
  no time limit on a call (`modem/control.rs`). That new lines, receipts and bursts are due is not fair.
* `MailTransfer`: the mail task's handlers, its timers, a gateway's handlers and its
  answers. Losses, faults, presses and old picks are not fair.
* `Update`: installs under way, the restart asked for by a terminal, the service manager that
  starts what is down, the end of probation, and a restart that waits for the radio: it goes
  quiet or the wait is given up (`GoesQuiet \/ GivesUp`), and then the station restarts
  (`Restart`). Faults, presses and deaths are not fair.

`LineIsAnswered` needs losses within `MaxLosses`, `Patient`, and gaps that have
run out: with gaps running (`Overdue`) a line can end `[no]` without any loss,
because a middle station that relayed too recently does not pass the retry on.
A bulletin also needs `Aware`: a relay that heard nobody but the originator drops
its copy as an echo.

### What the violation runs found

* `ReceiptBudget`: `finish_ack_walk` writes zero hops into our own receipt's row;
  a later retry of the line keys that row again. The comment in `acknowledge`
  gives a receipt the hop budget of the message, and `docs/PROTOCOL.md` says a
  retry is answered again so that a lost receipt does not end at `[rl]`. With no
  hops the neighbour stores it as the end of its way or takes it for a copy
  heard further on.
* `MarkStoreRace`: the retries of a line are spent; the ARQ loop reads `[tx]` in
  `advance_delivery` and decides on `[no]`; the main loop handles the line's receipt and writes `[ok]`;
  the ARQ loop writes `[no]` over it. The client keeps `[ok]` until
  the program restarts and replays its history.
* `HubCircle`: the main loop waits in `offer_hub` for room to the client, and the
  client in `incoming.send` for room to the main loop. With 64 frames waiting in
  each direction the node handles nothing any more, the radio included, against
  `docs/MODES.md` ("radio keeps working").
* `MailRetry`: `reset_for_retry` keeps the chunks that gateways reported. A mail
  all of whose chunks were reported and whose outcome was lost fails; Retry makes it
  queued, `rf_send` finds nothing missing, returns without a timer, and the
  mail is queued for ever and offers no Retry. `docs/EMAIL.md` says it is sent
  again from the start.

### Known, and stated by no run

TLC finds each of these when asked; they are what the properties above except, or
hold only under a condition that the cfg or the property names.

Marks:

* Two tasks that took a mark each send them in either order: the client of a line that
  the hub tick marks `[gw]` while its receipt is handled may be sent `[ok]` and then `[gw]`, against
  the comment on `shown` in `ircd.rs` ("Marks never move back"). `LastWordStands`
  excepts it by `crossed`.
* `bind_delivery` takes the client whose line is being sent for the one a mark is for,
  whichever line the mark is of. It needs two clients and two lines; `MarkStore` has one of each,
  and a client that is there throughout.

Hub uplink:

* The flag can be down while the current client's hello stands: a cancelled client stuck in
  a write (a connection that died without a reset blocks for minutes) ends after
  its successor is connected and clears the flag both share. The station holds its
  frames, against `docs/MODES.md` ("go out when the hub returns"). `FlagIsNotStale` is
  the direction that holds.
* With `Offerer = {"main", "pump"}`, the station of `internet-radio` mode that
  also relays, `HandedOnce` is violated: two tasks pass the test of `hub_offered`
  before either writes it, most easily while the first waits for room.
* With `1 \in Refusing`, `LaterCopyCanTry` is violated: a held frame counts as
  offered, and a refused hello drops it, so that a later copy is not offered.
* A task that read the flag as down may put its frame on hold after the tick
  saw the hub come up and drained the hold. The frame waits for the next
  disconnect.

Radio lease:

* A receipt and a lease can both set the modem, against the comment on `pause_for_ack`,
  when the lease's 20 s for a receipt run out: a receipt may wait longer than that
  for our own transmission and a peer's (`OverlapsOnlyInHurry` excepts it).
* `wait_tx_stable` reads PTT and the modem's queue, and a modem that contends with one
  frame shows neither: mail's settings can be set with a line of ours still in the modem.
* A line that is taken back after `pace_and_send` last looked is keyed all the same.
* A receipt whose last status read failed, or one without `rf.csma`, may be handed over on top
  of a line the modem has still to key (`RidesNoLine` speaks of the others).
* A line whose calls to the modem are slow outlasts a lease's wait for it, and so does one that
  could not be handed over and counts as in flight for its airtime.

Radio mail:

* A mail shown as sent is failed in three ways (`SentStays` excepts them): by an ask
  that finds nobody while a Send command waits for it (`refuse_after_ask`); by
  the late failure of another gateway the mail was keyed to; and by a restart while a
  modem call that failed has queued it again (`bump_retry`) and the acceptance that had come meanwhile
  is noted but not handled: `fail_unfinished` fails it, and the acceptance is
  forgotten. The run reaches the last two; the first takes four troubles. Short
  of the restart, such a mail is queued until its acceptance is handled.
* With four troubles `MailEnds` is violated: two late reports of different gateways, handled after
  `give_up` reset the mail for the next gateway and before its Send, fill the list of chunks received;
  `rf_send` then finds nothing to key and arms no timer, as after Retry in
  `MailRetry`. The run's three troubles do not reach it.
* Two gateways that complete the mail from one burst can both pass the hub's look for
  a duplicate before either has a row, and Resend takes it twice, against the comment
  in `net/hub_mail.rs` at the look. `PostedOncePerGateway` therefore counts for each gateway.
  A hub handler that is dropped after Resend took the mail leaves no row (`hub.cut`).
* A partial report counts whoever it is for: a station takes the report of a gateway it
  did not key the mail to. After that gateway restarts, what it reported is not sent to it again.
* `via` is in order of first use, so a retry goes to the gateway first used last, not to
  the one used last.
* Under Auto, Retry does not clear `tried`: the mail can fail at once, unkeyed.

Update:

* A power cut between the two renames, or a copy that fails, leaves no program; one between
  the files and the note, or a note that cannot be written, leaves a new version without probation:
  `StationComesBack` and `BadGivesWay` except these.
* A count that cannot be saved gives a version on probation another start
  (`StartsAreBounded` excepts it).
* A program that could not be moved aside is no backup, and one that cannot be put back is
  noted as rolled back and runs on (`RollbackIsPrevious` speaks of the others).
* `confirm` keeps whatever the note is about, not what runs, and two installers at once
  take each other's new program for the one to keep: `KeptHasStayedUp` and
  `RollbackIsPrevious` need `Patient`.

## Proofs

`LineRelayProofs` proves of `Spec`, for every set of stations, every neighbour
relation, each kind of line and any bounds:

* `TypeCorrect`, `HopsSpent`, `MarksTrue`: the invariants `TypeOK`,
  `HopsAreSpent`, `MarksAreTrue`;
* `MarksForward`: `MarksMoveForward`;
* `Serves`: `ServesLine`, the refinement of `LineService`.

From `NetworkAssumption` (who exists, who hears whom, distances that grow by at
most one over a hop) and `BoundsAssumption`.

The inductive invariant `IInv` has, beside `TypeOK`, for each station `Sound`:
its row of the line exists only if it holds it, receipts it stores or counted
come from stations that have the line, its marks are earned, hops and queued
copies are within their distance budget; and `Heard`, the same for frames on the
air. Marks alone are not inductive: a receipt under way will turn into a mark, so
what a receipt in the inbox or in a task means has to be part of the invariant.
Each handler has a lemma that it keeps `Sound` and moves no mark back (`Keeps`);
the actions compose them; the set of holders only grows, by one station that
hears another (`StationStep`, `StepFrom`, `LocalStep`). `Serves` follows from the
same lemmas.

`LineQuietProofs` builds on those lemmas and proves, from the same assumptions:

* `FinishedQuiet`: `FinishedIsNotKeyed`;
* `CopiesCapped`: `CopiesAreCapped`;
* `GivesUpUnheard`: `GivesUpOnlyUnheard`;
* `HomewardUntilFault`: `ReceiptsGoHome`, while `faults = 0`, for any `MaxFaults`.

The first two are parts of `AllGood`, which speaks of each station alone: nothing is
queued of a line that is finished or absent, and the copies of a foreign frame are at
most one more than the cap. The cap is not inductive as it stands: the first relay is
keyed without a look at it, so `CappedAt` says how much is left while that relay is
still to come (`Early`). Most of what a handler does neither queues nor counts a copy:
`Calms` is that relation, it composes, and only what dispatches a copy (`DispatchGood`,
`ResendGood`) is taken against the cap. `GivesUpUnheard` needs `SenderTold`: a sender
that stores a receipt has marked its line. Receipt and mark are two writes of one
handler, and the second is refused over a mark of the same rank or a later one: every
case ends with the line marked.

`HomewardUntilFault` rests on `AllHome`. A station weighs a receipt once, when it
stores it, against the hop count of its copy of the line as it is then; it may key
the receipt much later, from the hold or because of a later copy of the line. So
`Home` speaks of the receipts a station may still key (`Carried`: counted, on hold,
or stored and not among its `sides`), and what the comparison said has to last
(`Toward`). It lasts while the line's hop count does, and the hold pump zeroes that of a
row it finds it may not relay: `Ready` says the line is released before it comes to
that. The two numbers compared are of two stations; that a receipt's body says what its
sender still holds is `Answered`: a receipt anywhere is stored by its sender, who writes
`heardAt` only with it. `Stays` and `Adds` say what a handler does to all this, and compose.
After a fault the bound is not claimed: the age limit zeroes the hop count of a line that
is carried on, and a restart forgets the sides; the relayed receipt is then a
repeat too many, which the cap on copies ends.

`MarkStoreProofs` proves `MarkInvariant`, `KeepsUp` (`ClientKeepsUp`) and `LastWord`
(`LastWordStands`). `MInv` says that for each mark the store holds, some task took as much to
show, or is still to write or take as much (`Covered`); which task may be doing
what at that moment (`Roles`, `Turns`); and that what was taken is sent or on its way, and, as
long as no two sends have crossed, that one mark is on its way at most, the furthest taken,
which is the last one sent once it has arrived (`Sends`).

`HubUplinkProofs` proves of `HubUplink`'s `Spec`, from `UplinkAssumption` alone,
`UplinkInvariant`, `UplinkTypes` (`TypeOK`) and `FlagNotStale` (`FlagIsNotStale`), for any
number of clients and frames and any capacities. `FlagIsNotStale` speaks of states where no cancelled
client is left; to be inductive it needs `FlagUp` (the flag is up only while some
client's hello stands, a cancelled one's perhaps) and `Current` (a client that runs and is
not cancelled is the current one).

On top of `Inv` stand two more. `LaterCopy` (`LaterCopyCanTry`, whoever offers frames):
while the first client is the current one and is not refused, no other was started,
it is not cancelled, neither error nor banner speaks of a refusal, what is being sent
goes to it, and each frame recorded as offered is marked, on hold, drained for the
flush or being flushed. `HandedAtMostOnce` (`HandedOnce`) assumes `Offerer = {"main"}`,
one task that offers frames: a frame is on hold, drained, being sent, or handed, never
two of these and never twice, and lies in one client's channel at most; once it is
anywhere, it is recorded as offered or the main task is about to record it, so that
the test of `hub_offered` keeps a second copy out. With a second offering task the
property fails, as said above.

`RadioLeaseProofs` proves, from `LeaseAssumption`, `LeaseTypes` (`TypeOK`),
`OverlapHurry`, `KeepsMode`, `ChatBack` and `ReceiptRidesNoLine`, for any positive caps
and any number of failing calls. `IInv` has `TypeOK`; `QueueIsHeld`, that a receipt
past its start has the queue paused, that the lease is held exactly while there is a burst,
that a line between the queue and the modem is in flight, and that a burst
past its wait for a receipt or a line meets one only if that wait ran out; `InTime`, which bounds a
receipt's age; and `ConfigIsOwned`, whose settings the modem has at each place of each
user. `ReceiptRidesNoLine` (`RidesNoLine`) needs more (`Ride`): while a line is in the modem,
`own_handed_at` and its stay there add up to the longest wait (`Noted`); once PTT went on
and off the line is out (`SeenOut`); and a receipt whose last look read the status
found the line out or past that wait, with none in flight to follow (`Looked`). A receipt whose
read failed claims nothing (`YetToLook` keeps `read` down until the look). The look and the hand-over
are separate steps, calls of others may fail between them, and `Looked` is what holds there.

`MailTransferProofs` proves `PostedOnce` (`PostedOncePerGateway`), `SentStaysSent`
(`SentStays`) and `Serves` (`ServesMail`, the refinement of `MailService`) for any set of gateways, any number of chunks,
losses and failures. `IInv` is `Shapes`, the fields of the records alone, since what is
proved needs no more of the types; `Once`, that a mail Resend took of a gateway
is in the hub or that gateway is about to record it; `TakenFirst`, that whoever knows of
an acceptance (hub, gateway, an answer under way, the row) knows it of a mail that was
taken; and `HeardLater`, that a mail the row shows as sent while a lease still
waits has its acceptance in the inbox, without which a failing burst would show
it as failed. `SentStaysSent` rests on `HeardLater` too: each write of the row is looked
at, and what is left are the three ways that `SentStays` names: the end of an ask that a Send waits for,
another gateway's failure, and a restart with an acceptance in the inbox of a row that is
queued again. `HeardLater` does not reach the third: it speaks of a row shown as sent, and a failing
burst has taken that back.

`MailTypesProofs` proves `MailTypes` (`TypeOK`). What makes it more than bookkeeping is
the last gateway tried, `via[Len(via)]`, which a wait, a report and a quiet gap all take:
`Silent` says that before the first burst there is none of these. `Capped` bounds the
retries of a mail that may still be sent, and `Leased` says that a burst has its
gateway. The lemmas on `via` (no gateway twice, room for the next one) come from
`FS_Injection`.

`UpdateProofs` proves `UpdateTypes` (`UpdateTypeOK`) for any `Patient`, and for one update at a time
`KeptStayedUp` (`KeptHasStayedUp`), `RollbackPrevious` (`RollbackIsPrevious`) and
`StartsBounded` (`StartsAreBounded`), with any number of power cuts and failed file operations. `TInv`
is the types with `Counts`, which bounds the note's count by the faults there were. `Sound` says
that at most one install is under way (`OneJob`), that what watches its probation is what
the note is about (`Watched`), and, as long as nothing is `torn`, that files, note, job
and process go together (`GoTogether`): an install's from and to fit the files at
each of its steps (`JobIsSound`), the note fits the files once it is written
(`NoteIsSound`) and the process runs what is installed or, where a copy failed, its
backup (`RunsInstalled`). A fault that breaks `GoTogether` sets `torn` in the same step, and the others are
shown to keep it. `StartsBounded` adds `Trusted`, which holds until the first fault: outside a probation
what is installed did stay up, in one what came before did, and the note has counted every start.

Only model-checked: liveness (`AirFallsSilent`, `LineIsAnswered`,
`AnsweredDespiteOneLoss`, `QueueRunsAgain`, `LeaseEnds`, `FlightEnds`, `MailEnds`, `GetsThrough`,
`BadGivesWay`, `StationComesBack`), which the prover does not reach.

## Not modelled, and why

The modules cover the tasks that decide what is sent and what a user is told about it.
Most of the repository's lines are none of that: the desktop, terminal and web
interfaces, configuration and setup, presets, telemetry, GPS and weather, the path
service, byte links and audio devices are conversions, layout and I/O. They keep
no protocol state, and a model of them would say nothing.

Left out though they have state worth a model:

* The hub server's ten minute store and its race with the addressee's hello; mail
  the hub fetches, copy-to, limits, delivery events. `HubUplink` and `MailTransfer`
  have what they need of the hub: hello accepted or refused, and a mail sent on.
* Reassembly of a split frame (`frag.rs`): a line fits one frame in `LineRelay`.
* Beacons, the exchange tracker, and `AckSides` for receipts without a hop byte.
* Numbers for time in `LineRelay`: a pump tick is one step there, so its rows read
  before an await are not stale. The caps whose lengths matter are in `RadioLease`.
* Commands and mode changes of the node other than those of `HubUplink`; modes other
  than `radio` beyond the mark (`MarkStore`) and the hub (`HubUplink`).
* In `MailTransfer`: list and get requests, copy-to and delivery checks, more than
  one mail, the slots of an ask.
* In `Update`: choosing and downloading a release, the test aid `simulate_failure`,
  the half-written file that a failed copy may leave (here it leaves the old one or none), a second
  failure inside one `restore_files`, Windows' replacement of a running program, and the
  libraries beside the program, which a rollback does not put back.
* In `RadioLease`: congestion, class order, the narrow-mode wait and the hold for a
  mail that was heard.
