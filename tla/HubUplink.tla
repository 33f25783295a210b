----------------------------- MODULE HubUplink -----------------------------
(***************************************************************************)
(* How one station hands frames to the internet hub (node.rs offer_hub and *)
(* the hub tick, hub_client.rs).  The main loop and the hold pump offer a  *)
(* frame; the hub tick flushes the frames that waited.  A frame goes       *)
(* through a bounded channel to the client, a task that dials, says hello  *)
(* and forwards.  A mode command cancels the client and starts another,    *)
(* and all clients share one flag.                                         *)
(***************************************************************************)
EXTENDS Naturals, Sequences

CONSTANTS
  Frame,
  Offerer,      \* the tasks that offer frames: "main", "pump"
  Room,         \* the client's channel holds 64 frames
  InRoom,       \* hub_in holds 64
  MaxClient,    \* clients started in one run: one more than mode changes
  Refusing,     \* the clients whose hello the hub may refuse
  Downlink      \* the hub sends frames for us

ASSUME UplinkAssumption ==
  /\ Frame # {}
  /\ Offerer \subseteq {"main", "pump"} /\ "main" \in Offerer
  /\ Room \in Nat \ {0} /\ InRoom \in Nat \ {0} /\ MaxClient \in Nat \ {0}
  /\ Refusing \subseteq 1..MaxClient /\ Downlink \in BOOLEAN

Task == Offerer \cup {"tick"}
Client == 1..MaxClient
Running == {"dialing", "hello", "ready", "blocked"}

VARIABLES
  internet,   \* the mode uses the internet
  hub,        \* txp.hub: the current client, 0 if none
  client,     \* each client's task: phase, cancelled, its channel
  flag, err,  \* hub_flag: connected, and why not
  hubOk, banner,  \* the snapshot's hub_ok and hub_banner
  pending,    \* pending_inet
  offered,    \* hub_offered
  marked,     \* hub_marked: shown or sent [gw]
  task,       \* how far each task is with its frame
  batch,      \* what the hub tick drained and has yet to send
  hubIn,      \* frames in hub_in, from the client to the main loop
  handed      \* how often each frame left for the hub, up to two

vars == <<internet, hub, client, flag, err, hubOk, banner, pending, offered, marked,
          task, batch, hubIn, handed>>
nodeVars == <<internet, hub, hubOk, banner>>
uplinkVars == <<pending, offered, marked, batch>>

Free == [at |-> "idle", frame |-> CHOOSE f \in Frame : TRUE, via |-> 0]
Idle(t) == task[t].at = "idle"

ClientTask ==
  [phase : Running \cup {"unborn", "ended"}, stopped : BOOLEAN, out : Seq(Frame)]
OfferStep ==
  [at : {"idle", "sending", "accepted", "declined", "holding"},
   frame : Frame, via : {0} \cup Client]

TypeOK ==
  /\ internet \in BOOLEAN /\ flag \in BOOLEAN /\ hubOk \in BOOLEAN
  /\ hub \in {0} \cup Client
  /\ client \in [Client -> ClientTask]
  /\ \A c \in Client : Len(client[c].out) <= Room
  /\ pending \in Seq(Frame) /\ batch \in Seq(Frame)
  /\ err \in {"", "lost", "refused"} /\ banner \in {"", "lost", "refused", "down"}
  /\ offered \subseteq Frame /\ marked \subseteq Frame
  /\ task \in [Task -> OfferStep]
  /\ hubIn \in 0..InRoom /\ handed \in [Frame -> 0..2]

Init ==
  /\ internet = TRUE /\ hub = 1
  /\ client = [c \in Client |-> [phase |-> IF c = 1 THEN "dialing" ELSE "unborn",
                                 stopped |-> FALSE, out |-> <<>>]]
  /\ flag = FALSE /\ err = "" /\ hubOk = FALSE /\ banner = ""
  /\ pending = <<>> /\ offered = {} /\ marked = {}
  /\ task = [t \in Task |-> Free] /\ batch = <<>>
  /\ hubIn = 0 /\ handed = [f \in Frame |-> 0]

-----------------------------------------------------------------------------
\* offer_hub, in the steps between which other tasks run: look at hub_offered
\* and the flag; await room in the channel; then record the frame, or look at
\* the flag once more and hold the frame.

\* Mutant: hub_offered is not asked.
AnyCopy(f) == TRUE
Unoffered(f) == f \notin offered

Offer(t, f) ==
  /\ Idle(t) /\ internet /\ Unoffered(f)
  /\ task' = [task EXCEPT ![t] =
       [at |-> IF flag /\ hub # 0 THEN "sending" ELSE "declined", frame |-> f, via |-> hub]]
  /\ UNCHANGED <<nodeVars, client, flag, err, uplinkVars, hubIn, handed>>

\* Mutant: one place too many.
OneTooMany(c) == Len(client[c].out) <= Room
HasRoom(c) == Len(client[c].out) < Room

\* HubClient::send: waits for room, and fails once the client's task is gone.
\* The hub tick marks what it sent and drops what it could not send.
Send(t) ==
  LET c == task[t].via
      f == task[t].frame
  IN
  /\ task[t].at = "sending"
  /\ \/ /\ client[c].phase = "ended"
        /\ task' = [task EXCEPT ![t] = IF t = "tick" THEN Free ELSE [@ EXCEPT !.at = "declined"]]
        /\ UNCHANGED <<client, marked>>
     \/ /\ client[c].phase # "ended" /\ HasRoom(c)
        /\ client' = [client EXCEPT ![c].out = Append(@, f)]
        /\ task' = [task EXCEPT ![t] = IF t = "tick" THEN Free ELSE [@ EXCEPT !.at = "accepted"]]
        /\ marked' = IF t = "tick" THEN marked \cup {f} ELSE marked
  /\ UNCHANGED <<nodeVars, flag, err, pending, offered, batch, hubIn, handed>>

Record(t) ==
  /\ task[t].at = "accepted"
  /\ offered' = offered \cup {task[t].frame}
  /\ marked' = marked \cup {task[t].frame}
  /\ task' = [task EXCEPT ![t] = Free]
  /\ UNCHANGED <<nodeVars, client, flag, err, pending, batch, hubIn, handed>>

Decline(t) ==
  /\ task[t].at = "declined"
  /\ task' = [task EXCEPT ![t] = IF ~flag \/ hub = 0 THEN [@ EXCEPT !.at = "holding"] ELSE Free]
  /\ UNCHANGED <<nodeVars, client, flag, err, uplinkVars, hubIn, handed>>

\* Mutant: the frame is recorded as offered but not held.
Forget(t) ==
  /\ task[t].at = "holding"
  /\ offered' = offered \cup {task[t].frame}
  /\ task' = [task EXCEPT ![t] = Free]
  /\ UNCHANGED <<nodeVars, client, flag, err, pending, marked, batch, hubIn, handed>>
Hold(t) ==
  /\ task[t].at = "holding"
  /\ pending' = Append(pending, task[t].frame)
  /\ offered' = offered \cup {task[t].frame}
  /\ task' = [task EXCEPT ![t] = Free]
  /\ UNCHANGED <<nodeVars, client, flag, err, marked, batch, hubIn, handed>>

-----------------------------------------------------------------------------
\* The hub tick, once a second unless it is still sending.
TickIdle == Idle("tick") /\ batch = <<>>

\* The banner shown while the hub is down.
DownBanner == IF err # "" THEN err ELSE IF hubOk THEN "down" ELSE banner

\* When the hub comes up the pending frames are taken out to be sent; when a
\* hello is refused they are dropped, and our own lines are shown [no].
Look ==
  /\ TickIdle
  /\ hubOk' = (flag /\ internet)
  /\ \/ /\ hubOk' /\ ~hubOk
        /\ batch' = pending /\ pending' = <<>>
        /\ UNCHANGED banner
     \/ /\ hubOk' /\ hubOk
        /\ banner' = "" /\ UNCHANGED <<pending, batch>>
     \/ /\ ~hubOk' /\ internet
        /\ banner' = DownBanner
        /\ pending' = IF DownBanner = "refused" /\ banner # "refused" THEN <<>> ELSE pending
        /\ UNCHANGED batch
     \/ /\ ~hubOk' /\ ~internet
        /\ UNCHANGED <<banner, pending, batch>>
  /\ UNCHANGED <<internet, hub, client, flag, err, offered, marked, task, hubIn, handed>>

\* The next drained frame; without a client it is dropped.
FlushNext ==
  /\ Idle("tick") /\ batch # <<>>
  /\ batch' = Tail(batch)
  /\ task' = [task EXCEPT !["tick"] =
       IF hub = 0 THEN Free ELSE [at |-> "sending", frame |-> Head(batch), via |-> hub]]
  /\ UNCHANGED <<nodeVars, client, flag, err, pending, offered, marked, hubIn, handed>>

-----------------------------------------------------------------------------
\* The main loop takes a frame of the hub's, or a mode command.
TakeIn ==
  /\ Idle("main") /\ hubIn > 0
  /\ hubIn' = hubIn - 1
  /\ UNCHANGED <<nodeVars, client, flag, err, uplinkVars, task, handed>>

StopHub ==
  /\ Idle("main") /\ internet
  /\ internet' = FALSE /\ hub' = 0
  /\ client' = [client EXCEPT ![hub].stopped = TRUE]
  /\ flag' = FALSE /\ hubOk' = FALSE /\ banner' = "" /\ pending' = <<>>
  /\ UNCHANGED <<err, offered, marked, task, batch, hubIn, handed>>

StartHub ==
  /\ Idle("main") /\ ~internet
  /\ \E c \in Client :
       /\ client[c].phase = "unborn"
       /\ \A d \in 1..(c - 1) : client[d].phase # "unborn"
       /\ hub' = c /\ client' = [client EXCEPT ![c].phase = "dialing"]
  /\ internet' = TRUE
  /\ UNCHANGED <<flag, err, hubOk, banner, uplinkVars, task, hubIn, handed>>

-----------------------------------------------------------------------------
\* The client's task.
Becomes(c, phase) == client' = [client EXCEPT ![c].phase = phase]
Flag(up, why) == flag' = up /\ err' = why
Elsewhere == UNCHANGED <<nodeVars, uplinkVars, task>>

\* A client pauses a second or more before it dials, so a tick has seen that
\* it was down, unless the tick was busy.
Dial(c) ==
  /\ client[c].phase = "dialing" /\ ~client[c].stopped
  /\ ~hubOk \/ ~TickIdle
  /\ Becomes(c, "hello")
  /\ UNCHANGED <<flag, err, hubIn, handed>> /\ Elsewhere

DialFails(c) ==
  /\ client[c].phase = "dialing"
  /\ Flag(FALSE, "lost")
  /\ UNCHANGED <<client, hubIn, handed>> /\ Elsewhere

Accepted(c) ==
  /\ client[c].phase = "hello"
  /\ Becomes(c, "ready") /\ Flag(TRUE, "")
  /\ UNCHANGED <<hubIn, handed>> /\ Elsewhere

Refused(c) ==
  /\ c \in Refusing /\ client[c].phase = "hello"
  /\ Becomes(c, "dialing") /\ Flag(FALSE, "refused")
  /\ UNCHANGED <<hubIn, handed>> /\ Elsewhere

\* The connection ends: the hub closed it, or a frame could not be written,
\* and that frame is lost.  Mutant: the flag stays up.
LoseQuietly(c) ==
  /\ client[c].phase \in {"hello", "ready"}
  /\ \/ Becomes(c, "dialing")
     \/ /\ client[c].out # <<>>
        /\ client' = [client EXCEPT ![c].phase = "dialing", ![c].out = Tail(@)]
  /\ UNCHANGED <<flag, err, hubIn, handed>> /\ Elsewhere
Lose(c) ==
  /\ client[c].phase \in {"hello", "ready"}
  /\ \/ Becomes(c, "dialing")
     \/ /\ client[c].out # <<>>
        /\ client' = [client EXCEPT ![c].phase = "dialing", ![c].out = Tail(@)]
  /\ Flag(FALSE, IF client[c].phase = "ready" THEN "lost" ELSE err)
  /\ UNCHANGED <<hubIn, handed>> /\ Elsewhere

Forward(c) ==
  /\ client[c].phase \in {"hello", "ready"} /\ client[c].out # <<>>
  /\ client' = [client EXCEPT ![c].out = Tail(@)]
  /\ handed' = [handed EXCEPT ![Head(client[c].out)] = IF @ = 2 THEN 2 ELSE @ + 1]
  /\ UNCHANGED <<flag, err, hubIn>> /\ Elsewhere

\* A frame from the hub: the task does nothing else until hub_in has room.
Deliver(c) ==
  /\ Downlink /\ client[c].phase = "ready"
  /\ Becomes(c, "blocked")
  /\ UNCHANGED <<flag, err, hubIn, handed>> /\ Elsewhere

Delivered(c) ==
  /\ client[c].phase = "blocked" /\ hubIn < InRoom
  /\ hubIn' = hubIn + 1 /\ Becomes(c, "ready")
  /\ UNCHANGED <<flag, err, handed>> /\ Elsewhere

\* A cancelled task clears the flag as it goes, its channel's frames with it.
End(c) ==
  /\ client[c].phase \in {"dialing", "hello", "ready"} /\ client[c].stopped
  /\ client' = [client EXCEPT ![c].phase = "ended", ![c].out = <<>>]
  /\ Flag(FALSE, err)
  /\ UNCHANGED <<hubIn, handed>> /\ Elsewhere

Offering(t) == Send(t) \/ Record(t) \/ Decline(t) \/ Hold(t)

Next ==
  \/ \E t \in Offerer, f \in Frame : Offer(t, f)
  \/ \E t \in Task : Offering(t)
  \/ Look \/ FlushNext \/ TakeIn \/ StopHub \/ StartHub
  \/ \E c \in Client :
       \/ Dial(c) \/ DialFails(c) \/ Accepted(c) \/ Refused(c) \/ Lose(c)
       \/ Forward(c) \/ Deliver(c) \/ Delivered(c) \/ End(c)

Spec == Init /\ [][Next]_vars

\* Every task works on, a hub that is asked again and again takes the client
\* again and again, and a client is not for ever torn from its sending.
FairSpec ==
  /\ Spec
  /\ \A t \in Task : WF_vars(Offering(t))
  /\ WF_vars(Look) /\ WF_vars(FlushNext) /\ WF_vars(TakeIn)
  /\ \A c \in Client :
       /\ WF_vars(Dial(c)) /\ SF_vars(Accepted(c)) /\ SF_vars(Forward(c))
       /\ WF_vars(Delivered(c)) /\ WF_vars(End(c))
-----------------------------------------------------------------------------
Quiet == \A t \in Task : Idle(t)
\* No cancelled client is still on its way out.
NoneLeaving == \A c \in Client : client[c].stopped => client[c].phase = "ended"

\* With every cancelled client gone, the flag says connected only while the
\* current client's hello stands (ArcFlag, stop_hub).
FlagIsNotStale ==
  flag /\ NoneLeaving => hub # 0 /\ client[hub].phase \in {"ready", "blocked"}

\* While the first client is in use and none of its hellos was refused, what is
\* recorded as offered was sent or waits: "A failed send is not recorded, so a
\* later copy can try again" (offer_hub).
LaterCopyCanTry ==
  Quiet /\ batch = <<>> /\ hub = 1 /\ hub \notin Refusing =>
    \A f \in offered : f \in marked \/ \E i \in 1..Len(pending) : pending[i] = f

\* Where the main loop alone offers (internet mode), a frame goes to the hub
\* once, whatever is held, flushed or offered again (offer_hub).
HandedOnce == \A f \in Frame : handed[f] <= 1

\* The main loop, which also serves the radio, comes back from each frame it
\* offers: if the hub goes away, radio keeps working (docs/MODES.md).
MainComesBack == ~Idle("main") ~> Idle("main")
=============================================================================
