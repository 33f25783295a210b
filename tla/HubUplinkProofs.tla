-------------------------- MODULE HubUplinkProofs --------------------------
(***************************************************************************)
(* Whatever the hub, the commands and the channels do, the flag that all   *)
(* clients share is not left up by one that is gone; no frame the station  *)
(* offered is forgotten while the hub refuses nothing; and a frame goes to *)
(* the hub once where the main loop alone offers.                          *)
(***************************************************************************)
EXTENDS HubUplink, TLAPS

Up == {"ready", "blocked"}

\* Who sends, sends through a client; the internet is used through one; of all
\* clients started only the current one is not cancelled; the flag is up only
\* while some client's hello stands, a cancelled one's perhaps.
SendsToClient == \A t \in Task : task[t].at = "sending" => task[t].via \in Client
Current ==
  /\ internet <=> hub # 0
  /\ \A c \in Client : client[c].phase \in Running => c = hub \/ client[c].stopped
FlagUp == flag => \E c \in Client : client[c].phase \in Up
Inv == TypeOK /\ SendsToClient /\ Current /\ FlagUp
-----------------------------------------------------------------------------
LEMMA Queues ==
  /\ <<>> \in Seq(Frame) /\ Len(<<>>) = 0
  /\ \A q \in Seq(Frame), f \in Frame :
       Append(q, f) \in Seq(Frame) /\ Len(Append(q, f)) = Len(q) + 1
  /\ \A q \in Seq(Frame) : Len(q) \in Nat
  /\ \A q \in Seq(Frame) : q # <<>> =>
       Head(q) \in Frame /\ Tail(q) \in Seq(Frame) /\ Len(Tail(q)) = Len(q) - 1
OBVIOUS

LEMMA Rooms == Room \in Nat \ {0} /\ InRoom \in Nat \ {0}
BY UplinkAssumption

LEMMA FreeIsTyped == Free \in OfferStep
BY UplinkAssumption DEF Free, OfferStep

\* The station starts with one client dialing and the flag down.
LEMMA InitInv == ASSUME Init PROVE Inv
<1>1. Free \in OfferStep /\ Free.at # "sending"
  BY FreeIsTyped DEF Free
<1>2. 1 \in Client /\ 0 \notin Client
  BY UplinkAssumption DEF Client
<1>3. client \in [Client -> ClientTask] /\ \A c \in Client : client[c].out = <<>>
  BY Queues DEF Init, ClientTask, Running
<1>6. TypeOK
  <2>1. \A c \in Client : Len(client[c].out) <= Room
    BY <1>3, Queues, Rooms
  <2>2. hubIn \in 0..InRoom /\ handed \in [Frame -> 0..2] /\ task \in [Task -> OfferStep]
    <3>1. 0 \in 0..InRoom
      BY Rooms
    <3>2. handed \in [Frame -> 0..2]
      <4>1. 0 \in 0..2
        OBVIOUS
      <4> QED
        BY <4>1 DEF Init
    <3> QED
      BY <1>1, <3>1, <3>2 DEF Init
  <2>3. internet \in BOOLEAN /\ flag \in BOOLEAN /\ hubOk \in BOOLEAN
    BY DEF Init
  <2>4. /\ hub \in {0} \cup Client
        /\ pending \in Seq(Frame) /\ batch \in Seq(Frame)
        /\ err \in {"", "lost", "refused"} /\ banner \in {"", "lost", "refused", "down"}
        /\ offered \subseteq Frame /\ marked \subseteq Frame
    BY <1>2, Queues DEF Init
  <2> QED
    BY <1>3, <2>1, <2>2, <2>3, <2>4 DEF TypeOK
<1>4. SendsToClient /\ FlagUp
  BY <1>1 DEF Init, SendsToClient, FlagUp
<1>5. Current
  BY <1>2 DEF Init, Current, Running
<1> QED
  BY <1>4, <1>5, <1>6 DEF Inv

\* A task that moves on leaves the clients and the flag alone.
LEMMA TaskMoves ==
  ASSUME Inv, NEW t \in Task, NEW s \in OfferStep,
         s.at = "sending" => s.via \in Client,
         task' = [task EXCEPT ![t] = s]
  PROVE  task' \in [Task -> OfferStep] /\ SendsToClient'
BY DEF Inv, TypeOK, SendsToClient

\* A channel that changes leaves the clients' phases alone.
LEMMA ChannelChanges ==
  ASSUME Inv, NEW c \in Client, NEW q \in Seq(Frame), Len(q) <= Room,
         client' = [client EXCEPT ![c].out = q],
         UNCHANGED <<internet, hub, flag>>
  PROVE  /\ client' \in [Client -> ClientTask]
         /\ \A d \in Client : Len(client'[d].out) <= Room
         /\ Current' /\ FlagUp'
<1>1. client \in [Client -> ClientTask]
  BY DEF Inv, TypeOK
<1>2. client' = [client EXCEPT ![c] = [@ EXCEPT !.out = q]]
  OBVIOUS
<1>3. client' \in [Client -> ClientTask]
  BY <1>1, <1>2 DEF ClientTask
<1>4. \A d \in Client : /\ client'[d].phase = client[d].phase
                        /\ client'[d].stopped = client[d].stopped
                        /\ client'[d].out = IF d = c THEN q ELSE client[d].out
  BY <1>1, <1>2 DEF ClientTask
<1> QED
  BY <1>3, <1>4 DEF Inv, TypeOK, Current, FlagUp

\* A client that enters another phase keeps its place, cancelled or not.
LEMMA PhaseChanges ==
  ASSUME Inv, NEW c \in Client, NEW p \in Running \cup {"ended"},
         NEW q \in Seq(Frame), Len(q) <= Room,
         client[c].phase \in Running,
         client' = [client EXCEPT ![c] = [@ EXCEPT !.phase = p, !.out = q]],
         UNCHANGED <<internet, hub>>,
         flag' => p \in Up \/ (flag /\ client[c].phase \notin Up)
  PROVE  /\ client' \in [Client -> ClientTask]
         /\ \A d \in Client : Len(client'[d].out) <= Room
         /\ Current' /\ FlagUp'
<1>1. client \in [Client -> ClientTask]
  BY DEF Inv, TypeOK
<1>2. client' \in [Client -> ClientTask]
  BY <1>1 DEF ClientTask
<1>3. \A d \in Client : /\ client'[d].phase = IF d = c THEN p ELSE client[d].phase
                        /\ client'[d].stopped = client[d].stopped
                        /\ client'[d].out = IF d = c THEN q ELSE client[d].out
  BY <1>1 DEF ClientTask
<1>4. Current'
  BY <1>3 DEF Inv, Current
<1>5. FlagUp'
  BY <1>3 DEF Inv, FlagUp
<1> QED
  BY <1>2, <1>3, <1>4, <1>5 DEF Inv, TypeOK

-----------------------------------------------------------------------------
\* The steps of an offer.
LEMMA OfferInv ==
  ASSUME Inv, NEW t \in Offerer, NEW f \in Frame, Offer(t, f)
  PROVE  Inv'
<1> DEFINE s == [at |-> IF flag /\ hub # 0 THEN "sending" ELSE "declined",
                 frame |-> f, via |-> hub]
<1>1. t \in Task /\ task' = [task EXCEPT ![t] = s]
  BY DEF Offer, Task
<1>2. s \in OfferStep /\ (s.at = "sending" => s.via \in Client)
  BY DEF Inv, TypeOK, OfferStep
<1> HIDE DEF s
<1>3. task' \in [Task -> OfferStep] /\ SendsToClient'
  BY <1>1, <1>2, TaskMoves
<1> QED
  BY <1>3 DEF Offer, Inv, TypeOK, Current, FlagUp, nodeVars, uplinkVars

LEMMA SendInv == ASSUME Inv, NEW t \in Task, Send(t) PROVE Inv'
<1> DEFINE c == task[t].via
           f == task[t].frame
           s == IF t = "tick" THEN Free
                ELSE [task[t] EXCEPT !.at = IF client[c].phase = "ended"
                                            THEN "declined" ELSE "accepted"]
           q == Append(client[c].out, f)
<1>1. task[t] \in OfferStep /\ c \in Client /\ f \in Frame
  BY DEF Send, Inv, TypeOK, SendsToClient, OfferStep
<1>2. s \in OfferStep /\ s.at # "sending"
  BY <1>1, FreeIsTyped DEF OfferStep, Free
<1>3. task' = [task EXCEPT ![t] = s]
  BY DEF Send
<1>4. task' \in [Task -> OfferStep] /\ SendsToClient'
  <2> HIDE DEF s
  <2> QED BY <1>2, <1>3, TaskMoves
<1>5. marked' \subseteq Frame
  BY <1>1 DEF Send, Inv, TypeOK
<1>6. /\ client' \in [Client -> ClientTask]
      /\ \A d \in Client : Len(client'[d].out) <= Room
      /\ Current' /\ FlagUp'
  <2>1. CASE UNCHANGED client
    BY <2>1 DEF Send, Inv, TypeOK, Current, FlagUp, nodeVars
  <2>2. CASE HasRoom(c) /\ client' = [client EXCEPT ![c].out = Append(@, f)]
    <3>1. q \in Seq(Frame) /\ Len(q) <= Room
      <4>1. client[c].out \in Seq(Frame)
        BY <1>1 DEF Inv, TypeOK, ClientTask
      <4> QED
        BY <1>1, <2>2, <4>1, Queues, Rooms DEF HasRoom
    <3>2. client' = [client EXCEPT ![c].out = q]
      BY <2>2
    <3> HIDE DEF q
    <3> QED
      BY <1>1, <3>1, <3>2, ChannelChanges DEF Send, nodeVars
  <2> QED
    BY <2>1, <2>2 DEF Send
<1> HIDE DEF c, f, s, q
<1> QED
  BY <1>4, <1>5, <1>6 DEF Send, Inv, TypeOK, nodeVars

LEMMA OfferingInv == ASSUME Inv, NEW t \in Task, Offering(t) PROVE Inv'
<1>1. task[t] \in OfferStep
  BY DEF Inv, TypeOK
<1>2. CASE Send(t)
  BY <1>2, SendInv
<1>3. ASSUME task' = [task EXCEPT ![t] = Free]
      PROVE  task' \in [Task -> OfferStep] /\ SendsToClient'
  BY <1>3, FreeIsTyped, TaskMoves DEF Free
<1>4. CASE Record(t)
  BY <1>1, <1>3, <1>4 DEF Record, Inv, TypeOK, Current, FlagUp, OfferStep, nodeVars
<1>5. CASE Decline(t)
  <2> DEFINE s == IF ~flag \/ hub = 0 THEN [task[t] EXCEPT !.at = "holding"] ELSE Free
  <2>1. s \in OfferStep /\ s.at # "sending"
    BY <1>1, FreeIsTyped DEF OfferStep, Free
  <2>2. task' = [task EXCEPT ![t] = s]
    BY <1>5 DEF Decline
  <2> HIDE DEF s
  <2>3. task' \in [Task -> OfferStep] /\ SendsToClient'
    BY <2>1, <2>2, TaskMoves
  <2> QED
    BY <1>5, <2>3 DEF Decline, Inv, TypeOK, Current, FlagUp, nodeVars, uplinkVars
<1>6. CASE Hold(t)
  <2>1. Append(pending, task[t].frame) \in Seq(Frame)
    BY <1>1, Queues DEF Inv, TypeOK, OfferStep
  <2> QED
    BY <1>1, <1>3, <1>6, <2>1 DEF Hold, Inv, TypeOK, Current, FlagUp, OfferStep, nodeVars
<1> QED
  BY <1>2, <1>4, <1>5, <1>6 DEF Offering

-----------------------------------------------------------------------------
\* The hub tick, the main loop's other work and the mode commands.
LEMMA TickInv == ASSUME Inv, Look \/ FlushNext PROVE Inv'
<1>1. CASE Look
  <2>1. hubOk' \in BOOLEAN
    BY <1>1 DEF Look
  <2>2. banner' \in {"", "lost", "refused", "down"}
    BY <1>1 DEF Look, DownBanner, Inv, TypeOK
  <2>3. pending' \in Seq(Frame) /\ batch' \in Seq(Frame)
    BY <1>1, Queues DEF Look, Inv, TypeOK
  <2>4. SendsToClient' /\ Current' /\ FlagUp'
    BY <1>1 DEF Look, Inv, SendsToClient, Current, FlagUp
  <2> QED
    BY <1>1, <2>1, <2>2, <2>3, <2>4 DEF Look, Inv, TypeOK
<1>2. CASE FlushNext
  <2> DEFINE s == IF hub = 0 THEN Free
                  ELSE [at |-> "sending", frame |-> Head(batch), via |-> hub]
  <2>1. Head(batch) \in Frame /\ Tail(batch) \in Seq(Frame)
    BY <1>2, Queues DEF FlushNext, Inv, TypeOK
  <2>2. s \in OfferStep /\ (s.at = "sending" => s.via \in Client)
    BY <2>1, FreeIsTyped DEF OfferStep, Free, Inv, TypeOK
  <2>3. "tick" \in Task /\ task' = [task EXCEPT !["tick"] = s]
    BY <1>2 DEF FlushNext, Task
  <2> HIDE DEF s
  <2>4. task' \in [Task -> OfferStep] /\ SendsToClient'
    BY <2>2, <2>3, TaskMoves
  <2> QED
    BY <1>2, <2>1, <2>4 DEF FlushNext, Inv, TypeOK, Current, FlagUp, nodeVars
<1> QED
  BY <1>1, <1>2

LEMMA TakeInInv == ASSUME Inv, TakeIn PROVE Inv'
<1>1. hubIn' \in 0..InRoom
  <2>1. hubIn \in 0..InRoom
    BY DEF Inv, TypeOK
  <2>2. hubIn > 0
    BY DEF TakeIn
  <2>3. hubIn' = hubIn - 1
    BY DEF TakeIn
  <2>4. hubIn - 1 \in 0..InRoom
    BY <2>1, <2>2, Rooms
  <2> QED
    BY <2>3, <2>4
<1> QED
  BY <1>1 DEF TakeIn, Inv, TypeOK, SendsToClient, Current, FlagUp, nodeVars, uplinkVars

LEMMA CommandInv == ASSUME Inv, StopHub \/ StartHub PROVE Inv'
<1>1. client \in [Client -> ClientTask]
  BY DEF Inv, TypeOK
<1>2. CASE StopHub
  <2>1. hub \in Client
    BY <1>2 DEF StopHub, Inv, TypeOK, Current
  <2>2. client' = [client EXCEPT ![hub] = [@ EXCEPT !.stopped = TRUE]]
    BY <1>2 DEF StopHub
  <2>3. client' \in [Client -> ClientTask]
    BY <1>1, <2>1, <2>2 DEF ClientTask
  <2>4. \A d \in Client : /\ client'[d].phase = client[d].phase
                          /\ client'[d].out = client[d].out
                          /\ client'[d].stopped = IF d = hub THEN TRUE ELSE client[d].stopped
    BY <1>1, <2>1, <2>2 DEF ClientTask
  <2>5. Current'
    BY <1>2, <2>1, <2>4 DEF StopHub, Inv, Current
  <2>6. TypeOK'
    BY <1>2, <2>3, <2>4, Queues DEF StopHub, Inv, TypeOK
  <2> QED
    BY <1>2, <2>5, <2>6 DEF StopHub, Inv, SendsToClient, FlagUp
<1>3. CASE StartHub
  <2>1. PICK c \in Client : /\ client[c].phase = "unborn"
                           /\ hub' = c
                           /\ client' = [client EXCEPT ![c].phase = "dialing"]
    BY <1>3 DEF StartHub
  <2>2. client' = [client EXCEPT ![c] = [@ EXCEPT !.phase = "dialing"]]
    BY <2>1
  <2>3. client' \in [Client -> ClientTask]
    BY <1>1, <2>2 DEF ClientTask, Running
  <2>4. \A d \in Client : /\ client'[d].out = client[d].out
                          /\ client'[d].stopped = client[d].stopped
                          /\ client'[d].phase = IF d = c THEN "dialing" ELSE client[d].phase
    BY <1>1, <2>2 DEF ClientTask
  <2>5. \A d \in Client : client[d].phase \in Running => client[d].stopped
    BY <1>3 DEF StartHub, Inv, Current, Client
  <2>6. Current'
    BY <1>3, <2>1, <2>4, <2>5 DEF StartHub, Current, Client
  <2>7. FlagUp'
    BY <1>3, <2>1, <2>4 DEF StartHub, Inv, FlagUp, Up
  <2>8. TypeOK'
    BY <1>3, <2>1, <2>3, <2>4 DEF StartHub, Inv, TypeOK, uplinkVars
  <2> QED
    BY <1>3, <2>6, <2>7, <2>8 DEF StartHub, Inv, SendsToClient
<1> QED
  BY <1>2, <1>3

-----------------------------------------------------------------------------
\* The client's own steps.
LEMMA Queue ==
  ASSUME Inv, NEW c \in Client
  PROVE  /\ client[c] \in ClientTask
         /\ client[c].out \in Seq(Frame) /\ Len(client[c].out) <= Room
         /\ client[c].out # <<>> => /\ Head(client[c].out) \in Frame
                                   /\ Tail(client[c].out) \in Seq(Frame)
                                   /\ Len(Tail(client[c].out)) <= Room
<1>1. client[c] \in ClientTask /\ Len(client[c].out) <= Room
  BY DEF Inv, TypeOK
<1>2. client[c].out \in Seq(Frame)
  BY <1>1 DEF ClientTask
<1> QED
  BY <1>1, <1>2, Queues, Rooms

LEMMA ClientInv ==
  ASSUME Inv, NEW c \in Client,
         \/ Dial(c) \/ DialFails(c) \/ Accepted(c) \/ Refused(c) \/ Lose(c)
         \/ Forward(c) \/ Deliver(c) \/ Delivered(c) \/ End(c)
  PROVE  Inv'
<1> USE DEF Elsewhere, nodeVars, uplinkVars
<1>1. ASSUME NEW p \in Running \cup {"ended"}, Becomes(c, p),
             client[c].phase \in Running,
             UNCHANGED <<internet, hub>>,
             flag' => p \in Up \/ (flag /\ client[c].phase \notin Up)
      PROVE  /\ client' \in [Client -> ClientTask]
             /\ \A d \in Client : Len(client'[d].out) <= Room
             /\ Current' /\ FlagUp'
  <2> DEFINE q == client[c].out
  <2>1. client' = [client EXCEPT ![c] = [@ EXCEPT !.phase = p, !.out = q]]
    BY <1>1, Queue DEF Becomes, ClientTask
  <2>2. q \in Seq(Frame) /\ Len(q) <= Room
    BY Queue
  <2> HIDE DEF q
  <2> QED
    BY <1>1, <2>1, <2>2, PhaseChanges
<1>2. CASE Dial(c)
  <2>1. Current' /\ FlagUp' /\ client' \in [Client -> ClientTask]
        /\ \A d \in Client : Len(client'[d].out) <= Room
    BY <1>1, <1>2 DEF Dial, Running, Up
  <2> QED
    BY <1>2, <2>1 DEF Dial, Inv, TypeOK, SendsToClient
<1>3. CASE DialFails(c)
  BY <1>3 DEF DialFails, Flag, Inv, TypeOK, SendsToClient, Current, FlagUp
<1>4. CASE Accepted(c)
  <2>1. Current' /\ FlagUp' /\ client' \in [Client -> ClientTask]
        /\ \A d \in Client : Len(client'[d].out) <= Room
    BY <1>1, <1>4 DEF Accepted, Flag, Running, Up
  <2> QED
    BY <1>4, <2>1 DEF Accepted, Flag, Inv, TypeOK, SendsToClient
<1>5. CASE Refused(c)
  <2>1. Current' /\ FlagUp' /\ client' \in [Client -> ClientTask]
        /\ \A d \in Client : Len(client'[d].out) <= Room
    BY <1>1, <1>5 DEF Refused, Flag, Running
  <2> QED
    BY <1>5, <2>1 DEF Refused, Flag, Inv, TypeOK, SendsToClient
<1>6. CASE Lose(c)
  <2>0. /\ client[c].phase \in Running /\ "dialing" \in Running /\ ~flag'
        /\ UNCHANGED <<internet, hub>>
    BY <1>6 DEF Lose, Flag, Running
  <2>1. ASSUME Becomes(c, "dialing")
        PROVE  Current' /\ FlagUp' /\ client' \in [Client -> ClientTask]
             /\ \A d \in Client : Len(client'[d].out) <= Room
    BY <1>1, <2>0, <2>1
  <2>2. ASSUME client[c].out # <<>>,
               client' = [client EXCEPT ![c].phase = "dialing", ![c].out = Tail(@)]
        PROVE  Current' /\ FlagUp' /\ client' \in [Client -> ClientTask]
             /\ \A d \in Client : Len(client'[d].out) <= Room
    <3> DEFINE q == Tail(client[c].out)
    <3>1. q \in Seq(Frame) /\ Len(q) <= Room
      BY <2>2, Queue
    <3>2. client' = [client EXCEPT ![c] = [@ EXCEPT !.phase = "dialing", !.out = q]]
      BY <2>2 DEF Inv, TypeOK
    <3> HIDE DEF q
    <3> QED
      BY <2>0, <3>1, <3>2, PhaseChanges
  <2>3. Current' /\ FlagUp' /\ client' \in [Client -> ClientTask]
        /\ \A d \in Client : Len(client'[d].out) <= Room
    BY <1>6, <2>1, <2>2 DEF Lose
  <2> QED
    BY <1>6, <2>3 DEF Lose, Flag, Inv, TypeOK, SendsToClient
<1>7. CASE Forward(c)
  <2> DEFINE q == Tail(client[c].out)
  <2>1. q \in Seq(Frame) /\ Len(q) <= Room /\ Head(client[c].out) \in Frame
    BY <1>7, Queue DEF Forward
  <2>2. client' = [client EXCEPT ![c].out = q]
    BY <1>7 DEF Forward
  <2>3. handed' \in [Frame -> 0..2]
    <3>1. handed \in [Frame -> 0..2]
      BY DEF Inv, TypeOK
    <3>2. \A n \in 0..2 : (IF n = 2 THEN 2 ELSE n + 1) \in 0..2
      OBVIOUS
    <3> QED
      BY <1>7, <2>1, <3>1, <3>2 DEF Forward
  <2> HIDE DEF q
  <2>4. Current' /\ FlagUp' /\ client' \in [Client -> ClientTask]
        /\ \A d \in Client : Len(client'[d].out) <= Room
    BY <1>7, <2>1, <2>2, ChannelChanges DEF Forward
  <2> QED
    BY <1>7, <2>3, <2>4 DEF Forward, Inv, TypeOK, SendsToClient
<1>8. CASE Deliver(c)
  <2>1. Current' /\ FlagUp' /\ client' \in [Client -> ClientTask]
        /\ \A d \in Client : Len(client'[d].out) <= Room
    BY <1>1, <1>8 DEF Deliver, Running, Up
  <2> QED
    BY <1>8, <2>1 DEF Deliver, Inv, TypeOK, SendsToClient
<1>9. CASE Delivered(c)
  <2>1. Current' /\ FlagUp' /\ client' \in [Client -> ClientTask]
        /\ \A d \in Client : Len(client'[d].out) <= Room
    BY <1>1, <1>9 DEF Delivered, Running, Up
  <2>2. hubIn \in 0..InRoom
    BY DEF Inv, TypeOK
  <2>3. hubIn < InRoom /\ hubIn' = hubIn + 1
    BY <1>9 DEF Delivered
  <2>4. hubIn' \in 0..InRoom
    BY <2>2, <2>3, Rooms
  <2> QED
    BY <1>9, <2>1, <2>4 DEF Delivered, Inv, TypeOK, SendsToClient
<1>10. CASE End(c)
  <2>1. client' = [client EXCEPT ![c] = [@ EXCEPT !.phase = "ended", !.out = <<>>]]
    BY <1>10 DEF End, Inv, TypeOK
  <2>2. Current' /\ FlagUp' /\ client' \in [Client -> ClientTask]
        /\ \A d \in Client : Len(client'[d].out) <= Room
    <3>1. /\ client[c].phase \in Running /\ ~flag' /\ UNCHANGED <<internet, hub>>
      BY <1>10 DEF End, Flag, Running
    <3>2. <<>> \in Seq(Frame) /\ Len(<<>>) <= Room
      BY Queues, Rooms
    <3> QED
      BY <2>1, <3>1, <3>2, PhaseChanges
  <2> QED
    BY <1>10, <2>2 DEF End, Flag, Inv, TypeOK, SendsToClient
<1> QED
  BY <1>2, <1>3, <1>4, <1>5, <1>6, <1>7, <1>8, <1>9, <1>10

-----------------------------------------------------------------------------
\* The invariant holds in every reachable state.
THEOREM UplinkInvariant == Spec => []Inv
<1>1. Init => Inv
  BY InitInv
<1>2. Inv /\ [Next]_vars => Inv'
  <2> SUFFICES ASSUME Inv, [Next]_vars PROVE Inv'
    OBVIOUS
  <2>1. CASE UNCHANGED vars
    BY <2>1 DEF vars, Inv, TypeOK, SendsToClient, Current, FlagUp
  <2>2. CASE Next
    BY <2>2, OfferInv, OfferingInv, TickInv, TakeInInv, CommandInv, ClientInv DEF Next
  <2> QED
    BY <2>1, <2>2
<1> QED
  BY <1>1, <1>2, PTL DEF Spec

\* Every task, channel and queue stays in its range: the client's channel and
\* hub_in never hold more than their capacity.
THEOREM UplinkTypes == Spec => []TypeOK
<1>1. Inv => TypeOK
  BY DEF Inv
<1> QED
  BY <1>1, UplinkInvariant, PTL

\* Once no cancelled client is left, the flag says connected only while the
\* current client's hello stands (ArcFlag, stop_hub, HubClient::connect).
THEOREM FlagNotStale == Spec => []FlagIsNotStale
<1>1. Inv => FlagIsNotStale
  <2> SUFFICES ASSUME Inv, flag, NoneLeaving
               PROVE  hub # 0 /\ client[hub].phase \in Up
    BY DEF FlagIsNotStale, Up
  <2>1. PICK c \in Client : client[c].phase \in Up
    BY DEF Inv, FlagUp
  <2>2. c = hub
    BY <2>1 DEF Inv, Current, NoneLeaving, Running, Up
  <2> QED
    BY <2>1, <2>2 DEF Client
<1> QED
  BY <1>1, UplinkInvariant, PTL
-----------------------------------------------------------------------------
\* What a queue holds.
InQueue(q, f) == \E i \in 1..Len(q) : q[i] = f
Distinct(q) == \A i, j \in 1..Len(q) : q[i] = q[j] => i = j

LEMMA QueueGrows ==
  ASSUME NEW q \in Seq(Frame), NEW g \in Frame
  PROVE  /\ \A f \in Frame : InQueue(Append(q, g), f) <=> InQueue(q, f) \/ f = g
         /\ Distinct(q) /\ ~InQueue(q, g) => Distinct(Append(q, g))
<1>1. /\ Len(q) \in Nat /\ Len(Append(q, g)) = Len(q) + 1
      /\ \A i \in 1..Len(q) : Append(q, g)[i] = q[i]
      /\ Append(q, g)[Len(q) + 1] = g
  OBVIOUS
<1> QED
  BY <1>1 DEF InQueue, Distinct

LEMMA QueueShrinks ==
  ASSUME NEW q \in Seq(Frame), q # <<>>
  PROVE  /\ \A f \in Frame : InQueue(q, f) <=> f = Head(q) \/ InQueue(Tail(q), f)
         /\ Distinct(q) => Distinct(Tail(q)) /\ ~InQueue(Tail(q), Head(q))
<1>1. /\ Len(q) \in Nat \ {0} /\ Len(Tail(q)) = Len(q) - 1 /\ Head(q) = q[1]
      /\ \A i \in 1..Len(q) - 1 : Tail(q)[i] = q[i + 1]
  OBVIOUS
<1>2. \A i \in 1..Len(q) : i = 1 \/ i - 1 \in 1..Len(q) - 1
  BY <1>1
<1>3. \A f \in Frame : InQueue(q, f) <=> f = Head(q) \/ InQueue(Tail(q), f)
  <2> SUFFICES ASSUME NEW f \in Frame
               PROVE  InQueue(q, f) <=> f = Head(q) \/ InQueue(Tail(q), f)
    OBVIOUS
  <2>1. ASSUME InQueue(q, f), f # Head(q) PROVE InQueue(Tail(q), f)
    <3>1. PICK i \in 1..Len(q) : q[i] = f
      BY <2>1 DEF InQueue
    <3>2. i - 1 \in 1..Len(q) - 1 /\ Tail(q)[i - 1] = q[i]
      BY <1>1, <1>2, <2>1, <3>1
    <3> QED
      BY <1>1, <3>1, <3>2 DEF InQueue
  <2>2. ASSUME InQueue(Tail(q), f) PROVE InQueue(q, f)
    BY <1>1, <2>2 DEF InQueue
  <2>3. InQueue(q, Head(q))
    BY <1>1 DEF InQueue
  <2> QED
    BY <2>1, <2>2, <2>3
<1>4. ASSUME Distinct(q) PROVE Distinct(Tail(q)) /\ ~InQueue(Tail(q), Head(q))
  BY <1>1, <1>4 DEF InQueue, Distinct
<1> QED
  BY <1>3, <1>4

LEMMA NothingQueued == Distinct(<<>>) /\ \A f : ~InQueue(<<>>, f)
BY DEF InQueue, Distinct

-----------------------------------------------------------------------------
\* While the first client is in use and not refused, no other was started and it
\* is not cancelled; who sends, sends through it; and what is recorded as offered
\* was marked, or waits in the hold or with the tick.
Kept(f) ==
  \/ f \in marked \/ InQueue(pending, f) \/ InQueue(batch, f)
  \/ task["tick"].at = "sending" /\ task["tick"].frame = f

Alone ==
  /\ \A c \in Client : c # 1 => client[c].phase = "unborn"
  /\ client[1].phase \in Running /\ client[1].stopped = FALSE
  /\ err # "refused" /\ banner # "refused"
  /\ \A t \in Task : task[t].at = "sending" => task[t].via = 1

FirstInUse == hub = 1 /\ 1 \notin Refusing
KInv ==
  /\ Inv /\ client[1].phase # "unborn"
  /\ FirstInUse => Alone /\ \A f \in offered : Kept(f)

LEMMA FirstClient == 1 \in Client
BY UplinkAssumption DEF Client

LEMMA InitKInv == ASSUME Init PROVE KInv
<1>1. 1 \in Client
  BY FirstClient
<1>2. client[1] = [phase |-> "dialing", stopped |-> FALSE, out |-> <<>>]
      /\ \A c \in Client : c # 1 => client[c].phase = "unborn"
  BY <1>1 DEF Init
<1>3. \A t \in Task : task[t].at # "sending"
  BY DEF Init, Free
<1>4. offered = {} /\ err = "" /\ banner = ""
  BY DEF Init
<1>5. Alone
  <2>1. client[1].phase = "dialing" /\ client[1].stopped = FALSE
    BY <1>2
  <2>2. \A c \in Client : c # 1 => client[c].phase = "unborn"
    BY <1>2
  <2>3. err # "refused" /\ banner # "refused"
    BY <1>4
  <2> QED
    BY <1>3, <2>1, <2>2, <2>3 DEF Alone, Running
<1>6. client[1].phase # "unborn"
  BY <1>2
<1> QED
  BY <1>4, <1>5, <1>6, InitInv DEF KInv

\* A step of client c, and how it leaves the first.
LEMMA ClientKInv ==
  ASSUME KInv, NEW c \in Client,
         \/ Dial(c) \/ DialFails(c) \/ Accepted(c) \/ Refused(c) \/ Lose(c)
         \/ Forward(c) \/ Deliver(c) \/ Delivered(c) \/ End(c)
  PROVE  KInv'
<1>1. Inv' /\ 1 \in Client /\ client \in [Client -> ClientTask]
  <2>1. Inv
    BY DEF KInv
  <2>2. Inv'
    BY <2>1, ClientInv
  <2> QED
    BY <2>1, <2>2, FirstClient DEF Inv, TypeOK
<1>2. client[c].phase \in Running
  BY DEF Dial, DialFails, Accepted, Refused, Lose, Forward, Deliver, Delivered, End, Running
<1>3. /\ \A d \in Client : d # c => client'[d] = client[d]
      /\ client'[c].stopped = client[c].stopped
      /\ client'[c].phase \in Running \/ client[c].stopped
      /\ client'[c].phase # "unborn"
  <2>1. client[c] \in ClientTask
    BY <1>1
  <2>2. CASE Lose(c)
    <3>1. CASE Becomes(c, "dialing")
      BY <1>1, <2>1, <3>1 DEF Becomes, Running, ClientTask
    <3>2. CASE client' = [client EXCEPT ![c].phase = "dialing", ![c].out = Tail(@)]
      BY <1>1, <2>1, <3>2 DEF Running, ClientTask
    <3> QED
      BY <2>2, <3>1, <3>2 DEF Lose
  <2>3. CASE DialFails(c) \/ Forward(c)
    <3>1. CASE UNCHANGED client
      BY <1>2, <3>1 DEF Running
    <3>2. CASE client' = [client EXCEPT ![c].out = Tail(@)]
      BY <1>1, <1>2, <2>1, <3>2 DEF Running, ClientTask
    <3> QED
      BY <2>3, <3>1, <3>2 DEF DialFails, Forward
  <2>4. CASE End(c)
    BY <1>1, <2>1, <2>4 DEF End, ClientTask
  <2>5. CASE Dial(c) \/ Accepted(c) \/ Refused(c) \/ Deliver(c) \/ Delivered(c)
    <3>1. PICK p \in {"hello", "ready", "dialing", "blocked"} : Becomes(c, p)
      BY <2>5 DEF Dial, Accepted, Refused, Deliver, Delivered
    <3> QED
      BY <1>1, <2>1, <3>1 DEF Becomes, Running, ClientTask
  <2> QED
    BY <2>2, <2>3, <2>4, <2>5
<1>4. UNCHANGED <<nodeVars, uplinkVars, task>>
  BY DEF Dial, DialFails, Accepted, Refused, Lose, Forward, Deliver, Delivered, End, Elsewhere
<1>5. client'[1].phase # "unborn"
  BY <1>1, <1>3 DEF KInv
<1>6. ASSUME FirstInUse PROVE Alone' /\ \A f \in offered' : Kept(f)'
  <2>1. Alone /\ \A f \in offered : Kept(f)
    BY <1>6 DEF KInv
  <2>2. c = 1
    BY <1>2, <2>1 DEF Alone, Running
  <2>3. err' # "refused"
    BY <1>6, <2>1, <2>2 DEF Alone, FirstInUse, Dial, DialFails, Accepted, Refused, Lose, Forward,
      Deliver, Delivered, End, Flag
  <2> QED
    BY <1>1, <1>3, <1>4, <2>1, <2>2, <2>3 DEF Alone, Kept, nodeVars, uplinkVars
<1> QED
  BY <1>1, <1>4, <1>5, <1>6 DEF KInv, FirstInUse, nodeVars

LEMMA OfferKInv ==
  ASSUME KInv, NEW t \in Offerer, NEW f \in Frame, Offer(t, f)
  PROVE  KInv'
<1>1. Inv' /\ t \in Task /\ t # "tick" /\ task \in [Task -> OfferStep]
  BY OfferInv, UplinkAssumption DEF KInv, Inv, TypeOK, Task
<1>2. ASSUME FirstInUse PROVE Alone' /\ \A g \in offered' : Kept(g)'
  BY <1>1, <1>2 DEF KInv, Alone, Kept, FirstInUse, Offer, nodeVars, uplinkVars
<1> QED
  BY <1>1, <1>2 DEF KInv, FirstInUse, Offer, nodeVars

LEMMA SendKInv == ASSUME KInv, NEW t \in Task, Send(t) PROVE KInv'
<1> DEFINE c == task[t].via
           f == task[t].frame
<1>1. /\ Inv' /\ task \in [Task -> OfferStep] /\ client \in [Client -> ClientTask]
      /\ task[t] \in OfferStep /\ c \in Client /\ f \in Frame /\ 1 \in Client
  <2>1. Inv
    BY DEF KInv
  <2>2. Inv'
    BY <2>1, SendInv
  <2>3. task \in [Task -> OfferStep] /\ client \in [Client -> ClientTask] /\ c \in Client
    BY <2>1 DEF Inv, TypeOK, SendsToClient, Send
  <2>4. task[t] \in OfferStep
    BY <2>3
  <2>5. f \in Frame
    BY <2>4 DEF OfferStep
  <2> QED
    BY <2>2, <2>3, <2>4, <2>5, FirstClient
<1>2. \A d \in Client : client'[d].phase = client[d].phase /\ client'[d].stopped = client[d].stopped
  <2>1. CASE UNCHANGED client
    BY <2>1
  <2>2. CASE client' = [client EXCEPT ![c].out = Append(@, f)]
    BY <1>1, <2>2 DEF ClientTask
  <2> QED
    BY <2>1, <2>2 DEF Send
<1>3. ASSUME FirstInUse PROVE Alone' /\ \A g \in offered' : Kept(g)'
  <2>1. Alone /\ \A g \in offered : Kept(g)
    BY <1>3 DEF KInv
  <2>2. c = 1 /\ client[c].phase # "ended"
    BY <2>1 DEF Alone, Send, Running
  <2>3. /\ task' = [task EXCEPT ![t] = IF t = "tick" THEN Free ELSE [@ EXCEPT !.at = "accepted"]]
        /\ marked' = IF t = "tick" THEN marked \cup {f} ELSE marked
        /\ UNCHANGED <<nodeVars, err, pending, offered, batch>>
    BY <2>2 DEF Send
  <2>4. Alone'
    BY <1>1, <1>2, <2>1, <2>3 DEF Alone, nodeVars, Free, OfferStep
  <2>5. \A g \in offered' : Kept(g)'
    <3>1. CASE t = "tick"
      BY <2>1, <2>3, <3>1 DEF Kept
    <3>2. CASE t # "tick"
      <4>1. "tick" \in Task => task'["tick"] = task["tick"]
        BY <1>1, <2>3, <3>2
      <4> QED
        BY <2>1, <2>3, <3>2, <4>1 DEF Kept, Task
    <3> QED BY <3>1, <3>2
  <2> QED BY <2>4, <2>5
<1>4. UNCHANGED hub /\ client'[1].phase # "unborn"
  BY <1>1, <1>2 DEF Send, nodeVars, KInv
<1> QED
  BY <1>1, <1>3, <1>4 DEF KInv, FirstInUse

\* What follows the wait for room: the frame is recorded, given up or held.
LEMMA AfterKInv ==
  ASSUME KInv, NEW t \in Task, Record(t) \/ Decline(t) \/ Hold(t)
  PROVE  KInv'
<1>1. /\ Inv' /\ task \in [Task -> OfferStep] /\ task[t] \in OfferStep
      /\ task[t].frame \in Frame /\ pending \in Seq(Frame)
  BY OfferingInv DEF KInv, Inv, TypeOK, OfferStep, Offering
<1>2. UNCHANGED <<nodeVars, client, err, batch>>
  BY DEF Record, Decline, Hold, uplinkVars
<1>3. /\ \A u \in Task : u # t => task'[u] = task[u]
      /\ task'[t].at # "sending" /\ task[t].at # "sending"
  BY <1>1 DEF Record, Decline, Hold, Free, OfferStep
<1>4. ASSUME FirstInUse PROVE Alone' /\ \A g \in offered' : Kept(g)'
  <2>1. Alone /\ \A g \in offered : Kept(g)
    BY <1>4 DEF KInv
  <2>2. Alone'
    BY <1>2, <1>3, <2>1 DEF Alone, nodeVars
  <2>3. \A g \in offered' : g \in offered \/ g \in marked' \/ InQueue(pending', g)
    <3>1. CASE Record(t)
      BY <3>1 DEF Record
    <3>2. CASE Decline(t)
      BY <3>2 DEF Decline, uplinkVars
    <3>3. CASE Hold(t)
      BY <1>1, <3>3, QueueGrows DEF Hold
    <3> QED BY <3>1, <3>2, <3>3
  <2>4. marked \subseteq marked' /\ \A g \in Frame : InQueue(pending, g) => InQueue(pending', g)
    <3>1. CASE Hold(t)
      BY <1>1, <3>1, QueueGrows DEF Hold
    <3>2. CASE Record(t) \/ Decline(t)
      BY <3>2 DEF Record, Decline, uplinkVars
    <3> QED BY <3>1, <3>2
  <2>5. offered' \subseteq Frame
    BY <1>1 DEF Inv, TypeOK
  <2>6. "tick" \in Task
    BY DEF Task
  <2>7. ASSUME NEW g \in offered' PROVE Kept(g)'
    <3>1. CASE g \in marked' \/ InQueue(pending', g)
      BY <3>1 DEF Kept
    <3>2. CASE g \in offered
      BY <1>2, <1>3, <2>1, <2>4, <2>5, <2>6, <3>2 DEF Kept
    <3> QED BY <2>3, <3>1, <3>2
  <2> QED BY <2>2, <2>7
<1> QED
  BY <1>1, <1>2, <1>4 DEF KInv, FirstInUse, nodeVars

LEMMA TickKInv == ASSUME KInv, Look \/ FlushNext PROVE KInv'
<1>1. /\ Inv' /\ task \in [Task -> OfferStep] /\ "tick" \in Task
      /\ batch \in Seq(Frame) /\ offered \subseteq Frame
  BY TickInv DEF KInv, Inv, TypeOK, Task
<1>2. UNCHANGED <<hub, client, err, offered, marked>>
  BY DEF Look, FlushNext, nodeVars
<1>3. ASSUME FirstInUse PROVE Alone' /\ \A g \in offered' : Kept(g)'
  <2>1. Alone /\ \A g \in offered : Kept(g)
    BY <1>3 DEF KInv
  <2>2. CASE Look
    <3>1. task["tick"].at = "idle" /\ batch = <<>> /\ UNCHANGED task
      BY <2>2 DEF Look, TickIdle, Idle
    <3>2. DownBanner # "refused"
      BY <2>1 DEF Alone, DownBanner
    <3>3. banner' # "refused"
      BY <2>1, <2>2, <3>2 DEF Look, Alone
    <3>4. (UNCHANGED <<pending, batch>>) \/ batch' = pending
      BY <2>2, <3>2 DEF Look
    <3>5. Alone'
      BY <1>2, <2>1, <3>1, <3>3 DEF Alone
    <3> QED
      BY <1>2, <2>1, <3>1, <3>4, <3>5, NothingQueued DEF Kept
  <2>3. CASE FlushNext
    <3>1. /\ batch # <<>> /\ batch' = Tail(batch) /\ UNCHANGED <<pending, banner>>
          /\ task' = [task EXCEPT !["tick"] =
               [at |-> "sending", frame |-> Head(batch), via |-> 1]]
          /\ task["tick"].at = "idle"
      BY <1>3, <2>3 DEF FlushNext, FirstInUse, Idle, nodeVars
    <3>2. task'["tick"].at = "sending" /\ task'["tick"].frame = Head(batch)
      BY <1>1, <3>1
    <3>3. \A g \in Frame : InQueue(batch, g) => g = Head(batch) \/ InQueue(batch', g)
      BY <1>1, <3>1, QueueShrinks
    <3>4. Alone'
      BY <1>1, <1>2, <2>1, <3>1 DEF Alone
    <3> QED
      BY <1>1, <1>2, <2>1, <3>1, <3>2, <3>3, <3>4 DEF Kept
  <2> QED BY <2>2, <2>3
<1> QED
  BY <1>1, <1>2, <1>3 DEF KInv, FirstInUse

LEMMA MainKInv == ASSUME KInv, TakeIn \/ StopHub \/ StartHub PROVE KInv'
<1>1. Inv' /\ client \in [Client -> ClientTask] /\ 1 \in Client /\ (internet => hub \in Client)
  <2>1. Inv
    BY DEF KInv
  <2>2. Inv'
    BY <2>1, TakeInInv, CommandInv
  <2> QED
    BY <2>1, <2>2, FirstClient DEF Inv, TypeOK, Current
<1>2. CASE TakeIn
  BY <1>1, <1>2 DEF KInv, FirstInUse, TakeIn, Alone, Kept, nodeVars, uplinkVars
<1>3. CASE StopHub
  <2>1. client'[1].phase = client[1].phase
    BY <1>1, <1>3 DEF StopHub, ClientTask
  <2>2. hub' = 0
    BY <1>3 DEF StopHub
  <2>3. ~FirstInUse'
    BY <2>2 DEF FirstInUse
  <2> QED
    BY <1>1, <2>1, <2>3 DEF KInv
<1>4. CASE StartHub
  <2>1. PICK c \in Client : /\ client[c].phase = "unborn" /\ hub' = c
                           /\ client' = [client EXCEPT ![c].phase = "dialing"]
    BY <1>4 DEF StartHub
  <2>2. c # 1
    BY <2>1 DEF KInv
  <2>3. client'[1] = client[1]
    BY <1>1, <2>1, <2>2
  <2> QED
    BY <1>1, <2>1, <2>2, <2>3 DEF KInv, FirstInUse
<1> QED
  BY <1>2, <1>3, <1>4

\* While the first client is in use and not refused, what is recorded as offered
\* was sent or waits (offer_hub: a failed send is not recorded).
THEOREM LaterCopy == Spec => []LaterCopyCanTry
<1>1. Init => KInv
  BY InitKInv
<1>2. KInv /\ [Next]_vars => KInv'
  <2> SUFFICES ASSUME KInv, [Next]_vars PROVE KInv'
    OBVIOUS
  <2>1. CASE UNCHANGED vars
    BY <2>1 DEF vars, KInv, Inv, TypeOK, SendsToClient, Current, FlagUp, FirstInUse, Alone, Kept
  <2>2. CASE Next
    BY <2>2, OfferKInv, SendKInv, AfterKInv, TickKInv, MainKInv, ClientKInv DEF Next, Offering
  <2> QED
    BY <2>1, <2>2
<1>3. KInv => LaterCopyCanTry
  <2> SUFFICES ASSUME KInv, Quiet, batch = <<>>, hub = 1, hub \notin Refusing,
                      NEW f \in offered
               PROVE  f \in marked \/ \E i \in 1..Len(pending) : pending[i] = f
    BY DEF LaterCopyCanTry
  <2>1. Kept(f)
    BY DEF KInv, FirstInUse
  <2>2. task["tick"].at = "idle"
    BY DEF Quiet, Idle, Task
  <2> QED
    BY <2>1, <2>2, NothingQueued DEF Kept, InQueue
<1> QED
  BY <1>1, <1>2, <1>3, PTL DEF Spec
-----------------------------------------------------------------------------
\* Where the main loop alone offers, a frame is in one place at most: in the hold,
\* drained by the tick, sent by it, in a client's channel, or with the hub.  Once
\* it is in one, it is recorded as offered or about to be, and what is recorded
\* is not offered again.
Flushing(f) == task["tick"].at = "sending" /\ task["tick"].frame = f
Out(c, f) == InQueue(client[c].out, f)
Sending(f) == Flushing(f) \/ \E c \in Client : Out(c, f)
InOnePlace(f) ==
  /\ handed[f] <= 1
  /\ InQueue(pending, f) => ~InQueue(batch, f) /\ ~Sending(f) /\ handed[f] = 0
  /\ InQueue(batch, f) => ~Sending(f) /\ handed[f] = 0
  /\ Sending(f) => handed[f] = 0
  /\ Flushing(f) => \A c \in Client : ~Out(c, f)
  /\ \A c, d \in Client : Out(c, f) /\ Out(d, f) => c = d

Somewhere(f) == InQueue(pending, f) \/ InQueue(batch, f) \/ Sending(f) \/ handed[f] # 0
Offers(f) == ~Idle("main") /\ task["main"].frame = f
Known(f) ==
  /\ Somewhere(f) => f \in offered \/ (Offers(f) /\ task["main"].at = "accepted")
  /\ Offers(f) => f \notin offered

NoneTwice ==
  /\ Distinct(pending) /\ Distinct(batch) /\ \A c \in Client : Distinct(client[c].out)
  /\ task["tick"].at \in {"idle", "sending"}
OnceInv == Inv /\ NoneTwice /\ \A f \in Frame : InOnePlace(f) /\ Known(f)

Tasks == Offerer = {"main"}

LEMMA InitOnce == ASSUME Init PROVE OnceInv
<1>1. /\ pending = <<>> /\ batch = <<>> /\ \A c \in Client : client[c].out = <<>>
      /\ \A t \in Task : task[t].at = "idle"
      /\ \A f \in Frame : handed[f] = 0
  BY DEF Init, Free
<1>2. "main" \in Task /\ "tick" \in Task
  BY UplinkAssumption DEF Task
<1> QED
  BY <1>1, <1>2, NothingQueued, InitInv
    DEF OnceInv, NoneTwice, InOnePlace, Known, Somewhere, Sending, Flushing, Out, Offers, Idle

LEMMA Parts ==
  ASSUME Tasks, OnceInv
  PROVE  /\ Task = {"main", "tick"} /\ task \in [Task -> OfferStep]
         /\ client \in [Client -> ClientTask] /\ handed \in [Frame -> 0..2]
         /\ pending \in Seq(Frame) /\ batch \in Seq(Frame)
         /\ \A t \in Task : task[t].frame \in Frame
         /\ \A c \in Client : client[c].out \in Seq(Frame)
<1>1. task \in [Task -> OfferStep] /\ client \in [Client -> ClientTask]
  BY DEF OnceInv, Inv, TypeOK
<1>2. (\A t \in Task : task[t].frame \in Frame) /\ \A c \in Client : client[c].out \in Seq(Frame)
  BY <1>1 DEF OfferStep, ClientTask
<1> QED
  BY <1>1, <1>2 DEF Tasks, Task, OnceInv, Inv, TypeOK

LEMMA OfferOnce ==
  ASSUME Tasks, OnceInv, NEW t \in Offerer, NEW f \in Frame, Offer(t, f)
  PROVE  OnceInv'
<1>1. t = "main" /\ Inv' /\ task \in [Task -> OfferStep] /\ "main" \in Task /\ "tick" \in Task
  BY Parts, OfferInv DEF Tasks, OnceInv
<1>2. /\ UNCHANGED <<client, handed, offered, pending, batch>>
      /\ f \notin offered /\ task["main"].at = "idle"
      /\ task'["tick"] = task["tick"]
      /\ task'["main"].frame = f /\ task'["main"].at \in {"sending", "declined"}
  BY <1>1 DEF Offer, Idle, Unoffered, uplinkVars
<1>3. NoneTwice' /\ \A g \in Frame : InOnePlace(g)'
  BY <1>2 DEF OnceInv, NoneTwice, InOnePlace, Sending, Flushing, Out
<1>4. \A g \in Frame : Known(g)'
  BY <1>2 DEF OnceInv, Known, Somewhere, Sending, Flushing, Out, Offers, Idle
<1> QED
  BY <1>1, <1>3, <1>4 DEF OnceInv

LEMMA SendOnce == ASSUME Tasks, OnceInv, NEW t \in Task, Send(t) PROVE OnceInv'
<1>1. task[t].via \in Client /\ task[t].frame \in Frame
  BY Parts DEF OnceInv, Inv, SendsToClient, Send
<1>2. PICK c \in Client, f \in Frame : c = task[t].via /\ f = task[t].frame
  BY <1>1
<1>3. /\ Inv' /\ Task = {"main", "tick"} /\ task \in [Task -> OfferStep]
      /\ client \in [Client -> ClientTask]
      /\ client[c].out \in Seq(Frame) /\ task[t] \in OfferStep
  <2>1. Inv'
    BY SendInv DEF OnceInv
  <2> QED
    BY <2>1, Parts
<1>4. UNCHANGED <<pending, batch, offered, handed>> /\ task[t].at = "sending"
  BY DEF Send
<1>5. /\ \A u \in Task : u # t => task'[u] = task[u]
      /\ task'["tick"].at \in {"idle", "sending"}
      /\ t = "main" => task'[t].frame = f /\ task'[t].at \in {"accepted", "declined"}
      /\ t = "tick" => task'[t].at = "idle"
  BY <1>2, <1>3, <1>4 DEF Send, Free, OnceInv, NoneTwice, OfferStep, Flushing
<1>6. InOnePlace(f) /\ Known(f) /\ NoneTwice
  BY <1>3 DEF OnceInv
<1>7. ~(\E d \in Client : Out(d, f)) /\ handed[f] = 0 /\ ~InQueue(pending, f) /\ ~InQueue(batch, f)
  <2>1. CASE t = "tick"
    BY <1>2, <1>4, <1>6, <2>1 DEF InOnePlace, Sending, Flushing
  <2>2. CASE t = "main"
    <3>1. ~Somewhere(f)
      BY <1>2, <1>4, <1>6, <2>2 DEF Known, Offers, Idle
    <3> QED
      BY <3>1 DEF Somewhere, Sending
  <2> QED BY <1>3, <2>1, <2>2
<1>8. t = "tick" => /\ \A g \in Frame : (Flushing(g) <=> g = f) /\ ~Flushing(g)'
                    /\ task'["main"] = task["main"]
  BY <1>2, <1>3, <1>4, <1>5 DEF Flushing
<1>9. t = "main" =>
        /\ \A g \in Frame : /\ Offers(g) <=> g = f
                            /\ Offers(g)' <=> g = f
                            /\ Flushing(g)' <=> Flushing(g)
        /\ task["main"].at = "sending"
  BY <1>2, <1>3, <1>4, <1>5 DEF Flushing, Offers, Idle
<1>10. \/ UNCHANGED client /\ (t = "main" => task'["main"].at = "declined")
       \/ /\ client' = [client EXCEPT ![c].out = Append(client[c].out, f)]
          /\ t = "main" => task'["main"].at = "accepted"
  BY <1>2, <1>3 DEF Send, OfferStep
<1>11. CASE UNCHANGED client /\ (t = "main" => task'["main"].at = "declined")
  <2>1. \A g \in Frame, d \in Client : Out(d, g)' <=> Out(d, g)
    BY <1>11 DEF Out
  <2>2. NoneTwice'
    BY <1>4, <1>5, <1>6, <1>11 DEF NoneTwice
  <2>3. ASSUME NEW g \in Frame PROVE InOnePlace(g)' /\ Known(g)'
    <3>1. InOnePlace(g) /\ Known(g)
      BY DEF OnceInv
    <3>2. CASE t = "tick"
      BY <1>4, <1>8, <2>1, <3>1, <3>2 DEF InOnePlace, Known, Somewhere, Sending, Offers, Idle
    <3>3. CASE t = "main"
      BY <1>4, <1>9, <1>11, <2>1, <3>1, <3>3 DEF InOnePlace, Known, Somewhere, Sending
    <3> QED BY <1>3, <3>2, <3>3
  <2> QED BY <1>3, <2>2, <2>3 DEF OnceInv
<1>12. CASE /\ client' = [client EXCEPT ![c].out = Append(client[c].out, f)]
            /\ t = "main" => task'["main"].at = "accepted"
  <2> DEFINE q == client[c].out
  <2>1. q \in Seq(Frame) /\ Distinct(q) /\ ~InQueue(q, f)
    BY <1>3, <1>6, <1>7 DEF NoneTwice, Out
  <2>2. /\ client'[c].out = Append(q, f)
        /\ \A d \in Client : d # c => client'[d].out = client[d].out
    BY <1>3, <1>12 DEF ClientTask
  <2> HIDE DEF q
  <2>3. Distinct(Append(q, f))
    BY <2>1, QueueGrows
  <2>4. \A g \in Frame : InQueue(Append(q, f), g) <=> InQueue(q, g) \/ g = f
    BY <2>1, QueueGrows
  <2>5. \A g \in Frame : Out(c, g)' <=> Out(c, g) \/ g = f
    BY <2>2, <2>4 DEF Out, q
  <2>6. \A d \in Client : d # c => \A g \in Frame : Out(d, g)' <=> Out(d, g)
    BY <2>2 DEF Out
  <2>7. \A d \in Client : Distinct(client'[d].out)
    BY <1>6, <2>2, <2>3 DEF NoneTwice
  <2>8. NoneTwice'
    BY <1>4, <1>5, <1>6, <2>7 DEF NoneTwice
  <2>9. ASSUME NEW g \in Frame PROVE InOnePlace(g)' /\ Known(g)'
    <3>1. InOnePlace(g) /\ Known(g)
      BY DEF OnceInv
    <3>2. CASE g = f
      <4>1. ~Flushing(g)'
        <5>1. CASE t = "tick"
          BY <1>8, <5>1
        <5>2. CASE t = "main"
          <6>1. ~Somewhere(f)
            BY <1>6, <1>9, <5>2 DEF Known
          <6> QED
            BY <1>9, <3>2, <5>2, <6>1 DEF Somewhere, Sending
        <5> QED BY <1>3, <5>1, <5>2
      <4>2. Out(c, g)' /\ \A d \in Client : Out(d, g)' => d = c
        BY <1>7, <2>5, <2>6, <3>2
      <4>3. InOnePlace(g)'
        BY <1>4, <1>7, <3>2, <4>1, <4>2 DEF InOnePlace, Sending
      <4>4. CASE t = "tick"
        BY <1>4, <1>6, <1>8, <3>2, <4>3, <4>4 DEF Known, Somewhere, Sending, Offers, Idle
      <4>5. CASE t = "main"
        BY <1>4, <1>6, <1>9, <1>12, <3>2, <4>3, <4>5 DEF Known
      <4> QED BY <1>3, <4>4, <4>5
    <3>3. CASE g # f
      <4>1. \A d \in Client : Out(d, g)' <=> Out(d, g)
        BY <2>5, <2>6, <3>3
      <4>2. CASE t = "tick"
        BY <1>4, <1>8, <3>1, <3>3, <4>1, <4>2
          DEF InOnePlace, Known, Somewhere, Sending, Offers, Idle
      <4>3. CASE t = "main"
        BY <1>4, <1>9, <3>1, <3>3, <4>1, <4>3 DEF InOnePlace, Known, Somewhere, Sending
      <4> QED BY <1>3, <4>2, <4>3
    <3> QED BY <3>2, <3>3
  <2> QED BY <1>3, <2>8, <2>9 DEF OnceInv
<1> QED
  BY <1>10, <1>11, <1>12

LEMMA AfterOnce ==
  ASSUME Tasks, OnceInv, NEW t \in Task, Record(t) \/ Decline(t) \/ Hold(t)
  PROVE  OnceInv'
<1> DEFINE f == task["main"].frame
<1>1. /\ Inv' /\ Task = {"main", "tick"} /\ task \in [Task -> OfferStep]
      /\ pending \in Seq(Frame) /\ f \in Frame
  <2>1. Inv'
    BY OfferingInv DEF OnceInv, Offering
  <2> QED BY <2>1, Parts
<1>2. t = "main" /\ task'["tick"] = task["tick"] /\ UNCHANGED <<client, handed, batch>>
  BY <1>1 DEF OnceInv, NoneTwice, Record, Decline, Hold, uplinkVars
<1>3. InOnePlace(f) /\ Known(f) /\ Offers(f) /\ f \notin offered
  BY <1>1, <1>2 DEF OnceInv, Known, Offers, Idle, Record, Decline, Hold
<1>4. \A g \in Frame : Flushing(g)' = Flushing(g) /\ \A c \in Client : Out(c, g)' = Out(c, g)
  BY <1>2 DEF Flushing, Out
<1>5. CASE Record(t)
  <2>1. /\ UNCHANGED pending /\ offered' = offered \cup {f} /\ task'["main"].at = "idle"
    BY <1>1, <1>2, <1>5 DEF Record, Free
  <2>2. \A g \in Frame : InOnePlace(g)'
    BY <1>2, <1>4, <2>1 DEF OnceInv, InOnePlace, Sending
  <2>3. \A g \in Frame : Known(g)'
    BY <1>2, <1>4, <2>1 DEF OnceInv, Known, Somewhere, Sending, Offers, Idle
  <2> QED BY <1>1, <1>2, <2>1, <2>2, <2>3 DEF OnceInv, NoneTwice
<1>6. CASE Decline(t)
  <2>1. /\ UNCHANGED <<pending, offered>> /\ task["main"].at = "declined"
        /\ task'["main"].at \in {"idle", "holding"}
        /\ task'["main"].at # "idle" => task'["main"].frame = f
    BY <1>1, <1>2, <1>6 DEF Decline, Free, OfferStep, uplinkVars
  <2>2. \A g \in Frame : InOnePlace(g)'
    BY <1>2, <1>4, <2>1 DEF OnceInv, InOnePlace, Sending
  <2>3. \A g \in Frame : Known(g)'
    BY <1>2, <1>3, <1>4, <2>1 DEF OnceInv, Known, Somewhere, Sending, Offers, Idle
  <2> QED BY <1>1, <1>2, <2>1, <2>2, <2>3 DEF OnceInv, NoneTwice
<1>7. CASE Hold(t)
  <2>1. /\ pending' = Append(pending, f) /\ offered' = offered \cup {f}
        /\ task["main"].at = "holding" /\ task'["main"].at = "idle"
    BY <1>1, <1>2, <1>7 DEF Hold, Free
  <2>2. ~Somewhere(f)
    BY <1>3, <2>1 DEF Known
  <2>3. /\ \A g \in Frame : InQueue(pending', g) <=> InQueue(pending, g) \/ g = f
        /\ Distinct(pending')
    BY <1>1, <2>1, <2>2, QueueGrows DEF OnceInv, NoneTwice, Somewhere
  <2>4. \A g \in Frame : InOnePlace(g)'
    BY <1>2, <1>4, <2>1, <2>2, <2>3 DEF OnceInv, InOnePlace, Somewhere, Sending
  <2>5. \A g \in Frame : Known(g)'
    BY <1>2, <1>4, <2>1, <2>3 DEF OnceInv, Known, Somewhere, Sending, Offers, Idle
  <2> QED BY <1>1, <1>2, <2>3, <2>4, <2>5 DEF OnceInv, NoneTwice
<1> QED
  BY <1>5, <1>6, <1>7

LEMMA TickOnce == ASSUME Tasks, OnceInv, Look \/ FlushNext PROVE OnceInv'
<1>1. /\ Inv' /\ Task = {"main", "tick"} /\ task \in [Task -> OfferStep]
      /\ pending \in Seq(Frame) /\ batch \in Seq(Frame)
  <2>1. Inv'
    BY TickInv DEF OnceInv
  <2> QED BY <2>1, Parts
<1>2. /\ task["tick"].at = "idle" /\ UNCHANGED <<client, offered, handed>>
      /\ task'["main"] = task["main"]
  BY <1>1 DEF Look, FlushNext, TickIdle, Idle
<1>3. CASE Look
  <2>1. /\ UNCHANGED task /\ batch = <<>>
        /\ \/ UNCHANGED <<pending, batch>>
           \/ batch' = pending /\ pending' = <<>>
           \/ UNCHANGED batch /\ pending' = <<>>
    BY <1>3 DEF Look, TickIdle
  <2>2. NoneTwice'
    BY <1>2, <2>1, NothingQueued DEF OnceInv, NoneTwice
  <2>3. \A g \in Frame : InOnePlace(g)'
    BY <1>2, <2>1, NothingQueued DEF OnceInv, InOnePlace, Sending, Flushing, Out
  <2>4. \A g \in Frame : Known(g)'
    BY <1>2, <2>1, NothingQueued
      DEF OnceInv, Known, Somewhere, Sending, Flushing, Out, Offers, Idle
  <2> QED BY <1>1, <2>2, <2>3, <2>4 DEF OnceInv
<1>4. CASE FlushNext
  <2> DEFINE f == Head(batch)
  <2>1. /\ UNCHANGED pending /\ batch # <<>> /\ batch' = Tail(batch)
        /\ \/ task'["tick"].at = "idle"
           \/ task'["tick"].at = "sending" /\ task'["tick"].frame = f
    BY <1>1, <1>4 DEF FlushNext, Free
  <2>2. /\ \A g \in Frame : InQueue(batch, g) <=> g = f \/ InQueue(batch', g)
        /\ Distinct(batch') /\ ~InQueue(batch', f)
    BY <1>1, <2>1, QueueShrinks DEF OnceInv, NoneTwice
  <2> HIDE DEF f
  <2>3. \A g \in Frame : /\ ~Flushing(g) /\ (Flushing(g)' => g = f)
                         /\ \A c \in Client : Out(c, g)' = Out(c, g)
    BY <1>2, <2>1 DEF Flushing, Out
  <2>4. NoneTwice'
    BY <1>2, <2>1, <2>2 DEF OnceInv, NoneTwice
  <2>5. \A g \in Frame : InOnePlace(g)'
    BY <1>2, <2>1, <2>2, <2>3 DEF OnceInv, InOnePlace, Sending
  <2>6. \A g \in Frame : Known(g)'
    BY <1>2, <2>1, <2>2, <2>3 DEF OnceInv, Known, Somewhere, Sending, Offers, Idle
  <2> QED BY <1>1, <2>4, <2>5, <2>6 DEF OnceInv
<1> QED
  BY <1>3, <1>4

\* The main loop's other work: at most the hold is emptied.
LEMMA MainOnce ==
  ASSUME Tasks, OnceInv, TakeIn \/ StopHub \/ StartHub
  PROVE  OnceInv'
<1>1. Inv' /\ client \in [Client -> ClientTask]
  <2>1. Inv'
    BY TakeInInv, CommandInv DEF OnceInv
  <2> QED BY <2>1, Parts
<1>2. /\ UNCHANGED <<batch, offered, handed, task>>
      /\ UNCHANGED pending \/ pending' = <<>>
  BY DEF TakeIn, StopHub, StartHub, uplinkVars
<1>3. \A c \in Client : client'[c].out = client[c].out
  <2>1. CASE UNCHANGED client
    BY <2>1
  <2>2. CASE client' = [client EXCEPT ![hub].stopped = TRUE]
    BY <1>1, <2>2 DEF ClientTask
  <2>3. ASSUME NEW c \in Client, client' = [client EXCEPT ![c].phase = "dialing"]
        PROVE  \A d \in Client : client'[d].out = client[d].out
    BY <1>1, <2>3 DEF ClientTask
  <2> QED BY <2>1, <2>2, <2>3 DEF TakeIn, StopHub, StartHub
<1>4. NoneTwice'
  BY <1>2, <1>3, NothingQueued DEF OnceInv, NoneTwice
<1>5. \A g \in Frame : InOnePlace(g)'
  BY <1>2, <1>3, NothingQueued DEF OnceInv, InOnePlace, Sending, Flushing, Out
<1>6. \A g \in Frame : Known(g)'
  BY <1>2, <1>3, NothingQueued DEF OnceInv, Known, Somewhere, Sending, Flushing, Out, Offers, Idle
<1> QED
  BY <1>1, <1>4, <1>5, <1>6 DEF OnceInv

\* A client's channel stays, is dropped, or loses its first frame, to the hub or
\* to nobody.
LEMMA ClientOnce ==
  ASSUME Tasks, OnceInv, NEW c \in Client,
         \/ Dial(c) \/ DialFails(c) \/ Accepted(c) \/ Refused(c) \/ Lose(c)
         \/ Forward(c) \/ Deliver(c) \/ Delivered(c) \/ End(c)
  PROVE  OnceInv'
<1> DEFINE q == client[c].out
<1>1. /\ Inv' /\ client \in [Client -> ClientTask] /\ q \in Seq(Frame)
      /\ handed \in [Frame -> 0..2] /\ client[c] \in ClientTask
  <2>1. Inv'
    BY ClientInv DEF OnceInv
  <2> QED BY <2>1, Parts
<1>2. UNCHANGED <<pending, batch, offered, task>>
  BY DEF Dial, DialFails, Accepted, Refused, Lose, Forward, Deliver, Delivered, End, Elsewhere,
    uplinkVars
<1>3. \A d \in Client : d # c => client'[d].out = client[d].out
  BY <1>1 DEF Dial, DialFails, Accepted, Refused, Lose, Forward, Deliver, Delivered, End, Becomes
<1>4. \/ client'[c].out = q /\ UNCHANGED handed
      \/ client'[c].out = <<>> /\ UNCHANGED handed
      \/ q # <<>> /\ client'[c].out = Tail(q) /\ UNCHANGED handed
      \/ /\ q # <<>> /\ client'[c].out = Tail(q)
         /\ handed' = [handed EXCEPT ![Head(q)] = IF @ = 2 THEN 2 ELSE @ + 1]
  <2>1. CASE Lose(c)
    <3>1. CASE Becomes(c, "dialing")
      BY <1>1, <2>1, <3>1 DEF Lose, Becomes, ClientTask
    <3>2. CASE q # <<>> /\ client' = [client EXCEPT ![c].phase = "dialing", ![c].out = Tail(@)]
      BY <1>1, <2>1, <3>2 DEF Lose, ClientTask
    <3> QED BY <2>1, <3>1, <3>2 DEF Lose
  <2>2. CASE DialFails(c)
    BY <2>2 DEF DialFails
  <2>3. CASE Forward(c)
    BY <1>1, <2>3 DEF Forward, ClientTask
  <2>4. CASE End(c)
    BY <1>1, <2>4 DEF End, ClientTask
  <2>5. CASE Dial(c) \/ Accepted(c) \/ Refused(c) \/ Deliver(c) \/ Delivered(c)
    <3>1. UNCHANGED handed /\ \E p \in {"hello", "ready", "dialing", "blocked"} : Becomes(c, p)
      BY <2>5 DEF Dial, Accepted, Refused, Deliver, Delivered
    <3> QED BY <1>1, <3>1 DEF Becomes, ClientTask
  <2> QED BY <2>1, <2>2, <2>3, <2>4, <2>5
<1>5. /\ \A d \in Client : Distinct(client'[d].out)
      /\ \A g \in Frame, d \in Client : Out(d, g)' => Out(d, g)
      /\ q # <<>> /\ client'[c].out = Tail(q) =>
           \A g \in Frame : g = Head(q) => Out(c, g) /\ ~Out(c, g)'
  <2>1. Distinct(q) /\ \A d \in Client : Distinct(client[d].out)
    BY DEF OnceInv, NoneTwice
  <2>2. q # <<>> => Head(q) \in Frame
    BY <1>1, Queues
  <2> HIDE DEF q
  <2>3. /\ q # <<>> => /\ Distinct(Tail(q)) /\ InQueue(q, Head(q)) /\ ~InQueue(Tail(q), Head(q))
                       /\ \A g \in Frame : InQueue(Tail(q), g) => InQueue(q, g)
    BY <1>1, <2>1, <2>2, QueueShrinks
  <2>4. \A d \in Client : d # c =>
          Distinct(client'[d].out) /\ \A g \in Frame : Out(d, g)' <=> Out(d, g)
    BY <1>3, <2>1 DEF Out
  <2>5. Distinct(client'[c].out) /\ \A g \in Frame : InQueue(client'[c].out, g) => InQueue(q, g)
    BY <1>4, <2>1, <2>3, NothingQueued
  <2>6. \A g \in Frame : /\ Out(c, g)' <=> InQueue(client'[c].out, g)
                         /\ Out(c, g) <=> InQueue(q, g)
    BY DEF Out, q
  <2>7. q # <<>> /\ client'[c].out = Tail(q) =>
          \A g \in Frame : g = Head(q) => Out(c, g) /\ ~Out(c, g)'
    BY <2>2, <2>3, <2>6
  <2> QED BY <2>2, <2>4, <2>5, <2>6, <2>7
<1>6. NoneTwice'
  BY <1>2, <1>5 DEF OnceInv, NoneTwice
<1>7. ASSUME NEW g \in Frame PROVE InOnePlace(g)' /\ Known(g)'
  <2>1. InOnePlace(g) /\ Known(g)
    BY DEF OnceInv
  <2>2. (Flushing(g)' <=> Flushing(g)) /\ (Offers(g)' <=> Offers(g))
    BY <1>2 DEF Flushing, Offers, Idle
  <2>3. CASE handed'[g] = handed[g]
    BY <1>2, <1>5, <2>1, <2>2, <2>3 DEF InOnePlace, Known, Somewhere, Sending
  <2>4. CASE handed'[g] # handed[g]
    <3>1. /\ q # <<>> /\ g = Head(q) /\ client'[c].out = Tail(q)
          /\ handed'[g] = IF handed[g] = 2 THEN 2 ELSE handed[g] + 1
      BY <1>1, <1>4, <2>4
    <3>2. Out(c, g) /\ ~Out(c, g)'
      BY <1>5, <3>1
    <3>3. handed[g] = 0 /\ handed'[g] = 1 /\ Sending(g)
      BY <2>1, <3>1, <3>2 DEF InOnePlace, Sending
    <3>4. \A d \in Client : ~Out(d, g)'
      BY <1>5, <2>1, <3>2 DEF InOnePlace
    <3> QED
      BY <1>2, <2>1, <2>2, <3>2, <3>3, <3>4 DEF InOnePlace, Known, Somewhere, Sending
  <2> QED BY <2>3, <2>4
<1> QED
  BY <1>1, <1>6, <1>7 DEF OnceInv

\* Where the main loop alone offers, a frame goes to the hub once, whatever is
\* held, flushed or offered again (offer_hub, hub_offered).
THEOREM HandedAtMostOnce ==
  ASSUME Offerer = {"main"}
  PROVE  Spec => []HandedOnce
<1>1. Init => OnceInv
  BY InitOnce
<1>2. OnceInv /\ [Next]_vars => OnceInv'
  <2> SUFFICES ASSUME OnceInv, [Next]_vars PROVE OnceInv'
    OBVIOUS
  <2>1. Tasks
    BY DEF Tasks
  <2>2. CASE UNCHANGED vars
    <3>1. Inv'
      BY <2>2 DEF vars, OnceInv, Inv, TypeOK, SendsToClient, Current, FlagUp
    <3>2. NoneTwice' /\ \A f \in Frame : InOnePlace(f)' /\ Known(f)'
      BY <2>2 DEF vars, OnceInv, NoneTwice, InOnePlace, Known, Somewhere, Sending, Flushing, Out,
        Offers, Idle
    <3> QED BY <3>1, <3>2 DEF OnceInv
  <2>3. CASE Next
    BY <2>1, <2>3, OfferOnce, SendOnce, AfterOnce, TickOnce, MainOnce, ClientOnce
      DEF Next, Offering
  <2> QED
    BY <2>2, <2>3
<1>3. OnceInv => HandedOnce
  BY DEF OnceInv, InOnePlace, HandedOnce
<1> QED
  BY <1>1, <1>2, <1>3, PTL DEF Spec
=============================================================================
