----------------------------- MODULE MarkStore -----------------------------
(***************************************************************************)
(* The stored mark of one line of ours, and the marks its client is sent.  *)
(*                                                                         *)
(* Store::advance_delivery reads the mark and writes it under two separate *)
(* locks of the connection.  Three tasks mark the line: the main loop      *)
(* (sending, echoes, receipts, gateway notices, flush), the ARQ loop       *)
(* (giving up, the age limit) and the hub tick (lines that waited for the  *)
(* hub).  What is done under one lock is one step here, and so is a send   *)
(* to the client.                                                          *)
(***************************************************************************)
EXTENDS Delivery

Task == {"main", "arq", "hub"}

VARIABLES
  mark,      \* the row's delivery column, "none" before the line is stored
  writing,   \* the mark each task has decided to write, or "none"
  painting,  \* the mark each task is about to show, or "none"
  shown,     \* IrcState.shown: the furthest mark anybody took to show
  telling,   \* the mark each task took and has not sent yet, or "none"
  told,      \* the furthest mark the client was sent
  last,      \* the mark it was sent last
  crossed,   \* two tasks have had a mark each to send at one time
  sending,   \* how far main is with send_chat
  receipt,   \* how far main is with the line's receipt; there is one
  waits,     \* pending_inet holds the line
  due,       \* ack_wait_due gave the ARQ loop the row, [tx] or [rl] then
  gwMarked   \* gw_marked holds the line

client == <<shown, telling, told, last, crossed>>
vars == <<mark, writing, painting, client, sending, receipt, waits, due, gwMarked>>

Idle(t) == writing[t] = "none" /\ painting[t] = "none" /\ telling[t] = "none"
\* main awaits each handler to its end before it takes the next event.
MainFree ==
  /\ Idle("main")
  /\ sending \in {"no", "done"}
  /\ receipt \in {"awaited", "handled"}

TypeOK ==
  /\ {mark, shown, told, last} \subseteq Mark \cup {"none"}
  /\ {writing, painting, telling} \subseteq [Task -> Mark \cup {"none"}]
  /\ sending \in {"no", "stored", "dispatched", "done"}
  /\ receipt \in {"awaited", "stored", "taken", "handled"}
  /\ {waits, due, gwMarked, crossed} \subseteq BOOLEAN

Init ==
  /\ mark = "none" /\ shown = "none" /\ told = "none" /\ last = "none"
  /\ writing = [t \in Task |-> "none"]
  /\ painting = writing /\ telling = writing /\ crossed = FALSE
  /\ sending = "no" /\ receipt = "awaited"
  /\ waits = FALSE /\ due = FALSE /\ gwMarked = FALSE

\* advance_delivery, first lock: a task reads the mark and decides.
Decide(t, next) ==
  writing' = [writing EXCEPT ![t] = IF Advances(mark, next) THEN next ELSE "none"]

\* mark_hub_forward: the hub took the line.  [gw] is sent to the client
\* whether or not the store took it.
HubTook(t) ==
  /\ gwMarked' = TRUE
  /\ Decide(t, "gateway")
  /\ painting' = [painting EXCEPT ![t] = IF Advances(mark, "gateway") THEN "none" ELSE "gateway"]

\* send_chat: the row is stored, then dispatched: to the hub, to the lines
\* that wait for it, or by radio only.  set_delivery(Sent) comes after.
Store ==
  /\ MainFree /\ mark = "none"
  /\ mark' = "queued" /\ sending' = "stored"
  /\ UNCHANGED <<writing, painting, client, receipt, waits, due, gwMarked>>

Dispatch ==
  /\ sending = "stored" /\ sending' = "dispatched"
  /\ \/ HubTook("main") /\ UNCHANGED waits
     \/ waits' \in BOOLEAN /\ UNCHANGED <<writing, painting, gwMarked>>
  /\ UNCHANGED <<mark, client, receipt, due>>

Sent ==
  /\ Idle("main") /\ sending = "dispatched" /\ sending' = "done"
  /\ writing' = [writing EXCEPT !["main"] = "sent"]
  /\ UNCHANGED <<mark, painting, client, receipt, waits, due, gwMarked>>

\* Our line is heard again on the air, or a gateway's notice by radio.
Hear(next) ==
  /\ MainFree /\ mark # "none"
  /\ Decide("main", next)
  /\ UNCHANGED <<mark, painting, client, sending, receipt, waits, due, gwMarked>>

\* A receipt arrives.  Engine::on_rx advances the line when it stores it,
\* on_envelope once more; then it shows [ok] if that is what the store holds.
Receipt ==
  /\ MainFree /\ mark # "none" /\ receipt = "awaited"
  /\ Decide("main", "delivered")
  /\ receipt' = "stored"
  /\ UNCHANGED <<mark, painting, client, sending, waits, due, gwMarked>>

ReceiptTaken ==
  /\ Idle("main") /\ receipt = "stored"
  /\ Decide("main", "delivered")
  /\ receipt' = "taken"
  /\ UNCHANGED <<mark, painting, client, sending, waits, due, gwMarked>>

ReceiptShown ==
  /\ Idle("main") /\ receipt = "taken"
  /\ painting' = [painting EXCEPT !["main"] = IF mark \in {"delivered", "all"} THEN "delivered" ELSE "none"]
  /\ receipt' = "handled"
  /\ UNCHANGED <<mark, writing, client, sending, waits, due, gwMarked>>

\* ack_wait_due reads rows whose retries are spent; the loop comes to ours
\* later, asks for the mark again, and gives it up.
Spent ==
  /\ Idle("arq") /\ sending = "done" /\ mark \in {"sent", "relayed"}
  /\ due' = TRUE
  /\ UNCHANGED <<mark, writing, painting, client, sending, receipt, waits, gwMarked>>

GiveUp ==
  /\ Idle("arq") /\ due /\ due' = FALSE
  /\ IF mark \in Unanswered THEN Decide("arq", "failed") ELSE UNCHANGED writing
  /\ UNCHANGED <<mark, painting, client, sending, receipt, waits, gwMarked>>

\* fail_outbound holds the lock from its SELECT to its UPDATEs: the ARQ loop's
\* age limit, or main's flush.  The limit is an hour, so sending is over.
Fail(t) ==
  /\ Idle(t) /\ (t = "main" => MainFree) /\ ~due
  /\ sending = "done" /\ writing["main"] # "sent"
  /\ mark \in Failable
  /\ mark' = "failed"
  /\ painting' = [painting EXCEPT ![t] = "failed"]
  /\ UNCHANGED <<writing, client, sending, receipt, waits, due, gwMarked>>

\* The hub tick empties pending_inet: the hub takes the line, the send fails,
\* or the hub refused our call and the client is told [no].
Reconnect ==
  /\ Idle("hub") /\ waits /\ waits' = FALSE
  /\ \/ HubTook("hub")
     \/ UNCHANGED <<writing, painting, gwMarked>>
     \/ /\ CanAdvance(mark, "failed")
        /\ painting' = [painting EXCEPT !["hub"] = "failed"]
        /\ UNCHANGED <<writing, gwMarked>>
  /\ UNCHANGED <<mark, client, sending, receipt, due>>

\* advance_delivery, second lock: set_delivery writes what was decided, and
\* the caller goes on to show it.  An echo of a [gw] line shows nothing.
Write(t) ==
  /\ writing[t] # "none"
  /\ mark' = IF SetAllowed(mark, writing[t]) THEN writing[t] ELSE mark
  /\ writing' = [writing EXCEPT ![t] = "none"]
  /\ painting' = [painting EXCEPT ![t] =
       IF \/ t = "main" /\ receipt \in {"stored", "taken"}
          \/ writing[t] = "relayed" /\ gwMarked
       THEN "none" ELSE writing[t]]
  /\ gwMarked' = (gwMarked \/ writing[t] = "gateway")
  /\ UNCHANGED <<client, sending, receipt, waits, due>>

\* take_mark drops a mark lower than one already taken, under the lock of
\* IrcState; the mark itself is sent after that, over a bounded channel.
\* Mutants: every mark is taken; only the first is.
AnyMark(m) == TRUE
FirstOnly(m) == shown = "none"
TakeMark(m) == shown = "none" \/ Rank[m] >= Rank[shown]

Take(t) ==
  /\ painting[t] # "none" /\ painting' = [painting EXCEPT ![t] = "none"]
  /\ IF TakeMark(painting[t])
     THEN /\ shown' = painting[t]
          /\ telling' = [telling EXCEPT ![t] = painting[t]]
          /\ crossed' = (crossed \/ \E r \in Task : telling[r] # "none")
     ELSE UNCHANGED <<shown, telling, crossed>>
  /\ UNCHANGED <<mark, writing, told, last, sending, receipt, waits, due, gwMarked>>

Tell(t) ==
  /\ telling[t] # "none" /\ telling' = [telling EXCEPT ![t] = "none"]
  /\ last' = telling[t]
  /\ told' = IF told # "none" /\ Rank[told] >= Rank[telling[t]] THEN told ELSE telling[t]
  /\ UNCHANGED <<mark, writing, painting, shown, crossed, sending, receipt, waits, due, gwMarked>>

Next ==
  \/ Store \/ Dispatch \/ Sent
  \/ Hear("relayed") \/ Hear("gateway")
  \/ Receipt \/ ReceiptTaken \/ ReceiptShown
  \/ Spent \/ GiveUp \/ Fail("arq") \/ Fail("main") \/ Reconnect
  \/ \E t \in Task : Write(t) \/ Take(t) \/ Tell(t)

Spec == Init /\ [][Next]_vars

-----------------------------------------------------------------------------
\* No task is busy with the line, and main is at no handler of it.
Quiet == (\A t \in Task : Idle(t)) /\ MainFree /\ mark \in Mark

\* Once every task is done with the line, the client has been sent a mark at
\* least as far along as the stored one: no report of a task that lost a race
\* leaves the client behind (advance_delivery, tagmsg_mark).
ClientKeepsUp == Quiet => told # "none" /\ Rank[told] >= Rank[mark]

\* And the last mark it was sent is as far along, so a stale [tx] or [gw] does
\* not stand over an [ok] (take_mark): unless two tasks each had a mark to
\* send at one time, when the channel takes them in either order.
LastWordStands == Quiet /\ ~crossed => last # "none" /\ Rank[last] >= Rank[mark]

\* A line whose receipt is stored is never stored as given up: "a terminal
\* mark" is not walked back (the comment of advance_delivery).
ReceiptedStays == [][mark = "delivered" => mark' # "failed"]_vars
=============================================================================
