-------------------------- MODULE MarkStoreProofs --------------------------
(***************************************************************************)
(* Proofs about MarkStore.  The stored mark may move back (two locks), yet *)
(* the client never stays behind the store: for each mark the store holds, *)
(* somebody has taken as much to show or is about to, and what is taken is *)
(* sent.  As long as no two sends cross, the last one stands.              *)
(***************************************************************************)
EXTENDS MarkStore, TLAPS

LEMMA Ranks ==
  /\ Rank["queued"] = 0 /\ Rank["sent"] = 1 /\ Rank["relayed"] = 2
  /\ Rank["gateway"] = 3 /\ Rank["failed"] = 4 /\ Rank["delivered"] = 5
  /\ Rank["all"] = 6
  BY DEF Rank, Mark

LEMMA RankNat == \A m \in Mark : Rank[m] \in 0..6
  BY Ranks, SMT DEF Mark

LEMMA Marks ==
  /\ "queued" \in Mark /\ "sent" \in Mark /\ "relayed" \in Mark /\ "gateway" \in Mark
  /\ "failed" \in Mark /\ "delivered" \in Mark /\ "all" \in Mark /\ "none" \notin Mark
  BY DEF Mark

LEMMA Tasks == "main" \in Task /\ "arq" \in Task /\ "hub" \in Task
  BY DEF Task

\* The marks each task writes, that it shows one thing at a time, and that main
\* finishes sending before it hears of the line again.
Roles ==
  /\ writing["main"] \in {"none", "sent", "relayed", "gateway", "delivered"}
  /\ writing["arq"] \in {"none", "failed"}
  /\ writing["hub"] \in {"none", "gateway"}
  /\ \A t \in Task :
       /\ writing[t] # "none" => painting[t] = "none"
       /\ writing[t] # "none" \/ painting[t] # "none" => telling[t] = "none"
  /\ receipt \in {"stored", "taken"} =>
       /\ writing["main"] \in {"none", "delivered"}
       /\ painting["main"] = "none" /\ telling["main"] = "none"

Turns ==
  /\ sending # "done" => receipt = "awaited" /\ ~due
  /\ sending \in {"no", "stored"} => Idle("main")
  /\ writing["main"] = "sent" => sending = "done"
  /\ (sending = "no") <=> (mark = "none")
  /\ sending = "no" => ~waits /\ ~gwMarked /\ \A t \in Task : Idle(t)

\* Somebody took m or more to show it, or is about to.
Cover(m) ==
  \/ shown # "none" /\ Rank[shown] >= Rank[m]
  \/ \E t \in Task : painting[t] # "none" /\ Rank[painting[t]] >= Rank[m]

Pending == \E t \in Task : writing[t] = "gateway"

Covered ==
  mark # "none" =>
    \/ Cover(mark)
    \/ Pending /\ Rank[mark] <= 3
    \/ mark = "queued" /\ (sending \in {"stored", "dispatched"} \/ writing["main"] = "sent")
    \/ mark = "delivered" /\ receipt \in {"stored", "taken"}

\* What was taken is sent; with one mark on its way at a time, in that order.
Sends ==
  /\ shown # "none" =>
       \/ told # "none" /\ Rank[told] >= Rank[shown]
       \/ \E t \in Task : telling[t] # "none" /\ Rank[telling[t]] >= Rank[shown]
  /\ ~crossed =>
       /\ \A t \in Task : telling[t] # "none" =>
            telling[t] = shown /\ \A r \in Task \ {t} : telling[r] = "none"
       /\ (\A t \in Task : telling[t] = "none") => last = shown

MCore ==
  /\ TypeOK
  /\ Roles
  /\ Turns
  /\ gwMarked => Cover("gateway") \/ Pending
  /\ Covered

MInv == MCore /\ Sends

LEMMA MInit == Init => MInv
  BY Tasks DEF Init, MInv, MCore, TypeOK, Roles, Turns, Idle, Covered, Sends, Task

LEMMA SendsStay ==
  ASSUME Sends, UNCHANGED client
  PROVE  Sends'
  BY DEF Sends, client

\* A mark that was covered stays so when a task takes one to show.
LEMMA TakeCovers ==
  ASSUME TypeOK, NEW t \in Task, Take(t), NEW m \in Mark, Cover(m)
  PROVE  Cover(m)'
  <1> DEFINE p == painting[t]
  <1>1. /\ p \in Mark
        /\ shown' = IF TakeMark(p) THEN p ELSE shown
        /\ painting' = [painting EXCEPT ![t] = "none"]
        /\ shown \in Mark \cup {"none"} /\ painting \in [Task -> Mark \cup {"none"}]
    BY DEF Take, TypeOK
  <1>2. \A r \in Task : r # t => painting'[r] = painting[r] BY <1>1
  <1>3. shown' \in Mark /\ Rank[shown'] >= Rank[p]
        /\ (shown # "none" => Rank[shown'] >= Rank[shown])
    BY <1>1, RankNat, SMT DEF TakeMark
  <1>4. shown' # "none" BY <1>3, Marks
  <1>5. CASE shown # "none" /\ Rank[shown] >= Rank[m]
    <2>1. Rank[shown'] >= Rank[m] BY <1>1, <1>3, <1>5, RankNat, SMT
    <2> QED BY <1>4, <2>1 DEF Cover
  <1>6. ASSUME NEW r \in Task, painting[r] # "none", Rank[painting[r]] >= Rank[m]
        PROVE  Cover(m)'
    <2>1. CASE r = t
      <3>1. Rank[shown'] >= Rank[m] BY <1>1, <1>3, <1>6, <2>1, RankNat, SMT
      <3> QED BY <1>4, <3>1 DEF Cover
    <2>2. CASE r # t BY <1>2, <1>6, <2>2 DEF Cover
    <2> QED BY <2>1, <2>2
  <1> QED BY <1>5, <1>6 DEF Cover

\* Nobody stops showing anything in the other steps.
LEMMA CoverStays ==
  ASSUME shown' = shown, NEW m,
         \A t \in Task : painting[t] # "none" => painting'[t] = painting[t],
         Cover(m)
  PROVE  Cover(m)'
  BY DEF Cover

LEMMA CoverAlike ==
  ASSUME TypeOK, NEW m \in Mark, NEW k \in Mark, Cover(m), Rank[k] <= Rank[m]
  PROVE  Cover(k)
  <1>1. CASE shown # "none" /\ Rank[shown] >= Rank[m]
    <2>1. shown \in Mark BY <1>1 DEF TypeOK
    <2>2. Rank[shown] >= Rank[k] BY <1>1, <2>1, RankNat, SMT
    <2> QED BY <1>1, <2>2 DEF Cover
  <1>2. ASSUME NEW t \in Task, painting[t] # "none", Rank[painting[t]] >= Rank[m]
        PROVE  Cover(k)
    <2>1. painting[t] \in Mark BY <1>2 DEF TypeOK
    <2>2. Rank[painting[t]] >= Rank[k] BY <1>2, <2>1, RankNat, SMT
    <2> QED BY <1>2, <2>2 DEF Cover
  <1> QED BY <1>1, <1>2 DEF Cover

\* A task decides on a mark to write, if it writes one.
LEMMA DecideType ==
  ASSUME TypeOK, NEW t \in Task, NEW m \in Mark, Decide(t, m)
  PROVE  /\ writing' \in [Task -> Mark \cup {"none"}]
         /\ writing'[t] = (IF Advances(mark, m) THEN m ELSE "none")
         /\ \A r \in Task : r # t => writing'[r] = writing[r]
  BY DEF TypeOK, Decide

\* A step that changes at most pending_inet and the ARQ loop's snapshot.
LEMMA OnlyWaitsOrDue ==
  ASSUME MCore, UNCHANGED <<mark, writing, painting, client, sending, receipt, gwMarked>>,
         waits' \in BOOLEAN, waits' => waits, due' \in BOOLEAN, due' => due \/ sending = "done"
  PROVE  MCore'
  <1> USE DEF client
  <1>1. TypeOK' BY DEF MCore, TypeOK
  <1>2. Roles' BY DEF MCore, Roles
  <1>3. Turns' BY DEF MCore, Turns, Idle
  <1>4. (\A k : Cover(k)' <=> Cover(k)) /\ Pending' = Pending BY DEF Cover, Pending
  <1>5. Covered' BY <1>4 DEF MCore, Covered
  <1> QED BY <1>1, <1>2, <1>3, <1>4, <1>5 DEF MCore

LEMMA MNext ==
  ASSUME MCore, Next
  PROVE  MCore'
  <1> USE DEF MCore, client
  <1>0. /\ mark \in Mark \cup {"none"} /\ shown \in Mark \cup {"none"}
        /\ writing \in [Task -> Mark \cup {"none"}]
        /\ painting \in [Task -> Mark \cup {"none"}]
        /\ telling \in [Task -> Mark \cup {"none"}]
    BY DEF TypeOK
  <1>1. CASE Store
    <2>1. TypeOK' BY <1>1, Marks DEF Store, TypeOK
    <2>2. /\ Idle("main") /\ sending = "no" /\ receipt = "awaited"
          /\ mark' = "queued" /\ sending' = "stored"
          /\ UNCHANGED <<writing, painting, client, receipt, waits, due, gwMarked>>
      BY <1>1 DEF Store, MainFree, Turns
    <2>3. Roles' /\ Turns' BY <2>2 DEF Roles, Turns, Idle
    <2>4. ~gwMarked' BY <2>2 DEF Turns
    <2>5. Covered' BY <2>2 DEF Covered
    <2> QED BY <2>1, <2>3, <2>4, <2>5
  <1>2. CASE Sent
    <2>1. /\ Idle("main") /\ sending = "dispatched" /\ sending' = "done"
          /\ writing' = [writing EXCEPT !["main"] = "sent"] /\ mark # "none"
          /\ UNCHANGED <<mark, painting, client, receipt, waits, due, gwMarked>>
      BY <1>2 DEF Sent, Turns
    <2>2. /\ writing["main"] = "none" /\ painting["main"] = "none" /\ telling["main"] = "none"
          /\ writing'["main"] = "sent" /\ receipt = "awaited"
          /\ \A r \in Task : r # "main" => writing'[r] = writing[r]
      BY <1>0, <2>1, Tasks DEF Idle, Turns
    <2>w. writing' \in [Task -> Mark \cup {"none"}] BY <1>0, <2>1, Marks
    <2>3. TypeOK' BY <2>1, <2>w DEF TypeOK
    <2>4. Roles' BY <2>1, <2>2, Tasks DEF Roles
    <2>5. Turns' BY <2>1 DEF Turns
    <2>6. Pending => Pending' BY <2>2, Tasks DEF Pending
    <2>7. \A k : Cover(k) => Cover(k)' BY <2>1 DEF Cover
    <2>8. Covered' BY <2>1, <2>2, <2>6, <2>7 DEF Covered
    <2> QED BY <2>1, <2>3, <2>4, <2>5, <2>6, <2>7, <2>8
  \* Steps of main and arq that only read the mark and decide.
  <1>3. ASSUME NEW t \in Task, NEW m \in Mark, Decide(t, m), Idle(t),
               UNCHANGED <<mark, painting, client, sending, waits, gwMarked>>,
               due' \in BOOLEAN, sending = "done",
               receipt' \in {"awaited", "stored", "taken", "handled"},
               receipt \in {"stored", "taken"} => receipt' \in {"stored", "taken"},
               \/ t = "main" /\ m \in {"relayed", "gateway"} /\ receipt' = receipt
                  /\ receipt \notin {"stored", "taken"}
               \/ t = "main" /\ m = "delivered"
               \/ t = "arq" /\ m = "failed" /\ receipt' = receipt
        PROVE  MCore'
    <2>1. TypeOK' BY <1>3, DecideType DEF TypeOK
    <2>2. /\ writing'[t] \in {m, "none"} /\ writing[t] = "none" /\ painting[t] = "none" /\ telling[t] = "none"
          /\ \A r \in Task : r # t => writing'[r] = writing[r]
      BY <1>3, DecideType DEF Idle
    <2>3. Roles' BY <1>3, <2>2, Tasks DEF Roles
    <2>4. Turns'
      <3>1. CASE t = "main" BY <1>3, <2>2, <3>1 DEF Turns
      <3>2. CASE t = "arq"
        <4>1. writing'["main"] = writing["main"] BY <2>2, <3>2, Tasks
        <4> QED BY <1>3, <3>2, <4>1 DEF Turns, Idle
      <3> QED BY <1>3, <3>1, <3>2
    <2>5. Pending => Pending' BY <2>2 DEF Pending
    <2>6. \A k : Cover(k) => Cover(k)' BY <1>3 DEF Cover
    <2>7. Covered'
      <3>1. writing["main"] = "sent" => writing'["main"] = "sent" BY <2>2, Tasks
      <3> QED BY <1>3, <2>5, <2>6, <3>1 DEF Covered
    <2> QED BY <1>3, <2>1, <2>3, <2>4, <2>5, <2>6, <2>7
  <1>4. CASE Hear("relayed") \/ Hear("gateway")
    <2>1. PICK m \in {"relayed", "gateway"} : Hear(m) BY <1>4
    <2>2. /\ Decide("main", m) /\ Idle("main") /\ receipt \in {"awaited", "handled"}
          /\ sending = "done" /\ mark # "none"
          /\ UNCHANGED <<mark, painting, client, sending, receipt, waits, due, gwMarked>>
      BY <2>1, <1>0 DEF Hear, MainFree, Turns, Store
    <2>3. due \in BOOLEAN BY DEF TypeOK
    <2> QED BY <1>3, <2>2, <2>3, Marks, Tasks
  <1>5. CASE Receipt \/ ReceiptTaken
    <2>1. /\ Decide("main", "delivered") /\ Idle("main") /\ receipt' \in {"stored", "taken"}
          /\ sending = "done" /\ mark # "none"
          /\ UNCHANGED <<mark, painting, client, sending, waits, due, gwMarked>>
      BY <1>5 DEF Receipt, ReceiptTaken, MainFree, Turns
    <2>2. due \in BOOLEAN BY DEF TypeOK
    <2> QED BY <1>3, <2>1, <2>2, Marks, Tasks
  <1>6. CASE GiveUp
    <2>1. CASE Decide("arq", "failed")
      <3>1. /\ Idle("arq") /\ due' = FALSE /\ receipt' = receipt /\ sending = "done"
            /\ UNCHANGED <<mark, painting, client, sending, waits, gwMarked>>
        BY <1>6 DEF GiveUp, Turns
      <3>2. receipt \in {"awaited", "stored", "taken", "handled"} BY DEF TypeOK
      <3> QED BY <1>3, <2>1, <3>1, <3>2, Marks, Tasks
    <2>2. CASE UNCHANGED writing
      <3>1. due' = FALSE /\ UNCHANGED <<mark, writing, painting, client, sending, receipt, waits, gwMarked>>
        BY <1>6, <2>2 DEF GiveUp
      <3>2. waits \in BOOLEAN BY DEF TypeOK
      <3> QED BY <3>1, <3>2, OnlyWaitsOrDue
    <2> QED BY <1>6, <2>1, <2>2 DEF GiveUp
  <1>7. CASE Spent
    <2>1. sending = "done" /\ due' = TRUE /\ UNCHANGED <<mark, writing, painting, client, sending, receipt, waits, gwMarked>>
      BY <1>7 DEF Spent
    <2>2. waits \in BOOLEAN BY DEF TypeOK
    <2> QED BY <2>1, <2>2, OnlyWaitsOrDue
  <1>8. CASE ReceiptShown
    <2>1. /\ Idle("main") /\ receipt = "taken" /\ receipt' = "handled"
          /\ painting' = [painting EXCEPT !["main"] =
               IF mark \in {"delivered", "all"} THEN "delivered" ELSE "none"]
          /\ UNCHANGED <<mark, writing, client, sending, waits, due, gwMarked>>
      BY <1>8 DEF ReceiptShown
    <2>2. TypeOK' BY <2>1, Marks DEF TypeOK
    <2>3. /\ \A t \in Task : painting[t] # "none" => painting'[t] = painting[t]
          /\ mark = "delivered" => painting'["main"] = "delivered"
          /\ \A t \in Task : t # "main" => painting'[t] = painting[t]
      BY <1>0, <2>1, Tasks DEF Idle
    <2>4. \A k : Cover(k) => Cover(k)' BY <2>1, <2>3, CoverStays
    <2>5. Pending' = Pending BY <2>1 DEF Pending
    <2>6. Roles' BY <2>1, <2>3 DEF Roles, Idle
    <2>7. Turns' BY <2>1 DEF Turns, Idle
    <2>8. mark = "delivered" => Cover(mark)'
      <3>1. Rank["delivered"] >= Rank["delivered"] BY Ranks
      <3> QED BY <2>1, <2>3, <3>1, Tasks, Marks DEF Cover
    <2>9. Covered' BY <2>1, <2>4, <2>5, <2>8 DEF Covered
    <2> QED BY <2>1, <2>2, <2>4, <2>5, <2>6, <2>7, <2>9
  \* [no] is about to be shown, by fail_outbound or for a refused hub call.
  <1>9. ASSUME NEW t \in Task, Idle(t), t = "main" => receipt \in {"awaited", "handled"},
               painting' = [painting EXCEPT ![t] = "failed"],
               mark' \in {mark, "failed"}, sending \notin {"no", "stored"} \/ (t = "hub" /\ waits),
               waits' \in BOOLEAN,
               UNCHANGED <<writing, client, sending, receipt, due, gwMarked>>
        PROVE  MCore'
    <2>1. TypeOK' BY <1>0, <1>9, Marks DEF TypeOK
    <2>2. /\ \A r \in Task : painting[r] # "none" => painting'[r] = painting[r]
          /\ painting'[t] = "failed" /\ writing[t] = "none" /\ telling[t] = "none"
          /\ \A r \in Task : r # t => painting'[r] = painting[r]
      BY <1>0, <1>9 DEF Idle
    <2>3. \A k : Cover(k) => Cover(k)' BY <1>9, <2>2, CoverStays
    <2>4. Pending' = Pending BY <1>9 DEF Pending
    <2>5. Roles' BY <1>9, <2>2, Tasks DEF Roles
    <2>6. Turns' BY <1>9, <2>2, Tasks DEF Turns, Idle
    <2>7. mark' = "failed" => Cover(mark)'
      <3>1. Rank["failed"] >= Rank["failed"] BY Ranks
      <3> QED BY <2>2, <3>1, Marks DEF Cover
    <2>8. Covered' BY <1>9, <2>3, <2>4, <2>7 DEF Covered, Cover
    <2> QED BY <1>9, <2>1, <2>3, <2>4, <2>5, <2>6, <2>8
  <1>10. ASSUME NEW t \in Task, Fail(t) PROVE MCore'
    <2>1. /\ Idle(t) /\ (t = "main" => receipt \in {"awaited", "handled"})
          /\ painting' = [painting EXCEPT ![t] = "failed"]
          /\ mark' = "failed" /\ sending = "done" /\ waits' = waits
          /\ UNCHANGED <<writing, client, sending, receipt, due, gwMarked>>
      BY <1>10 DEF Fail, MainFree
    <2>2. waits \in BOOLEAN BY DEF TypeOK
    <2> QED BY <1>9, <2>1, <2>2
  \* The hub took the line, in send_chat's dispatch or from pending_inet.
  <1>11. ASSUME NEW t \in Task, HubTook(t), Idle(t), waits' \in BOOLEAN,
                UNCHANGED <<mark, client, receipt, due>>, mark # "none",
                \/ t = "main" /\ sending = "stored" /\ sending' = "dispatched"
                \/ t = "hub" /\ sending # "no" /\ sending' = sending
         PROVE  MCore'
    <2>1. /\ Decide(t, "gateway") /\ gwMarked' = TRUE
          /\ painting' = [painting EXCEPT ![t] = IF Advances(mark, "gateway") THEN "none" ELSE "gateway"]
      BY <1>11 DEF HubTook
    <2>2. TypeOK' BY <1>0, <1>11, <2>1, Marks, DecideType DEF TypeOK
    <2>3. /\ writing[t] = "none" /\ painting[t] = "none" /\ telling[t] = "none"
          /\ \A r \in Task : r # t => writing'[r] = writing[r] /\ painting'[r] = painting[r]
          /\ \/ writing'[t] = "gateway" /\ painting'[t] = "none"
             \/ writing'[t] = "none" /\ painting'[t] = "gateway"
      BY <1>0, <1>11, <2>1, Marks, DecideType DEF Idle
    <2>4. \A r \in Task : painting[r] # "none" => painting'[r] = painting[r] BY <2>3
    <2>5. \A k : Cover(k) => Cover(k)' BY <1>11, <2>4, CoverStays
    <2>6. Pending => Pending' BY <2>3 DEF Pending
    <2>7. Cover("gateway")' \/ Pending'
      <3>1. Rank["gateway"] >= Rank["gateway"] BY Ranks
      <3> QED BY <2>3, <3>1, Marks DEF Cover, Pending
    <2>8. Roles' BY <1>11, <2>1, <2>3, Tasks DEF Roles, Turns, Task
    <2>9. Turns'
      <3>1. CASE t = "main" BY <1>11, <2>1, <2>3, <3>1 DEF Turns
      <3>2. CASE t = "hub"
        <4>1. writing'["main"] = writing["main"] /\ painting'["main"] = painting["main"]
          BY <2>3, <3>2, Tasks
        <4> QED BY <1>11, <3>2, <4>1 DEF Turns, Idle
      <3> QED BY <1>11, <3>1, <3>2
    <2>10. Covered'
      <3>1. writing["main"] = "sent" => writing'["main"] = "sent" BY <2>3, Tasks
      <3> QED BY <1>11, <2>5, <2>6, <3>1 DEF Covered
    <2> QED BY <2>2, <2>7, <2>8, <2>9, <2>10
  <1>12. CASE Dispatch
    <2>0. waits \in BOOLEAN /\ mark # "none" /\ Idle("main") /\ receipt = "awaited"
      BY <1>12 DEF Dispatch, TypeOK, Turns
    <2>1. CASE HubTook("main") /\ UNCHANGED waits
      BY <1>11, <1>12, <2>0, <2>1, Tasks DEF Dispatch
    <2>2. CASE waits' \in BOOLEAN /\ UNCHANGED <<writing, painting, gwMarked>>
      <3>1. /\ sending = "stored" /\ sending' = "dispatched"
            /\ UNCHANGED <<mark, writing, painting, client, receipt, due, gwMarked>>
        BY <1>12, <2>2 DEF Dispatch
      <3>2. \A k : Cover(k) => Cover(k)' BY <3>1 DEF Cover
      <3>3. Pending' = Pending BY <3>1 DEF Pending
      <3>4. Covered' BY <3>1, <3>2, <3>3 DEF Covered
      <3>5. Turns' BY <3>1, <2>0 DEF Turns, Idle
      <3> QED BY <2>2, <3>1, <3>2, <3>3, <3>4, <3>5 DEF TypeOK, Roles
    <2> QED BY <1>12, <2>1, <2>2 DEF Dispatch
  <1>13. CASE Reconnect
    <2>0. due \in BOOLEAN BY DEF TypeOK
    <2>1. /\ Idle("hub") /\ waits /\ waits' = FALSE
          /\ UNCHANGED <<mark, client, sending, receipt, due>>
          /\ sending # "no" /\ mark # "none"
      BY <1>13 DEF Reconnect, Turns
    <2>2. CASE HubTook("hub") BY <1>11, <2>1, <2>2, Tasks
    <2>3. CASE UNCHANGED <<writing, painting, gwMarked>>
      BY <2>0, <2>1, <2>3, OnlyWaitsOrDue
    <2>4. CASE /\ painting' = [painting EXCEPT !["hub"] = "failed"]
               /\ UNCHANGED <<writing, gwMarked>>
      BY <1>9, <2>1, <2>4, Tasks
    <2> QED BY <1>13, <2>2, <2>3, <2>4 DEF Reconnect
  <1>14. ASSUME NEW t \in Task, Write(t) PROVE MCore'
    <2>0. writing[t] \in Mark BY <1>0, <1>14 DEF Write
    <2> PICK w \in Mark : w = writing[t] BY <2>0
    <2> DEFINE silent == \/ t = "main" /\ receipt \in {"stored", "taken"}
                         \/ w = "relayed" /\ gwMarked
    <2>a. /\ mark' = (IF SetAllowed(mark, w) THEN w ELSE mark)
          /\ shown' = shown /\ receipt' = receipt /\ sending' = sending /\ waits' = waits /\ due' = due
          /\ telling' = telling /\ told' = told /\ last' = last /\ crossed' = crossed
      BY <1>14 DEF Write
    <2>b. /\ writing' = [writing EXCEPT ![t] = "none"]
          /\ painting' = [painting EXCEPT ![t] = IF silent THEN "none" ELSE w]
      BY <1>14 DEF Write
    <2>1. /\ w # "none" /\ mark' = (IF SetAllowed(mark, w) THEN w ELSE mark)
          /\ writing' = [writing EXCEPT ![t] = "none"]
          /\ painting' = [painting EXCEPT ![t] = IF silent THEN "none" ELSE w]
          /\ shown' = shown /\ receipt' = receipt /\ sending' = sending /\ waits' = waits /\ due' = due
          /\ telling' = telling /\ told' = told /\ last' = last /\ crossed' = crossed
      BY <2>a, <2>b, Marks
    <2>gw. gwMarked' \in BOOLEAN /\ (gwMarked' => gwMarked \/ w = "gateway")
      BY <1>14 DEF Write
    <2>2. /\ w \in Mark /\ painting[t] = "none" /\ telling[t] = "none" /\ w # "all" /\ w # "queued"
          /\ silent => w \in {"relayed", "delivered"}
          /\ w = "relayed" => t = "main"
      BY <1>0, <2>1, Marks DEF Roles, Task
    <2>w. /\ writing' \in [Task -> Mark \cup {"none"}]
          /\ painting' \in [Task -> Mark \cup {"none"}]
      BY <1>0, <2>1, <2>2
    <2>3. TypeOK' BY <2>1, <2>2, <2>w, <2>gw DEF TypeOK
    <2>4. /\ writing'[t] = "none" /\ painting'[t] = (IF silent THEN "none" ELSE w)
          /\ \A r \in Task : r # t => writing'[r] = writing[r] /\ painting'[r] = painting[r]
      BY <1>0, <2>1
    <2>5. \A r \in Task : painting[r] # "none" => painting'[r] = painting[r] BY <2>2, <2>4
    <2>6. \A k : Cover(k) => Cover(k)' BY <2>1, <2>5, CoverStays
    <2>7. ~silent => Cover(w)'
      <3>1. Rank[w] >= Rank[w] BY <2>2, RankNat, SMT
      <3> QED BY <2>1, <2>2, <2>4, <3>1, Marks DEF Cover
    <2>8. Pending => Pending' \/ w = "gateway" BY <2>4 DEF Pending
    <2>9. gwMarked' => Cover("gateway")' \/ Pending'
      <3>1. CASE w = "gateway" BY <2>2, <2>7, <3>1
      <3>2. CASE w # "gateway"
        <4>1. gwMarked' => Cover("gateway") \/ Pending BY <2>gw, <3>2
        <4> QED BY <2>6, <2>8, <3>2, <4>1
      <3> QED BY <3>1, <3>2
    <2>10. Roles' BY <2>1, <2>4 DEF Roles, Task
    <2>t. Turns'
      <3>1. sending # "no" BY <1>14 DEF Write, Turns, Idle
      <3>2. mark' # "none" BY <2>1, <3>1 DEF Turns
      <3>3. sending = "stored" => t # "main" BY <1>14 DEF Write, Turns, Idle
      <3> QED BY <2>1, <2>4, <3>1, <3>2, <3>3, Tasks DEF Turns, Idle
    <2>11. Covered'
      <3>1. CASE mark' = w /\ ~silent BY <2>7, <3>1 DEF Covered, Cover
      <3>2. CASE mark' = w /\ silent
        <4>1. CASE w = "delivered"
          <5>1. receipt \in {"stored", "taken"} BY <3>2, <4>1
          <5> QED BY <2>1, <3>2, <4>1, <5>1 DEF Covered
        <4>2. CASE w = "relayed"
          <5>1. gwMarked
            BY <2>2, <3>2, <4>2, Tasks DEF Roles
          <5>2. Rank["relayed"] <= Rank["gateway"] /\ Rank["relayed"] <= 3 BY Ranks
          <5>3. Cover("gateway") \/ Pending BY <5>1
          <5>4. Cover("gateway") => Cover("relayed")
            BY <5>2, Marks, CoverAlike
          <5>5. Cover("relayed")' \/ Pending' BY <2>6, <2>8, <4>2, <5>3, <5>4
          <5> QED BY <3>2, <4>2, <5>2, <5>5 DEF Covered, Cover
        <4> QED BY <2>2, <3>2, <4>1, <4>2
      <3>3. CASE mark' # w
        <4>1. mark' = mark /\ w = "sent" /\ mark = "gateway"
          BY <2>1, <3>3 DEF SetAllowed
        <4>2. Cover(mark) \/ Pending BY <4>1 DEF Covered
        <4>3. Rank[mark'] <= 3 BY <4>1, Ranks
        <4>4. Cover(mark)' \/ Pending' BY <2>6, <2>8, <4>1, <4>2 DEF Cover
        <4> QED BY <4>1, <4>3, <4>4 DEF Covered, Cover
      <3> QED BY <3>1, <3>2, <3>3
    <2> QED BY <2>3, <2>9, <2>10, <2>11, <2>t
  <1>15. ASSUME NEW t \in Task, Take(t) PROVE MCore'
    <2>1. /\ painting[t] \in Mark
          /\ painting' = [painting EXCEPT ![t] = "none"]
          /\ mark' = mark /\ writing' = writing /\ receipt' = receipt
          /\ sending' = sending /\ waits' = waits /\ due' = due /\ gwMarked' = gwMarked
          /\ told' = told /\ last' = last
      BY <1>0, <1>15 DEF Take
    <2>2. /\ shown' \in Mark \cup {"none"} /\ crossed' \in BOOLEAN
          /\ telling' \in [Task -> Mark \cup {"none"}]
          /\ \A r \in Task : r # t => telling'[r] = telling[r]
      BY <1>0, <1>15, <2>1 DEF Take, TypeOK
    <2>3. \A r \in Task : r # t => painting'[r] = painting[r] BY <1>0, <2>1
    <2>4. painting'[t] = "none" /\ writing[t] = "none" /\ painting[t] # "none"
      BY <1>0, <2>1, Marks DEF Roles
    <2>5. TypeOK' BY <1>0, <2>1, <2>2 DEF TypeOK
    <2>6. \A k \in Mark : Cover(k) => Cover(k)' BY <1>15, TakeCovers
    <2>7. Pending' = Pending BY <2>1 DEF Pending
    <2>8. Roles' BY <2>1, <2>2, <2>3, <2>4, Tasks DEF Roles
    <2>9. Turns'
      <3>1. sending \notin {"no", "stored"} \/ t # "main" BY <2>4 DEF Turns, Idle
      <3>2. sending # "no" BY <2>4 DEF Turns, Idle
      <3> QED BY <2>1, <2>2, <2>3, <3>1, <3>2, Tasks DEF Turns, Idle
    <2>10. Covered'
      <3>1. mark # "none" => mark \in Mark BY <1>0
      <3>2. mark # "none" /\ Cover(mark) => Cover(mark)' BY <2>1, <2>6, <3>1 DEF Cover
      <3> QED BY <2>1, <2>7, <3>2 DEF Covered
    <2> QED BY <2>1, <2>5, <2>6, <2>7, <2>8, <2>9, <2>10, Marks
  <1>16. ASSUME NEW t \in Task, Tell(t) PROVE MCore'
    <2>1. /\ telling[t] # "none" /\ telling' = [telling EXCEPT ![t] = "none"]
          /\ UNCHANGED <<mark, writing, painting, shown, crossed, sending, receipt, waits, due, gwMarked>>
      BY <1>16 DEF Tell
    <2>2. \A r \in Task : telling'[r] \in {telling[r], "none"} BY <1>0, <2>1
    <2>3. TypeOK' BY <1>0, <1>16, <2>1 DEF TypeOK, Tell
    <2>4. Roles' BY <2>1, <2>2, Tasks DEF Roles
    <2>5. Turns' BY <2>1, <2>2, Tasks DEF Turns, Idle
    <2>6. (\A k : Cover(k)' <=> Cover(k)) /\ Pending' = Pending BY <2>1 DEF Cover, Pending
    <2>7. Covered' BY <2>1, <2>6 DEF Covered
    <2> QED BY <2>1, <2>3, <2>4, <2>5, <2>6, <2>7
  <1> QED BY Tasks, <1>1, <1>2, <1>4, <1>5, <1>6, <1>7, <1>8, <1>10, <1>12, <1>13, <1>14, <1>15, <1>16 DEF Next

\* What is taken is sent, and without a crossing in the order it was taken.
LEMMA SendsNext ==
  ASSUME MInv, Next
  PROVE  Sends'
  <1>0. /\ {shown, told, last} \subseteq Mark \cup {"none"}
        /\ painting \in [Task -> Mark \cup {"none"}]
        /\ telling \in [Task -> Mark \cup {"none"}]
        /\ Roles /\ Sends
    BY DEF MInv, MCore, TypeOK
  <1>1. ASSUME NEW t \in Task, Take(t) PROVE Sends'
    <2> DEFINE p == painting[t]
    <2>1. p \in Mark /\ p # "none" /\ telling[t] = "none" /\ told' = told /\ last' = last
      BY <1>0, <1>1, Marks DEF Take, Roles
    <2>2. CASE TakeMark(p)
      <3>1. /\ shown' = p /\ telling' = [telling EXCEPT ![t] = p]
            /\ crossed' = (crossed \/ \E r \in Task : telling[r] # "none")
        BY <1>1, <2>2 DEF Take
      <3>2. telling'[t] = p /\ \A r \in Task : r # t => telling'[r] = telling[r] BY <1>0, <3>1
      <3>3. Rank[p] >= Rank[p] BY <2>1, RankNat, SMT
      <3>4. \E r \in Task : telling'[r] # "none" /\ Rank[telling'[r]] >= Rank[shown']
        BY <2>1, <3>1, <3>2, <3>3
      <3>5. ~crossed' => \A r \in Task : telling[r] = "none" BY <3>1
      <3> QED BY <2>1, <3>1, <3>2, <3>4, <3>5 DEF Sends
    <2>3. CASE ~TakeMark(p)
      <3>1. UNCHANGED client BY <1>1, <2>1, <2>3 DEF Take, client
      <3> QED BY <1>0, <3>1, SendsStay
    <2> QED BY <2>2, <2>3
  <1>2. ASSUME NEW t \in Task, Tell(t) PROVE Sends'
    <2> DEFINE p == telling[t]
    <2>1. /\ p \in Mark /\ telling' = [telling EXCEPT ![t] = "none"]
          /\ last' = p /\ shown' = shown /\ crossed' = crossed
          /\ told' = IF told # "none" /\ Rank[told] >= Rank[p] THEN told ELSE p
      BY <1>0, <1>2 DEF Tell
    <2>2. telling'[t] = "none" /\ \A r \in Task : r # t => telling'[r] = telling[r] BY <1>0, <2>1
    <2>3. /\ told' \in Mark /\ Rank[told'] >= Rank[p]
          /\ told # "none" => Rank[told'] >= Rank[told]
      BY <1>0, <2>1, RankNat, SMT
    <2>4. shown # "none" =>
            \/ told' # "none" /\ Rank[told'] >= Rank[shown]
            \/ \E r \in Task : telling'[r] # "none" /\ Rank[telling'[r]] >= Rank[shown]
      <3> SUFFICES ASSUME shown # "none" PROVE
            \/ told' # "none" /\ Rank[told'] >= Rank[shown]
            \/ \E r \in Task : telling'[r] # "none" /\ Rank[telling'[r]] >= Rank[shown]
        OBVIOUS
      <3>1. told' # "none" /\ shown \in Mark BY <1>0, <2>3, Marks
      <3>2. CASE told # "none" /\ Rank[told] >= Rank[shown]
        <4>1. Rank[told'] >= Rank[shown] BY <1>0, <2>3, <3>1, <3>2, RankNat, SMT
        <4> QED BY <3>1, <4>1
      <3>3. ASSUME NEW r \in Task, telling[r] # "none", Rank[telling[r]] >= Rank[shown]
            PROVE  \/ Rank[told'] >= Rank[shown]
                   \/ telling'[r] # "none" /\ Rank[telling'[r]] >= Rank[shown]
        <4>1. CASE r = t BY <2>1, <2>3, <3>1, <3>3, <4>1, RankNat, SMT
        <4>2. CASE r # t BY <2>2, <3>3, <4>2
        <4> QED BY <4>1, <4>2
      <3> QED BY <1>0, <3>1, <3>2, <3>3 DEF Sends
    <2>5. ~crossed => shown = p /\ \A r \in Task : telling'[r] = "none"
      BY <1>0, <1>2, <2>2 DEF Sends, Tell
    <2> QED BY <2>1, <2>4, <2>5 DEF Sends
  <1>3. UNCHANGED client \/ \E t \in Task : Take(t) \/ Tell(t)
    BY DEF Next, Store, Dispatch, Sent, Hear, Receipt, ReceiptTaken, ReceiptShown, Spent, GiveUp, Fail, Reconnect, Write
  <1> QED BY <1>0, <1>1, <1>2, <1>3, SendsStay

LEMMA QuietCovered ==
  ASSUME MInv, Quiet
  PROVE  Cover(mark)
  <1>1. mark # "none" BY Marks DEF Quiet
  <1>2. ~Pending BY DEF Pending, Quiet, Idle
  <1>3. writing["main"] = "none" BY Tasks DEF Quiet, Idle
  <1> QED BY <1>1, <1>2, <1>3 DEF MInv, MCore, Covered, Quiet, MainFree

\* The invariant behind the two theorems below.
THEOREM MarkInvariant == Spec => []MInv
  <1>1. MInv /\ UNCHANGED vars => MInv'
    <2> SUFFICES ASSUME MInv, UNCHANGED vars PROVE MInv' OBVIOUS
    <2>1. due \in BOOLEAN /\ waits \in BOOLEAN BY DEF MInv, MCore, TypeOK
    <2>2. UNCHANGED client BY DEF vars
    <2> QED BY <2>1, <2>2, OnlyWaitsOrDue, SendsStay DEF vars, MInv
  <1>2. MInv /\ [Next]_vars => MInv' BY <1>1, MNext, SendsNext DEF MInv
  <1> QED BY <1>2, MInit, PTL DEF Spec

\* Once every task is done with a line, its client has been sent a mark at
\* least as far as the stored one, whatever the order in which the three tasks
\* wrote the mark, took it to show and sent it.
THEOREM KeepsUp == Spec => []ClientKeepsUp
  <1>1. MInv => ClientKeepsUp
    <2> SUFFICES ASSUME MInv, Quiet
                 PROVE  told # "none" /\ Rank[told] >= Rank[mark]
      BY DEF ClientKeepsUp
    <2>1. Cover(mark) BY QuietCovered
    <2>2. shown # "none" /\ Rank[shown] >= Rank[mark] BY <2>1 DEF Cover, Quiet, Idle
    <2>3. told # "none" /\ Rank[told] >= Rank[shown] BY <2>2 DEF MInv, Sends, Quiet, Idle
    <2>4. {told, shown, mark} \subseteq Mark BY <2>2, <2>3 DEF MInv, MCore, TypeOK, Quiet
    <2>5. Rank[told] >= Rank[mark] BY <2>2, <2>3, <2>4, RankNat, SMT
    <2> QED BY <2>3, <2>5
  <1> QED BY <1>1, MarkInvariant, PTL

\* If no two tasks had a mark to send at one time, the last mark the client
\* was sent is as far as the stored one: a late [tx] or [gw] is not the last
\* word over a receipt (take_mark).
THEOREM LastWord == Spec => []LastWordStands
  <1>1. MInv => LastWordStands
    <2> SUFFICES ASSUME MInv, Quiet, ~crossed
                 PROVE  last # "none" /\ Rank[last] >= Rank[mark]
      BY DEF LastWordStands
    <2>1. Cover(mark) BY QuietCovered
    <2>2. shown # "none" /\ Rank[shown] >= Rank[mark] BY <2>1 DEF Cover, Quiet, Idle
    <2>3. last = shown BY DEF MInv, Sends, Quiet, Idle
    <2> QED BY <2>2, <2>3
  <1> QED BY <1>1, MarkInvariant, PTL
=============================================================================
