-------------------------- MODULE RadioLeaseProofs --------------------------
(***************************************************************************)
(* Theorems about RadioLease, for any patience each task has and any       *)
(* number of modem calls that fail.                                        *)
(***************************************************************************)
EXTENDS RadioLease, TLAPS

LineAt == {"off", "sensing", "checked", "set", "drain"}
ReceiptAt == {"off", "mail", "testing", "set", "send", "drain", "restore", "resume"}
BurstAt == {"off", "ack", "line", "clear", "stable", "set", "send", "drain", "restore", "release"}

\* A receipt that paused the queue, a burst that waited for one, and for a line.
Pausing == receipt.at \in ReceiptAt \ {"off", "mail"}
PastReceipt == burst.at \in BurstAt \ {"off", "ack"}
PastLine == PastReceipt /\ burst.at # "line"

\* Who holds the queue, and that a burst in no hurry lets no line through.
QueueIsHeld ==
  /\ Pausing => paused
  /\ lease <=> burst.at # "off"
  /\ line.at \in {"sensing", "checked", "set"} => inFlight
  /\ inFlight => line.at # "off"
  /\ PastReceipt /\ Pausing => "ack" \in rushed
  /\ PastLine /\ inFlight => "line" \in rushed

\* How long a receipt has waited, until it goes to the modem.
Aged(r) == r.at \notin {"set", "send"} => r.age <= Largest + r.test
InTime == Aged(receipt)

\* Whose configuration the modem has.
ConfigIsOwned ==
  /\ burst.at \in {"send", "drain"} => config = "mail" \/ rushed # {}
  /\ config = "mail" => Bursting \/ stuck
  /\ config = "forced" =>
       (receipt.at \in {"send", "drain", "restore"} /\ receipt.forced) \/ stuck
  /\ receipt.at = "set" => receipt.forced

IInv == TypeOK /\ QueueIsHeld /\ InTime /\ ConfigIsOwned

-----------------------------------------------------------------------------
\* Times, and what a task's record keeps.
LEMMA Times == \A p \in Patience : p \in Nat /\ p >= 1
BY LeaseAssumption DEF LeaseAssumption

LEMMA LargestOfFour ==
  ASSUME NEW a \in Nat, NEW b \in Nat, NEW c \in Nat, NEW d \in Nat
  PROVE  \E m \in {a, b, c, d} : a <= m /\ b <= m /\ c <= m /\ d <= m
<1>1. PICK p \in {a, b} : a <= p /\ b <= p
  OBVIOUS
<1>2. PICK q \in {c, d} : c <= q /\ d <= q
  OBVIOUS
<1> QED BY <1>1, <1>2

LEMMA LargestIs == Largest \in Patience /\ \A q \in Patience : q <= Largest
<1>1. \E p \in Patience : \A q \in Patience : q <= p
  <2>0. \A p \in Patience : p \in Nat
    BY Times
  <2>1. PICK a \in {ListenMax, Cap, PeerMax, OwnMax} :
          ListenMax <= a /\ Cap <= a /\ PeerMax <= a /\ OwnMax <= a
    BY <2>0, LargestOfFour DEF Patience
  <2>2. PICK b \in {HandedMax, AckMailWait, AckDrain, AckDrainMax} :
          HandedMax <= b /\ AckMailWait <= b /\ AckDrain <= b /\ AckDrainMax <= b
    BY <2>0, LargestOfFour DEF Patience
  <2>3. PICK c \in {MaxDefer, ChatGrace, AckWait, AckWait} :
          MaxDefer <= c /\ ChatGrace <= c /\ AckWait <= c
    BY <2>0, LargestOfFour DEF Patience
  <2>4. PICK d \in {LeaseWait, ChatDrain, BurstDrain, BurstDrain} :
          LeaseWait <= d /\ ChatDrain <= d /\ BurstDrain <= d
    BY <2>0, LargestOfFour DEF Patience
  <2>5. a \in Patience /\ b \in Patience /\ c \in Patience /\ d \in Patience
    BY DEF Patience
  <2>6. PICK p \in {a, b, c, d} : a <= p /\ b <= p /\ c <= p /\ d <= p
    BY <2>0, <2>5, LargestOfFour
  <2>7. p \in Patience
    BY <2>5, <2>6
  <2>8. \A q \in Patience : q <= a \/ q <= b \/ q <= c \/ q <= d
    BY <2>1, <2>2, <2>3, <2>4 DEF Patience
  <2>9. \A q \in Patience : q <= p
    BY <2>0, <2>5, <2>6, <2>7, <2>8
  <2> QED BY <2>7, <2>9
<1> QED BY <1>1 DEF Largest

LEMMA Numbers ==
  /\ Largest \in Nat /\ Cap \in Nat /\ Cap >= 1 /\ HandedMax \in Nat /\ HandedMax >= 1
  /\ MaxFail \in Nat /\ ChatGrace \in Nat /\ ChatGrace >= 1 /\ MaxDefer \in Nat
  /\ \A p \in Patience : p \in 0..Largest
  /\ MaxDefer + ChatGrace \in 0..2 * Largest
<1>1. MaxDefer \in Patience /\ ChatGrace \in Patience /\ Cap \in Patience /\ HandedMax \in Patience
  BY DEF Patience
<1>2. Largest \in Nat /\ \A p \in Patience : p \in Nat /\ p >= 1 /\ p <= Largest
  BY Times, LargestIs
<1>3. MaxFail \in Nat
  BY LeaseAssumption DEF LeaseAssumption
<1> QED BY <1>1, <1>2, <1>3

LEMMA LineFields ==
  ASSUME NEW l \in LineStates PROVE l.at \in LineAt /\ l.left \in 0..Largest
BY DEF LineStates, LineAt

LEMMA LineAnew ==
  ASSUME NEW at \in LineAt, NEW n \in 0..Largest, NEW m, m = [at |-> at, left |-> n]
  PROVE  m \in LineStates /\ m.at = at /\ m.left = n
BY DEF LineStates, LineAt

LEMMA LineMoves ==
  ASSUME NEW l \in LineStates, NEW at \in LineAt, NEW m, m = [l EXCEPT !.at = at]
  PROVE  m \in LineStates /\ m.at = at /\ m.left = l.left
BY DEF LineStates, LineAt

LEMMA LineWaits ==
  ASSUME NEW l \in LineStates, l.left > 0, NEW m, m = [l EXCEPT !.left = @ - 1]
  PROVE  m \in LineStates /\ m.at = l.at /\ m.left = l.left - 1
BY Numbers DEF LineStates

LEMMA BurstFields ==
  ASSUME NEW b \in BurstStates PROVE b.at \in BurstAt /\ b.left \in 0..2 * Largest
BY DEF BurstStates, BurstAt

LEMMA BurstAnew ==
  ASSUME NEW at \in BurstAt, NEW n \in 0..2 * Largest, NEW m, m = [at |-> at, left |-> n]
  PROVE  m \in BurstStates /\ m.at = at /\ m.left = n
BY DEF BurstStates, BurstAt

LEMMA BurstWaits ==
  ASSUME NEW b \in BurstStates, b.left > 0, NEW m, m = [b EXCEPT !.left = @ - 1]
  PROVE  m \in BurstStates /\ m.at = b.at /\ m.left = b.left - 1
BY Numbers DEF BurstStates

LEMMA ReceiptFields ==
  ASSUME NEW r \in ReceiptStates
  PROVE  /\ r.at \in ReceiptAt /\ r.age \in 0..Largest + Cap /\ r.test \in 0..Cap
         /\ r.forced \in BOOLEAN /\ r.sync \in BOOLEAN /\ r.read \in BOOLEAN
BY DEF ReceiptStates, ReceiptAt

LEMMA ReceiptOff ==
  /\ OffReceipt \in ReceiptStates /\ OffReceipt.at = "off" /\ OffReceipt.age = 0
  /\ OffReceipt.test = 0
BY Numbers DEF ReceiptStates, OffReceipt

LEMMA ReceiptAnew ==
  ASSUME NEW sync \in BOOLEAN, NEW m,
         m = [at |-> "mail", age |-> 0, test |-> 0, forced |-> FALSE, sync |-> sync,
              read |-> FALSE]
  PROVE  m \in ReceiptStates /\ m.at = "mail" /\ m.age = 0 /\ m.test = 0
<1>1. 0 \in 0..Largest + Cap /\ 0 \in 0..Cap
  BY Numbers
<1>2. m \in ReceiptStates
  BY <1>1 DEF ReceiptStates
<1> QED BY <1>2

LEMMA ReceiptMoves ==
  ASSUME NEW r \in ReceiptStates, NEW at \in ReceiptAt, NEW m, m = [r EXCEPT !.at = at]
  PROVE  /\ m \in ReceiptStates /\ m.at = at /\ m.age = r.age /\ m.test = r.test
         /\ m.forced = r.forced
BY DEF ReceiptStates, ReceiptAt

LEMMA ReceiptTests ==
  ASSUME NEW r \in ReceiptStates, NEW m,
         m = [r EXCEPT !.at = "testing", !.age = 0] \/ m = [r EXCEPT !.at = "send", !.age = 0]
  PROVE  /\ m \in ReceiptStates /\ m.at \in {"testing", "send"} /\ m.age = 0
         /\ m.test = r.test /\ m.read = r.read
<1>1. 0 \in 0..Largest + Cap
  BY Numbers
<1> QED BY <1>1 DEF ReceiptStates

LEMMA ReceiptDrains ==
  ASSUME NEW r \in ReceiptStates, NEW m,
         m = [r EXCEPT !.at = "drain", !.age = 0, !.test = 0, !.read = FALSE]
  PROVE  /\ m \in ReceiptStates /\ m.at = "drain" /\ m.age = 0 /\ m.test = 0
         /\ m.forced = r.forced
<1>1. 0 \in 0..Largest + Cap /\ 0 \in 0..Cap
  BY Numbers
<1> QED BY <1>1 DEF ReceiptStates

\* A receipt that goes to the modem after a pass that read its status or not.
LEMMA ReceiptSends ==
  ASSUME NEW r \in ReceiptStates, NEW read \in BOOLEAN, NEW m,
         m = [r EXCEPT !.at = "send", !.test = 0, !.read = read]
  PROVE  m \in ReceiptStates /\ m.at = "send"
<1>1. 0 \in 0..Cap
  BY Numbers
<1> QED BY <1>1 DEF ReceiptStates

LEMMA ReceiptForces ==
  ASSUME NEW r \in ReceiptStates, NEW read \in BOOLEAN, NEW m,
         m = [r EXCEPT !.at = "set", !.forced = TRUE, !.test = 0, !.read = read]
  PROVE  m \in ReceiptStates /\ m.at = "set" /\ m.forced
<1>1. 0 \in 0..Cap
  BY Numbers
<1> QED BY <1>1 DEF ReceiptStates

LEMMA ReceiptUnread ==
  ASSUME NEW r \in ReceiptStates, NEW m,
         \/ m = [r EXCEPT !.at = "send", !.test = 0]
         \/ m = [r EXCEPT !.at = "set", !.forced = TRUE, !.test = 0]
  PROVE  /\ m \in ReceiptStates /\ m.at \in {"set", "send"} /\ m.read = r.read
         /\ m.at = "set" => m.forced
<1>1. 0 \in 0..Cap
  BY Numbers
<1> QED BY <1>1 DEF ReceiptStates

LEMMA ReceiptRetests ==
  ASSUME NEW r \in ReceiptStates, NEW t \in 0..Cap, NEW m, m = [r EXCEPT !.test = t]
  PROVE  m \in ReceiptStates /\ m.at = r.at /\ m.age = r.age /\ m.test = t /\ m.forced = r.forced
BY DEF ReceiptStates

-----------------------------------------------------------------------------
\* Calls to the modem.
LEMMA Failed ==
  ASSUME TypeOK, CallFails
  PROVE  fails' \in 0..MaxFail
BY Numbers DEF TypeOK, CallFails

LEMMA Handed ==
  ASSUME TypeOK, NEW k \in Kind, HandOver(k) \/ NotHanded
  PROVE  /\ handed' \in 0..HandedMax /\ keyedSince' \in BOOLEAN /\ inModem' \subseteq Kind
         /\ UNCHANGED <<config, ptt, stayed, stuck>> /\ fails' \in 0..MaxFail
<1>1. CASE HandOver(k)
  <2>1. handed' \in 0..HandedMax /\ keyedSince' = FALSE /\ inModem' \subseteq Kind
    BY <1>1, Numbers DEF HandOver, TypeOK
  <2>2. fails' = fails /\ fails \in 0..MaxFail /\ UNCHANGED <<config, ptt, stayed, stuck>>
    BY <1>1 DEF HandOver, TypeOK
  <2> QED BY <2>1, <2>2
<1>2. CASE NotHanded
  BY <1>2, Failed DEF NotHanded, TypeOK
<1> QED BY <1>1, <1>2

LEMMA NoteTyped ==
  ASSUME TypeOK, NotePtt
  PROVE  handed' \in 0..HandedMax /\ keyedSince' \in BOOLEAN
<1>1. handed' \in 0..HandedMax
  BY Numbers DEF TypeOK, NotePtt
<1>2. keyedSince' \in BOOLEAN
  BY DEF NotePtt
<1> QED BY <1>1, <1>2

LEMMA Restored ==
  ASSUME TypeOK, Restore
  PROVE  /\ fails' \in 0..MaxFail /\ stuck' \in BOOLEAN
         /\ (config' = "chat" \/ (stuck' = TRUE /\ config' = config))
<1>1. CASE config' = "chat" /\ stuck' = FALSE /\ UNCHANGED fails
  BY <1>1 DEF TypeOK
<1>2. CASE CallFails /\ stuck' = TRUE /\ UNCHANGED config
  BY <1>2, Failed
<1> QED BY <1>1, <1>2 DEF Restore

LEMMA Configured ==
  ASSUME TypeOK, NEW c, Configure(c)
  PROVE  config' \in {config, c} /\ fails' \in 0..MaxFail /\ stuck' = stuck
<1>1. CASE config' = c /\ UNCHANGED <<fails, stuck>>
  BY <1>1 DEF TypeOK
<1>2. CASE CallFails /\ UNCHANGED <<config, stuck>>
  BY <1>2, Failed
<1> QED BY <1>1, <1>2 DEF Configure

-----------------------------------------------------------------------------
LEMMA LineTask ==
  ASSUME IInv, PopReady \/ LineSensed \/ SetRung \/ HandLine \/ LineDrained
  PROVE  IInv'
<1>0. line \in LineStates /\ TypeOK
  BY DEF IInv, TypeOK
<1> USE DEF LineAt
<1>1. CASE PopReady
  <2>1. line' \in LineStates /\ line'.at = "sensing" /\ line'.left = MaxDefer
    BY <1>1, LineAnew, Numbers DEF PopReady, Patience
  <2>2. TypeOK'
    BY <1>1, <2>1 DEF PopReady, IInv, TypeOK, modemVars
  <2>3. QueueIsHeld'
    BY <1>1, <2>1 DEF PopReady, IInv, QueueIsHeld, Pausing, PastReceipt, PastLine
  <2>4. InTime'
    BY <1>1, <2>1, Numbers DEF PopReady, IInv, QueueIsHeld, InTime
  <2>5. ConfigIsOwned'
    BY <1>1 DEF PopReady, IInv, ConfigIsOwned, Bursting, modemVars
  <2> QED BY <2>2, <2>3, <2>4, <2>5 DEF IInv
<1>2. CASE LineSensed
  <2>1. line' \in LineStates /\ line'.at = IF cancelled THEN "off" ELSE "checked"
    <3>1. PICK at \in LineAt : /\ at = IF cancelled THEN "off" ELSE "checked"
                              /\ line' = [line EXCEPT !.at = at]
      BY <1>2 DEF LineSensed
    <3> QED BY <1>0, <3>1, LineMoves
  <2>2. cancelled \in BOOLEAN /\ inFlight' = ~cancelled /\ inFlight' \in BOOLEAN
    BY <1>0, <1>2 DEF LineSensed, TypeOK
  <2>3. inFlight /\ (line'.at \in {"sensing", "checked", "set"} => inFlight')
        /\ (inFlight' => line'.at # "off")
    <3>1. inFlight
      BY <1>2 DEF LineSensed, IInv, QueueIsHeld
    <3>2. CASE cancelled
      BY <2>1, <2>2, <3>1, <3>2
    <3>3. CASE ~cancelled
      BY <2>1, <2>2, <3>1, <3>3
    <3> QED BY <3>2, <3>3
  <2>4. TypeOK'
    BY <1>2, <2>1, <2>2 DEF LineSensed, IInv, TypeOK, modemVars
  <2>5. QueueIsHeld'
    BY <1>2, <2>1, <2>3 DEF LineSensed, IInv, QueueIsHeld, Pausing, PastReceipt, PastLine
  <2>6. InTime'
    BY <1>2 DEF LineSensed, IInv, InTime
  <2>7. ConfigIsOwned'
    BY <1>2 DEF LineSensed, IInv, ConfigIsOwned, Bursting, modemVars
  <2> QED BY <2>4, <2>5, <2>6, <2>7 DEF IInv
<1>3. CASE SetRung
  <2>1. line' \in LineStates /\ line'.at = "set"
    BY <1>0, <1>3, LineMoves DEF SetRung
  <2>2. config' \in {config, "chat"} /\ fails' \in 0..MaxFail /\ stuck' = stuck
    BY <1>0, <1>3, Configured DEF SetRung
  <2>3. TypeOK'
    BY <1>3, <2>1, <2>2 DEF SetRung, IInv, TypeOK, airVars
  <2>4. inFlight /\ inFlight' = inFlight /\ rushed' = rushed
    BY <1>3 DEF SetRung, IInv, QueueIsHeld, airVars
  <2>5. QueueIsHeld'
    BY <1>3, <2>1, <2>4 DEF SetRung, IInv, QueueIsHeld, Pausing, PastReceipt, PastLine, airVars
  <2>6. InTime'
    BY <1>3 DEF SetRung, IInv, InTime
  <2>7. Bursting => rushed # {}
    BY <2>4 DEF IInv, QueueIsHeld, PastLine, PastReceipt, Bursting, BurstAt
  <2>8. ConfigIsOwned'
    BY <1>3, <2>2, <2>4, <2>7 DEF SetRung, IInv, ConfigIsOwned, Bursting
  <2> QED BY <2>3, <2>5, <2>6, <2>8 DEF IInv
<1>4. CASE HandLine
  <2>1. line' \in LineStates /\ line'.at = "drain"
    BY <1>4, LineAnew, Numbers DEF HandLine, Patience
  <2>2. /\ handed' \in 0..HandedMax /\ keyedSince' \in BOOLEAN /\ inModem' \subseteq Kind
        /\ UNCHANGED <<config, ptt, stayed, stuck>> /\ fails' \in 0..MaxFail
    BY <1>0, <1>4, Handed DEF HandLine, Kind
  <2>3. inFlight' \in BOOLEAN /\ (inFlight' => inFlight)
    <3>1. inFlight \in BOOLEAN /\ inFlight' \in {FALSE, inFlight}
      BY <1>0, <1>4 DEF HandLine, TypeOK
    <3>2. CASE inFlight' = FALSE
      BY <3>2
    <3>3. CASE inFlight' = inFlight
      BY <3>1, <3>3
    <3> QED BY <3>1, <3>2, <3>3
  <2>4. TypeOK'
    BY <1>0, <1>4, <2>1, <2>2, <2>3 DEF HandLine, TypeOK
  <2>5. QueueIsHeld'
    BY <1>4, <2>1, <2>3 DEF HandLine, IInv, QueueIsHeld, Pausing, PastReceipt, PastLine
  <2>6. InTime'
    BY <1>4 DEF HandLine, IInv, InTime
  <2>7. ConfigIsOwned'
    BY <1>4, <2>2 DEF HandLine, IInv, ConfigIsOwned, Bursting
  <2> QED BY <2>4, <2>5, <2>6, <2>7 DEF IInv
<1>5. CASE LineDrained
  <2>1. line' \in LineStates /\ line'.at = "off"
    BY <1>0, <1>5, LineMoves DEF LineDrained
  <2>2. inFlight' = FALSE /\ cancelled' = FALSE
    BY <1>5 DEF LineDrained, AsksForNext
  <2>3. fails' \in 0..MaxFail
    BY <1>0, <1>5, Failed DEF LineDrained, TypeOK
  <2>4. TypeOK'
    BY <1>0, <1>5, <2>1, <2>2, <2>3 DEF LineDrained, TypeOK
  <2>5. QueueIsHeld'
    BY <1>5, <2>1, <2>2 DEF LineDrained, IInv, QueueIsHeld, Pausing, PastReceipt, PastLine
  <2>6. InTime'
    BY <1>5 DEF LineDrained, IInv, InTime
  <2>7. ConfigIsOwned'
    BY <1>5 DEF LineDrained, IInv, ConfigIsOwned, Bursting
  <2> QED BY <2>4, <2>5, <2>6, <2>7 DEF IInv
<1> QED BY <1>1, <1>2, <1>3, <1>4, <1>5

LEMMA ReceiptTask ==
  ASSUME IInv,
         \/ AckDue \/ AckReads \/ AckStarts \/ AckGivesUp \/ AckReady \/ AckUnread \/ ForceTest
         \/ HandReceipt \/ AckDrained \/ RestoreTest \/ Resume
  PROVE  IInv'
<1>0. /\ receipt \in ReceiptStates /\ TypeOK /\ Aged(receipt)
      /\ receipt.age \in Nat /\ receipt.test \in 0..Cap /\ Largest \in Nat
  <2>1. receipt \in ReceiptStates /\ TypeOK /\ Aged(receipt)
    BY DEF IInv, TypeOK, InTime
  <2> QED BY <2>1, ReceiptFields, Numbers
<1> USE DEF ReceiptAt, Aged
<1>1. CASE AckDue
  <2>1. receipt' \in ReceiptStates /\ receipt'.at = "mail"
        /\ Aged(receipt')
    <3>1. PICK sync \in BOOLEAN : receipt' =
            [at |-> "mail", age |-> 0, test |-> 0, forced |-> FALSE, sync |-> sync,
             read |-> FALSE]
      BY <1>1 DEF AckDue, OffReceipt
    <3>2. receipt' \in ReceiptStates /\ receipt'.at = "mail" /\ receipt'.age = 0
          /\ receipt'.test = 0
      BY <3>1, ReceiptAnew
    <3> QED BY <1>0, <3>2
  <2>2. TypeOK'
    BY <1>0, <1>1, <2>1 DEF AckDue, TypeOK, airVars, modemVars
  <2>3. QueueIsHeld'
    BY <1>1, <2>1 DEF AckDue, IInv, QueueIsHeld, Pausing, PastReceipt, PastLine, airVars
  <2>4. InTime'
    BY <1>1, <2>1 DEF AckDue, IInv, InTime, airVars
  <2>5. ConfigIsOwned'
    BY <1>1, <2>1 DEF AckDue, IInv, ConfigIsOwned, Bursting, modemVars
  <2> QED BY <2>2, <2>3, <2>4, <2>5 DEF IInv
<1>2. CASE AckReads
  <2>1. receipt' \in ReceiptStates /\ receipt'.at = "testing"
        /\ Aged(receipt')
        /\ receipt'.forced = receipt.forced
    BY <1>0, <1>2, ReceiptRetests, Numbers DEF AckReads, OwnHolds, Patience
  <2>6. handed' \in 0..HandedMax /\ keyedSince' \in BOOLEAN
    BY <1>0, <1>2, NoteTyped DEF AckReads
  <2>2. TypeOK'
    BY <1>0, <1>2, <2>1, <2>6 DEF AckReads, TypeOK, airVars, modemVars
  <2>3. QueueIsHeld'
    BY <1>2, <2>1, <2>6 DEF AckReads, IInv, QueueIsHeld, Pausing, PastReceipt, PastLine, airVars
  <2>4. InTime'
    BY <1>2, <2>1, <2>6 DEF AckReads, IInv, InTime, airVars
  <2>5. ConfigIsOwned'
    BY <1>2, <2>1, <2>6 DEF AckReads, IInv, ConfigIsOwned, Bursting, modemVars
  <2> QED BY <2>2, <2>3, <2>4, <2>5 DEF IInv
<1>3. CASE AckStarts
  <2>1. receipt' \in ReceiptStates /\ receipt'.at \in {"testing", "send"} /\ Aged(receipt')
    <3>1. \/ receipt' = [receipt EXCEPT !.at = "testing", !.age = 0]
          \/ receipt' = [receipt EXCEPT !.at = "send", !.age = 0]
      BY <1>3 DEF AckStarts
    <3>2. /\ receipt' \in ReceiptStates /\ receipt'.at \in {"testing", "send"}
          /\ receipt'.age = 0 /\ receipt'.test = receipt.test
      BY <1>0, <3>1, ReceiptTests
    <3>3. 0 <= Largest + receipt.test
      BY <1>0, Numbers
    <3> QED BY <3>2, <3>3
  <2>2. TypeOK'
    BY <1>0, <1>3, <2>1 DEF AckStarts, TypeOK, airVars, modemVars, PauseForAck
  <2>3. QueueIsHeld'
    BY <1>3, <2>1 DEF AckStarts, IInv, QueueIsHeld, Pausing, PastReceipt, PastLine, airVars,
       PauseForAck
  <2>4. InTime'
    BY <1>3, <2>1 DEF AckStarts, IInv, InTime, airVars, PauseForAck
  <2>5. ConfigIsOwned'
    BY <1>3, <2>1 DEF AckStarts, IInv, ConfigIsOwned, Bursting, modemVars, PauseForAck
  <2> QED BY <2>2, <2>3, <2>4, <2>5 DEF IInv
<1>4. CASE AckGivesUp
  <2>1. receipt' \in ReceiptStates /\ receipt'.at = "off" /\ Aged(receipt')
    BY <1>0, <1>4, ReceiptOff DEF AckGivesUp
  <2>2. TypeOK'
    BY <1>0, <1>4, <2>1 DEF AckGivesUp, TypeOK, airVars, modemVars
  <2>3. QueueIsHeld'
    BY <1>4, <2>1 DEF AckGivesUp, IInv, QueueIsHeld, Pausing, PastReceipt, PastLine, airVars
  <2>4. InTime'
    BY <1>4, <2>1 DEF AckGivesUp, IInv, InTime, airVars
  <2>5. ConfigIsOwned'
    BY <1>4, <2>1 DEF AckGivesUp, IInv, ConfigIsOwned, Bursting, modemVars
  <2> QED BY <2>2, <2>3, <2>4, <2>5 DEF IInv
<1>5. CASE AckReady
  <2>1. receipt' \in ReceiptStates /\ Aged(receipt')
        /\ (receipt'.at = "send" \/ (receipt'.at = "set" /\ receipt'.forced))
    <3>1. CASE receipt' = [receipt EXCEPT !.at = "send", !.test = 0, !.read = TRUE]
      BY <1>0, <3>1, ReceiptSends
    <3>2. CASE receipt' = [receipt EXCEPT !.at = "set", !.forced = TRUE, !.test = 0, !.read = Sync]
      <4>1. Sync \in BOOLEAN
        BY <1>0, ReceiptFields DEF Sync
      <4> QED BY <1>0, <3>2, <4>1, ReceiptForces
    <3> QED BY <1>5, <3>1, <3>2 DEF AckReady
  <2>6. handed' \in 0..HandedMax /\ keyedSince' \in BOOLEAN /\ receipt.at = "testing"
    BY <1>0, <1>5, NoteTyped DEF AckReady
  <2>2. TypeOK'
    BY <1>0, <1>5, <2>1, <2>6 DEF AckReady, TypeOK, airVars, modemVars
  <2>3. QueueIsHeld'
    BY <1>5, <2>1, <2>6 DEF AckReady, IInv, QueueIsHeld, Pausing, PastReceipt, PastLine, airVars
  <2>4. InTime'
    BY <1>5, <2>1, <2>6 DEF AckReady, IInv, InTime, airVars
  <2>5. ConfigIsOwned'
    BY <1>5, <2>1, <2>6 DEF AckReady, IInv, ConfigIsOwned, Bursting, modemVars
  <2> QED BY <2>2, <2>3, <2>4, <2>5 DEF IInv
<1>11. CASE AckUnread
  <2>1. receipt' \in ReceiptStates /\ receipt'.at \in {"set", "send"} /\ Aged(receipt')
        /\ (receipt'.at = "set" => receipt'.forced) /\ receipt.at = "testing"
    BY <1>0, <1>11, ReceiptUnread DEF AckUnread
  <2>6. fails' \in 0..MaxFail
    BY <1>0, <1>11, Failed DEF AckUnread
  <2>2. TypeOK'
    BY <1>0, <1>11, <2>1, <2>6 DEF AckUnread, TypeOK, airVars
  <2>3. QueueIsHeld'
    BY <1>11, <2>1 DEF AckUnread, IInv, QueueIsHeld, Pausing, PastReceipt, PastLine, airVars
  <2>4. InTime'
    BY <2>1 DEF InTime
  <2>5. ConfigIsOwned'
    BY <1>11, <2>1 DEF AckUnread, IInv, ConfigIsOwned, Bursting
  <2> QED BY <2>2, <2>3, <2>4, <2>5 DEF IInv
<1>6. CASE ForceTest
  <2>1. receipt' \in ReceiptStates /\ Aged(receipt')
        /\ receipt'.at = "send" /\ receipt'.forced = receipt.forced
    BY <1>0, <1>6, ReceiptMoves DEF ForceTest, Receipt
  <2>6. config' \in {config, "forced"} /\ fails' \in 0..MaxFail /\ stuck' = stuck
    BY <1>0, <1>6, Configured DEF ForceTest
  <2>7. receipt.at = "set" /\ receipt.forced /\ (PastReceipt => "ack" \in rushed)
    BY <1>6 DEF ForceTest, IInv, ConfigIsOwned, QueueIsHeld, Pausing
  <2>2. TypeOK'
    BY <1>0, <1>6, <2>1, <2>6, <2>7 DEF ForceTest, TypeOK, airVars, modemVars, PastReceipt, BurstAt
  <2>3. QueueIsHeld'
    BY <1>6, <2>1, <2>6, <2>7 DEF ForceTest, IInv, QueueIsHeld, Pausing, PastReceipt, PastLine,
       airVars, PastReceipt, BurstAt
  <2>4. InTime'
    BY <1>6, <2>1, <2>6, <2>7 DEF ForceTest, IInv, InTime, airVars, PastReceipt,
       BurstAt
  <2>5. ConfigIsOwned'
    BY <1>6, <2>1, <2>6, <2>7 DEF ForceTest, IInv, ConfigIsOwned, Bursting, modemVars,
       PastReceipt, BurstAt
  <2> QED BY <2>2, <2>3, <2>4, <2>5 DEF IInv
<1>7. CASE HandReceipt
  <2>1. receipt' \in ReceiptStates /\ Aged(receipt')
        /\ receipt'.at = "drain" /\ receipt'.forced = receipt.forced
    <3>1. receipt' = [receipt EXCEPT !.at = "drain", !.age = 0, !.test = 0, !.read = FALSE]
      BY <1>7 DEF HandReceipt
    <3>2. /\ receipt' \in ReceiptStates /\ receipt'.at = "drain" /\ receipt'.age = 0
          /\ receipt'.test = 0 /\ receipt'.forced = receipt.forced
      BY <1>0, <3>1, ReceiptDrains
    <3>3. 0 <= Largest + 0
      BY <1>0
    <3> QED BY <3>2, <3>3
  <2>6. /\ handed' \in 0..HandedMax /\ keyedSince' \in BOOLEAN /\ inModem' \subseteq Kind
        /\ UNCHANGED <<config, ptt, stayed, stuck>> /\ fails' \in 0..MaxFail
    BY <1>0, <1>7, Handed DEF HandReceipt, Kind
  <2>2. TypeOK'
    BY <1>0, <1>7, <2>1, <2>6 DEF HandReceipt, TypeOK, airVars, modemVars
  <2>3. QueueIsHeld'
    BY <1>7, <2>1, <2>6 DEF HandReceipt, IInv, QueueIsHeld, Pausing, PastReceipt, PastLine, airVars
  <2>4. InTime'
    BY <1>7, <2>1, <2>6 DEF HandReceipt, IInv, InTime, airVars
  <2>5. ConfigIsOwned'
    BY <1>7, <2>1, <2>6 DEF HandReceipt, IInv, ConfigIsOwned, Bursting, modemVars
  <2> QED BY <2>2, <2>3, <2>4, <2>5 DEF IInv
<1>8. CASE AckDrained
  <2>6. /\ handed' \in 0..HandedMax /\ keyedSince' \in BOOLEAN /\ receipt.at = "drain"
        /\ fails' \in 0..MaxFail
    <3>1. CASE NotePtt /\ UNCHANGED fails
      BY <1>0, <1>8, <3>1, NoteTyped DEF AckDrained, TypeOK
    <3>2. CASE CallFails /\ UNCHANGED <<handed, keyedSince>>
      BY <1>0, <1>8, <3>2, Failed DEF AckDrained, TypeOK
    <3> QED BY <1>8, <3>1, <3>2 DEF AckDrained
  <2>7. PICK at \in ReceiptAt : /\ at = IF receipt.forced THEN "restore" ELSE "resume"
                               /\ receipt' = [receipt EXCEPT !.at = at]
    BY <1>8 DEF AckDrained, Receipt
  <2>1. receipt' \in ReceiptStates /\ Aged(receipt')
        /\ receipt'.forced = receipt.forced
        /\ receipt'.at = IF receipt.forced THEN "restore" ELSE "resume"
    <3>1. /\ receipt' \in ReceiptStates /\ receipt'.at = at /\ receipt'.forced = receipt.forced
          /\ receipt'.age = receipt.age /\ receipt'.test = receipt.test
      BY <1>0, <2>7, ReceiptMoves
    <3>2. Aged(receipt')
      BY <1>0, <2>6, <3>1
    <3> QED BY <2>7, <3>1, <3>2
  <2>2. TypeOK'
    BY <1>0, <1>8, <2>1, <2>6 DEF AckDrained, TypeOK, airVars, modemVars
  <2>3. QueueIsHeld'
    BY <1>8, <2>1, <2>6 DEF AckDrained, IInv, QueueIsHeld, Pausing, PastReceipt, PastLine, airVars
  <2>4. InTime'
    BY <1>8, <2>1, <2>6 DEF AckDrained, IInv, InTime, airVars
  <2>5. ConfigIsOwned'
    BY <1>8, <2>1, <2>6 DEF AckDrained, IInv, ConfigIsOwned, Bursting, modemVars
  <2> QED BY <2>2, <2>3, <2>4, <2>5 DEF IInv
<1>9. CASE RestoreTest
  <2>1. receipt' \in ReceiptStates /\ Aged(receipt')
        /\ receipt'.at = "resume" /\ receipt'.forced = receipt.forced
    BY <1>0, <1>9, ReceiptMoves DEF RestoreTest, Receipt
  <2>6. /\ fails' \in 0..MaxFail /\ stuck' \in BOOLEAN
        /\ (config' = "chat" \/ (stuck' = TRUE /\ config' = config))
    BY <1>0, <1>9, Restored DEF RestoreTest
  <2>7. PastReceipt => "ack" \in rushed
    BY <1>9 DEF RestoreTest, IInv, QueueIsHeld, Pausing
  <2>2. TypeOK'
    BY <1>0, <1>9, <2>1, <2>6, <2>7 DEF RestoreTest, TypeOK, airVars, modemVars, PastReceipt,
       BurstAt
  <2>3. QueueIsHeld'
    BY <1>9, <2>1, <2>6, <2>7 DEF RestoreTest, IInv, QueueIsHeld, Pausing, PastReceipt, PastLine,
       airVars, PastReceipt, BurstAt
  <2>4. InTime'
    BY <1>9, <2>1, <2>6, <2>7 DEF RestoreTest, IInv, InTime, airVars, PastReceipt,
       BurstAt
  <2>5. ConfigIsOwned'
    BY <1>9, <2>1, <2>6, <2>7 DEF RestoreTest, IInv, ConfigIsOwned, Bursting, modemVars,
       PastReceipt, BurstAt
  <2> QED BY <2>2, <2>3, <2>4, <2>5 DEF IInv
<1>10. CASE Resume
  <2>1. receipt' \in ReceiptStates /\ Aged(receipt') /\ receipt'.at = "off"
    BY <1>0, <1>10, ReceiptOff DEF Resume
  <2>2. TypeOK'
    BY <1>0, <1>10, <2>1 DEF Resume, TypeOK, airVars, modemVars, Unpause
  <2>3. QueueIsHeld'
    BY <1>10, <2>1 DEF Resume, IInv, QueueIsHeld, Pausing, PastReceipt, PastLine, airVars, Unpause
  <2>4. InTime'
    BY <1>10, <2>1 DEF Resume, IInv, InTime, airVars, Unpause
  <2>5. ConfigIsOwned'
    BY <1>10, <2>1 DEF Resume, IInv, ConfigIsOwned, Bursting, modemVars, Unpause
  <2> QED BY <2>2, <2>3, <2>4, <2>5 DEF IInv
<1> QED BY <1>1, <1>2, <1>3, <1>4, <1>5, <1>6, <1>7, <1>8, <1>9, <1>10, <1>11

LEMMA BurstTask ==
  ASSUME IInv, BurstStarts \/ BurstStep
  PROVE  IInv'
<1>0. /\ TypeOK /\ line.left \in Nat /\ burst.left \in Nat /\ 0 \in 0..2 * Largest
      /\ line.at \in LineAt /\ burst.at \in BurstAt
  <2>1. TypeOK /\ line \in LineStates /\ burst \in BurstStates
    BY DEF IInv, TypeOK
  <2> QED BY <2>1, LineFields, BurstFields, Numbers
<1>11. \A p \in Patience : p \in 0..2 * Largest
  BY Numbers
<1> USE DEF BurstAt
<1>1. CASE BurstStarts
  <2>1. burst' \in BurstStates /\ burst'.at = "ack" /\ burst'.left = AckWait
    BY <1>1, BurstAnew, <1>11 DEF BurstStarts, Burst, Patience
  <2>2. TypeOK'
    BY <1>0, <1>1, <2>1 DEF BurstStarts, BurstGoes, TypeOK, airVars, modemVars, HoldForMail
  <2>3. QueueIsHeld'
    BY <1>1, <2>1 DEF BurstStarts, BurstGoes, IInv, QueueIsHeld, Pausing, PastReceipt, PastLine,
       airVars, HoldForMail, BurstAt
  <2>4. InTime'
    BY <1>0, <1>1, <2>1, Numbers DEF BurstStarts, BurstGoes, IInv, InTime, airVars
  <2>5. ConfigIsOwned'
    BY <1>1, <2>1 DEF BurstStarts, BurstGoes, IInv, ConfigIsOwned, Bursting, modemVars
  <2> QED BY <2>2, <2>3, <2>4, <2>5 DEF IInv
<1>2. CASE AckWaited
  <2>1. burst' \in BurstStates /\ burst'.at = "line" /\ burst'.left = MaxDefer + ChatGrace
    BY <1>2, BurstAnew, Numbers DEF AckWaited, Burst, WaitOver
  <2>6. rushed' \subseteq rushed \cup {"ack"} /\ (paused => "ack" \in rushed')
        /\ rushed \subseteq rushed'
    BY <1>2 DEF AckWaited, WaitOver
  <2>2. TypeOK'
    BY <1>0, <1>2, <2>1, <2>6 DEF AckWaited, BurstGoes, TypeOK, airVars, modemVars, WaitOver
  <2>3. QueueIsHeld'
    BY <1>2, <2>1, <2>6 DEF AckWaited, BurstGoes, IInv, QueueIsHeld, Pausing, PastReceipt,
       PastLine, airVars, WaitOver
  <2>4. InTime'
    BY <1>0, <1>2, <2>1, <2>6, Numbers DEF AckWaited, BurstGoes, IInv, InTime,
       airVars, WaitOver
  <2>5. ConfigIsOwned'
    BY <1>2, <2>1, <2>6 DEF AckWaited, BurstGoes, IInv, ConfigIsOwned, Bursting, modemVars, WaitOver
  <2> QED BY <2>2, <2>3, <2>4, <2>5 DEF IInv
<1>3. CASE LineWaited
  <2>1. burst' \in BurstStates /\ burst'.at = "clear" /\ burst'.left = LeaseWait
    BY <1>3, BurstAnew, <1>11 DEF LineWaited, Burst, WaitOver, Patience
  <2>6. rushed' \subseteq rushed \cup {"line"} /\ (inFlight => "line" \in rushed')
        /\ rushed \subseteq rushed'
    BY <1>3 DEF LineWaited, WaitOver, ChatInFlight
  <2>2. TypeOK'
    BY <1>0, <1>3, <2>1, <2>6 DEF LineWaited, BurstGoes, TypeOK, airVars, modemVars, WaitOver
  <2>3. QueueIsHeld'
    BY <1>3, <2>1, <2>6 DEF LineWaited, BurstGoes, IInv, QueueIsHeld, Pausing, PastReceipt,
       PastLine, airVars, WaitOver
  <2>4. InTime'
    BY <1>0, <1>3, <2>1, <2>6, Numbers DEF LineWaited, BurstGoes, IInv, InTime,
       airVars, WaitOver
  <2>5. ConfigIsOwned'
    BY <1>3, <2>1, <2>6 DEF LineWaited, BurstGoes, IInv, ConfigIsOwned, Bursting, modemVars,
       WaitOver
  <2> QED BY <2>2, <2>3, <2>4, <2>5 DEF IInv
<1>4. CASE TxStable
  <2>1. burst' \in BurstStates /\ burst'.at = "set" /\ burst'.left = 0
    BY <1>4, BurstAnew, <1>0 DEF TxStable, Burst
  <2>2. TypeOK'
    BY <1>0, <1>4, <2>1 DEF TxStable, BurstGoes, TypeOK, airVars, modemVars
  <2>3. QueueIsHeld'
    BY <1>4, <2>1 DEF TxStable, BurstGoes, IInv, QueueIsHeld, Pausing, PastReceipt, PastLine,
       airVars
  <2>4. InTime'
    BY <1>4 DEF TxStable, BurstGoes, IInv, InTime
  <2>5. ConfigIsOwned'
    BY <1>4, <2>1 DEF TxStable, BurstGoes, IInv, ConfigIsOwned, Bursting, modemVars
  <2> QED BY <2>2, <2>3, <2>4, <2>5 DEF IInv
<1>5. CASE ChannelClear
  <2>1. burst' \in BurstStates /\ burst'.at \in {"stable", "release"}
    BY <1>0, <1>11, <1>5, BurstAnew DEF ChannelClear, Burst, EndsLease, Patience
  <2>2. TypeOK'
    BY <1>0, <1>5, <2>1 DEF ChannelClear, BurstGoes, TypeOK, airVars, modemVars
  <2>3. QueueIsHeld'
    BY <1>5, <2>1 DEF ChannelClear, BurstGoes, IInv, QueueIsHeld, Pausing, PastReceipt, PastLine,
       airVars
  <2>4. InTime'
    BY <1>0, <1>5, <2>1, Numbers DEF ChannelClear, BurstGoes, IInv, InTime, airVars
  <2>5. ConfigIsOwned'
    BY <1>5, <2>1 DEF ChannelClear, BurstGoes, IInv, ConfigIsOwned, Bursting, modemVars
  <2> QED BY <2>2, <2>3, <2>4, <2>5 DEF IInv
<1>6. CASE SetMail
  <2>1. burst' \in BurstStates /\ burst'.at \in {"release", "send", "restore"}
    BY <1>0, <1>6, BurstAnew DEF SetMail, Burst
  <2>6. /\ fails' \in 0..MaxFail /\ stuck' = stuck /\ config' \in {config, "mail"}
        /\ burst'.at = "send" => config' = "mail"
        /\ config' # config => burst'.at = "send"
    <3>1. CASE Burst("release", 0) /\ UNCHANGED <<config, fails, stuck>>
      BY <1>0, <3>1 DEF Burst, TypeOK
    <3>2. CASE config' = "mail" /\ Burst("send", 0) /\ UNCHANGED <<fails, stuck>>
      BY <1>0, <3>2 DEF Burst, TypeOK
    <3>3. CASE CallFails /\ Burst("restore", 0) /\ UNCHANGED <<config, stuck>>
      BY <1>0, <3>3, Failed DEF Burst
    <3> QED BY <1>6, <3>1, <3>2, <3>3 DEF SetMail
  <2>2. TypeOK'
    BY <1>0, <1>6, <2>1, <2>6 DEF SetMail, BurstGoes, TypeOK, airVars, modemVars
  <2>3. QueueIsHeld'
    BY <1>6, <2>1, <2>6 DEF SetMail, BurstGoes, IInv, QueueIsHeld, Pausing, PastReceipt,
       PastLine, airVars
  <2>4. InTime'
    BY <1>0, <1>6, <2>1, <2>6, Numbers DEF SetMail, BurstGoes, IInv, InTime, airVars
  <2>5. ConfigIsOwned'
    BY <1>6, <2>1, <2>6 DEF SetMail, BurstGoes, IInv, ConfigIsOwned, Bursting, modemVars
  <2> QED BY <2>2, <2>3, <2>4, <2>5 DEF IInv
<1>7. CASE SendMail
  <2>1. burst' \in BurstStates /\ burst'.at \in {"drain", "restore"}
    BY <1>0, <1>11, <1>7, BurstAnew DEF SendMail, Burst, AfterFailure, Patience
  <2>6. /\ fails' \in 0..MaxFail /\ UNCHANGED <<config, ptt, stayed, stuck>>
        /\ handed' \in 0..HandedMax /\ keyedSince' \in BOOLEAN /\ inModem' \subseteq Kind
    BY <1>0, <1>7, Handed DEF SendMail, Kind
  <2>2. TypeOK'
    BY <1>0, <1>7, <2>1, <2>6 DEF SendMail, BurstGoes, TypeOK, airVars, modemVars
  <2>3. QueueIsHeld'
    BY <1>7, <2>1, <2>6 DEF SendMail, BurstGoes, IInv, QueueIsHeld, Pausing, PastReceipt,
       PastLine, airVars
  <2>4. InTime'
    BY <1>0, <1>7, <2>1, <2>6, Numbers DEF SendMail, BurstGoes, IInv, InTime, airVars
  <2>5. ConfigIsOwned'
    BY <1>7, <2>1, <2>6 DEF SendMail, BurstGoes, IInv, ConfigIsOwned, Bursting, modemVars
  <2> QED BY <2>2, <2>3, <2>4, <2>5 DEF IInv
<1>8. CASE BurstDrained
  <2>1. burst' \in BurstStates /\ burst'.at = "restore" /\ burst'.left = 0
    BY <1>8, BurstAnew, <1>0 DEF BurstDrained, Burst
  <2>2. TypeOK'
    BY <1>0, <1>8, <2>1 DEF BurstDrained, BurstGoes, TypeOK, airVars, modemVars
  <2>3. QueueIsHeld'
    BY <1>8, <2>1 DEF BurstDrained, BurstGoes, IInv, QueueIsHeld, Pausing, PastReceipt, PastLine,
       airVars
  <2>4. InTime'
    BY <1>0, <1>8, <2>1, Numbers DEF BurstDrained, BurstGoes, IInv, InTime, airVars
  <2>5. ConfigIsOwned'
    BY <1>8, <2>1 DEF BurstDrained, BurstGoes, IInv, ConfigIsOwned, Bursting, modemVars
  <2> QED BY <2>2, <2>3, <2>4, <2>5 DEF IInv
<1>9. CASE RestoreChat
  <2>1. burst' \in BurstStates /\ burst'.at = "release" /\ burst'.left = 0
    BY <1>9, BurstAnew, <1>0 DEF RestoreChat, Burst
  <2>6. /\ fails' \in 0..MaxFail /\ stuck' \in BOOLEAN
        /\ (config' = "chat" \/ (stuck' = TRUE /\ config' = config))
    BY <1>0, <1>9, Restored DEF RestoreChat
  <2>2. TypeOK'
    BY <1>0, <1>9, <2>1, <2>6 DEF RestoreChat, BurstGoes, TypeOK, airVars, modemVars
  <2>3. QueueIsHeld'
    BY <1>9, <2>1, <2>6 DEF RestoreChat, BurstGoes, IInv, QueueIsHeld, Pausing, PastReceipt,
       PastLine, airVars
  <2>4. InTime'
    BY <1>0, <1>9, <2>1, <2>6, Numbers DEF RestoreChat, BurstGoes, IInv, InTime,
       airVars
  <2>5. ConfigIsOwned'
    BY <1>9, <2>1, <2>6 DEF RestoreChat, BurstGoes, IInv, ConfigIsOwned, Bursting, modemVars
  <2> QED BY <2>2, <2>3, <2>4, <2>5 DEF IInv
<1>10. CASE ReleaseMail
  <2>1. burst' \in BurstStates /\ burst'.at = "off" /\ burst'.left = 0
    BY <1>10, BurstAnew, <1>0 DEF ReleaseMail, OffBurst
  <2>2. TypeOK'
    BY <1>0, <1>10, <2>1 DEF ReleaseMail, BurstGoes, TypeOK, airVars, modemVars
  <2>3. QueueIsHeld'
    BY <1>10, <2>1 DEF ReleaseMail, BurstGoes, IInv, QueueIsHeld, Pausing, PastReceipt, PastLine,
       airVars
  <2>4. InTime'
    BY <1>0, <1>10, <2>1, Numbers DEF ReleaseMail, BurstGoes, IInv, InTime, airVars
  <2>5. ConfigIsOwned'
    BY <1>10, <2>1 DEF ReleaseMail, BurstGoes, IInv, ConfigIsOwned, Bursting, modemVars
  <2> QED BY <2>2, <2>3, <2>4, <2>5 DEF IInv
<1> QED BY <1>1, <1>2, <1>3, <1>4, <1>5, <1>6, <1>7, <1>8, <1>9, <1>10 DEF BurstStep

LEMMA Modem ==
  ASSUME IInv, CancelLine \/ Keys \/ LetsGo
  PROVE  IInv'
<1>1. /\ UNCHANGED <<paused, lease, inFlight, handed, keyedSince, line, receipt, burst, rushed,
                     config, fails, stuck>>
      /\ cancelled' \in BOOLEAN /\ ptt' \in BOOLEAN /\ inModem' \subseteq inModem
      /\ stayed' \in 0..HandedMax
  <2>0. 0 \in 0..HandedMax /\ TypeOK
    BY Numbers DEF IInv
  <2>1. CASE CancelLine
    BY <2>0, <2>1 DEF CancelLine, TypeOK, modemVars
  <2>2. CASE Keys
    BY <2>0, <2>2 DEF Keys, TypeOK, airVars
  <2>3. CASE LetsGo
    BY <2>0, <2>3 DEF LetsGo, TypeOK, airVars
  <2> QED BY <2>1, <2>2, <2>3
<1>2. TypeOK'
  BY <1>1 DEF IInv, TypeOK
<1>3. QueueIsHeld'
  BY <1>1 DEF IInv, QueueIsHeld, Pausing, PastReceipt, PastLine
<1>4. InTime'
  BY <1>1 DEF IInv, InTime
<1>5. ConfigIsOwned'
  BY <1>1 DEF IInv, ConfigIsOwned, Bursting
<1> QED BY <1>2, <1>3, <1>4, <1>5 DEF IInv

-----------------------------------------------------------------------------
\* A unit of time leaves each task where it is.
LEMMA LineTicks ==
  ASSUME line \in LineStates, LinePasses
  PROVE  line' \in LineStates /\ line'.at = line.at
<1>0. line.left \in Nat
  BY LineFields, Numbers
<1>1. CASE UNCHANGED line
  BY <1>1
<1>2. CASE line.left > 0 /\ line' = [line EXCEPT !.left = @ - 1]
  BY <1>2, LineWaits
<1> QED BY <1>1, <1>2 DEF LinePasses

LEMMA BurstTicks ==
  ASSUME burst \in BurstStates, BurstPasses
  PROVE  burst' \in BurstStates /\ burst'.at = burst.at
<1>1. CASE burst.at = "off" /\ UNCHANGED burst
  BY <1>1
<1>2. CASE /\ burst.at \in {"ack", "line", "clear", "stable", "drain"} /\ burst.left > 0
           /\ burst' = [burst EXCEPT !.left = @ - 1]
  BY <1>2, BurstWaits
<1> QED BY <1>1, <1>2 DEF BurstPasses

LEMMA ReceiptTicks ==
  ASSUME receipt \in ReceiptStates, Aged(receipt), ReceiptPasses \/ UnreadPasses
  PROVE  /\ receipt' \in ReceiptStates /\ receipt'.at = receipt.at
         /\ receipt'.forced = receipt.forced /\ receipt'.read = receipt.read /\ Aged(receipt')
<1>0. /\ receipt.age \in Nat /\ receipt.test \in 0..Cap /\ Largest \in Nat /\ Cap \in Nat
      /\ 0 \in 0..Cap
  BY ReceiptFields, Numbers
<1>1. CASE receipt.at = "off" /\ UNCHANGED receipt
  BY <1>1
<1>2. ASSUME NEW t \in 0..Cap, Older(t), receipt.age + 1 <= Largest + t
      PROVE  /\ receipt' \in ReceiptStates /\ receipt'.at = receipt.at
             /\ receipt'.forced = receipt.forced /\ receipt'.read = receipt.read /\ Aged(receipt')
  <2>1. receipt' = [receipt EXCEPT !.age = @ + 1, !.test = t]
    BY <1>2 DEF Older
  <2>2. /\ receipt' \in ReceiptStates /\ receipt'.at = receipt.at /\ receipt'.age = receipt.age + 1
        /\ receipt'.test = t /\ receipt'.forced = receipt.forced /\ receipt'.read = receipt.read
    <3>1. receipt.age + 1 \in 0..Largest + Cap
      BY <1>0, <1>2
    <3> QED BY <2>1, <3>1 DEF ReceiptStates
  <2> QED BY <1>2, <2>2 DEF Aged
<1>3. \A p \in Patience : p \in Nat /\ p <= Largest
  BY Numbers
<1>4. DrainLimit \in Patience
  BY DEF DrainLimit, Patience
<1>5. ASSUME NEW p \in Patience, receipt.age < p, Older(0)
      PROVE  /\ receipt' \in ReceiptStates /\ receipt'.at = receipt.at
             /\ receipt'.forced = receipt.forced /\ receipt'.read = receipt.read /\ Aged(receipt')
  <2>1. receipt.age + 1 <= Largest + 0
    BY <1>0, <1>3, <1>5
  <2> QED BY <1>0, <1>2, <1>5, <2>1
<1>6. CASE receipt.at = "mail" /\ lease /\ receipt.age < AckMailWait /\ Older(0)
  BY <1>5, <1>6 DEF Patience
<1>7. CASE receipt.at = "drain" /\ receipt.age < DrainLimit /\ Older(0)
  BY <1>4, <1>5, <1>7
<1>12. ASSUME receipt.at = "testing", ~CapElapsed, Sync, Older(receipt.test + 1)
       PROVE  /\ receipt' \in ReceiptStates /\ receipt'.at = receipt.at
              /\ receipt'.forced = receipt.forced /\ receipt'.read = receipt.read /\ Aged(receipt')
  <2>1. receipt.test + 1 \in 0..Cap /\ receipt.age + 1 <= Largest + (receipt.test + 1)
    BY <1>0, <1>12 DEF CapElapsed, Aged
  <2>2. PICK t \in 0..Cap : t = receipt.test + 1
    BY <2>1
  <2>3. Older(t) /\ receipt.age + 1 <= Largest + t
    BY <1>12, <2>1, <2>2
  <2> QED BY <1>2, <2>3
<1>8. CASE receipt.age < ListenMax /\ Older(0)
  BY <1>5, <1>8 DEF Patience
<1>9. CASE OwnHolds /\ OwnPends /\ Older(0)
  BY <1>5, <1>9 DEF Patience, OwnHolds
<1>10. CASE Sync /\ receipt.age < PeerMax /\ Older(0)
  BY <1>5, <1>10 DEF Patience
<1>11. CASE /\ receipt.at = "testing" /\ ~CapElapsed
            /\ Older(IF Sync THEN receipt.test + 1 ELSE 0)
  <2>1. CASE Sync
    BY <1>11, <1>12, <2>1
  <2>2. CASE ~Sync
    <3>1. receipt.age < Cap /\ Older(0)
      BY <1>0, <1>11, <2>2 DEF CapElapsed
    <3> QED BY <1>5, <3>1 DEF Patience
  <2> QED BY <2>1, <2>2
<1>13. CASE UnreadPasses
  BY <1>12, <1>13 DEF UnreadPasses
<1> QED BY <1>1, <1>6, <1>7, <1>8, <1>9, <1>10, <1>11, <1>13 DEF ReceiptPasses

LEMMA Ticks ==
  ASSUME IInv, Tick
  PROVE  IInv'
<1>0. /\ TypeOK /\ line \in LineStates /\ burst \in BurstStates /\ receipt \in ReceiptStates
      /\ Aged(receipt) /\ HandedMax \in Nat
  BY Numbers DEF IInv, TypeOK, InTime
<1>1. line' \in LineStates /\ line'.at = line.at
  BY <1>0, LineTicks DEF Tick
<1>2. burst' \in BurstStates /\ burst'.at = burst.at
  BY <1>0, BurstTicks DEF Tick
<1>3. /\ receipt' \in ReceiptStates /\ receipt'.at = receipt.at
      /\ receipt'.forced = receipt.forced /\ Aged(receipt')
  BY <1>0, ReceiptTicks DEF Tick
<1>4. handed' \in 0..HandedMax /\ stayed' \in 0..HandedMax
  <2>1. handed \in 0..HandedMax /\ stayed \in 0..HandedMax
    BY <1>0 DEF TypeOK
  <2>2. handed' \in 0..HandedMax
    BY <1>0, <2>1 DEF Tick, Less
  <2>3. CASE "line" \in inModem /\ stayed < HandedMax
    BY <1>0, <2>1, <2>2, <2>3 DEF Tick
  <2>4. CASE ~("line" \in inModem /\ stayed < HandedMax)
    BY <1>0, <2>1, <2>2, <2>4 DEF Tick
  <2> QED BY <2>3, <2>4
<1>5. keyedSince' \in BOOLEAN /\ fails' \in 0..MaxFail
  <2>1. fails' \in 0..MaxFail
    <3>1. CASE UNCHANGED fails
      BY <1>0, <3>1 DEF TypeOK
    <3>2. CASE UnreadPasses
      BY <1>0, <3>2, Failed DEF UnreadPasses
    <3> QED BY <3>1, <3>2 DEF Tick
  <2> QED BY <2>1 DEF Tick
<1>6. UNCHANGED <<paused, lease, inFlight, cancelled, rushed, config, inModem, ptt, stuck>>
  BY DEF Tick
<1>7. TypeOK'
  BY <1>0, <1>1, <1>2, <1>3, <1>4, <1>5, <1>6 DEF TypeOK
<1>8. QueueIsHeld'
  BY <1>1, <1>2, <1>3, <1>6 DEF IInv, QueueIsHeld, Pausing, PastReceipt, PastLine
<1>9. InTime'
  BY <1>3 DEF InTime
<1>10. ConfigIsOwned'
  BY <1>2, <1>3, <1>6 DEF IInv, ConfigIsOwned, Bursting
<1> QED BY <1>7, <1>8, <1>9, <1>10 DEF IInv

-----------------------------------------------------------------------------
LEMMA Inits ==
  ASSUME Init
  PROVE  IInv
<1>0. 0 \in 0..HandedMax /\ 0 \in 0..MaxFail /\ 0 \in 0..Largest /\ 0 \in 0..2 * Largest
      /\ Largest \in Nat
  BY Numbers
<1>1. line \in LineStates /\ line.at = "off"
  BY <1>0, LineAnew DEF Init, LineAt
<1>2. burst \in BurstStates /\ burst.at = "off"
  BY <1>0, BurstAnew DEF Init, OffBurst, BurstAt
<1>3. receipt \in ReceiptStates /\ receipt.at = "off" /\ receipt.age = 0 /\ receipt.test = 0
  BY ReceiptOff DEF Init
<1>4. TypeOK
  BY <1>0, <1>1, <1>2, <1>3 DEF Init, TypeOK
<1>5. QueueIsHeld
  BY <1>1, <1>2, <1>3 DEF Init, QueueIsHeld, Pausing, PastReceipt, PastLine
<1>6. InTime
  BY <1>0, <1>1, <1>2, <1>3 DEF Init, InTime, Aged
<1>7. ConfigIsOwned
  BY <1>1, <1>2, <1>3 DEF Init, ConfigIsOwned, Bursting
<1> QED BY <1>4, <1>5, <1>6, <1>7 DEF IInv

LEMMA Steps ==
  ASSUME IInv, [Next]_vars
  PROVE  IInv'
<1>1. CASE UNCHANGED vars
  <2>1. TypeOK'
    BY <1>1 DEF vars, airVars, modemVars, IInv, TypeOK
  <2>2. QueueIsHeld'
    BY <1>1 DEF vars, airVars, modemVars, IInv, QueueIsHeld, Pausing, PastReceipt, PastLine
  <2>3. InTime'
    BY <1>1 DEF vars, airVars, modemVars, IInv, InTime
  <2>4. ConfigIsOwned'
    BY <1>1 DEF vars, airVars, modemVars, IInv, ConfigIsOwned, Bursting
  <2> QED BY <2>1, <2>2, <2>3, <2>4 DEF IInv
<1>2. CASE PopReady \/ LineStep
  BY <1>2, LineTask DEF LineStep
<1>3. CASE AckDue \/ AckReads \/ ReceiptStep
  BY <1>3, ReceiptTask DEF ReceiptStep
<1>4. CASE BurstStarts \/ BurstStep
  BY <1>4, BurstTask
<1>5. CASE CancelLine \/ Keys \/ LetsGo
  BY <1>5, Modem
<1>6. CASE Tick
  BY <1>6, Ticks
<1> QED BY <1>1, <1>2, <1>3, <1>4, <1>5, <1>6 DEF Next

LEMMA Held == Spec => []IInv
<1>1. Init => IInv
  BY Inits
<1>2. IInv /\ [Next]_vars => IInv'
  BY Steps
<1> QED BY <1>1, <1>2, PTL DEF Spec

-----------------------------------------------------------------------------
\* Each task's place and the time it may still wait keep their types: no wait
\* runs below nothing (air.rs, mail/lease.rs).
THEOREM LeaseTypes == Spec => []TypeOK
BY Held, PTL DEF IInv

\* Whatever the waits are: a receipt and a burst have the modem's settings
\* together only where the burst's wait for the receipt ran out.
THEOREM OverlapHurry == Spec => []OverlapsOnlyInHurry
<1>1. IInv => OverlapsOnlyInHurry
  <2> SUFFICES ASSUME IInv, Setting, Bursting PROVE "ack" \in rushed
    BY DEF OverlapsOnlyInHurry
  <2>1. Pausing /\ PastReceipt
    BY DEF Setting, Bursting, Pausing, PastReceipt, ReceiptAt, BurstAt
  <2> QED BY <2>1 DEF IInv, QueueIsHeld
<1> QED BY <1>1, Held, PTL

\* A burst that lost no patience has mail's configuration until it has left
\* the modem (burst in mail/air.rs).
THEOREM KeepsMode == Spec => []BurstKeepsItsMode
<1>1. IInv => BurstKeepsItsMode
  BY DEF IInv, ConfigIsOwned, BurstKeepsItsMode
<1> QED BY <1>1, Held, PTL

\* With no line, receipt or burst between its set and its restore, the modem
\* is on chat's configuration, or a restore failed.
THEOREM ChatBack == Spec => []ChatComesBack
<1>1. IInv => ChatComesBack
  BY DEF IInv, TypeOK, ConfigIsOwned, ChatComesBack, Setting, Bursting
<1> QED BY <1>1, Held, PTL

-----------------------------------------------------------------------------
\* What the station knows of a line it handed over: own_handed_at outlasts the
\* line's stay at the modem or the stay is as long as any is waited for; PTT
\* seen on and off again means the modem is rid of it; and a receipt on its way
\* to the modem looked for all three, if its last pass read the status.
Noted == "line" \in inModem => handed + stayed >= HandedMax
SeenOut == keyedSince = TRUE /\ ptt = FALSE => "line" \notin inModem
Looked ==
  receipt.at \in {"set", "send"} /\ receipt.read = TRUE /\ receipt.age < OwnMax =>
    inFlight = FALSE /\ ("line" \in inModem => stayed = HandedMax)
YetToLook == receipt.at \notin {"set", "send"} => receipt.read = FALSE
Ride == Noted /\ SeenOut /\ Looked /\ YetToLook

LEMMA ReceiptGoes ==
  ASSUME NEW r \in ReceiptStates, NEW at, NEW m, m = [r EXCEPT !.at = at]
  PROVE  m.at = at /\ m.sync = r.sync /\ m.age = r.age /\ m.read = r.read
BY DEF ReceiptStates

\* A task that is not the receipt, and hands nothing over.
LEMMA RideStays ==
  ASSUME IInv, Ride, receipt' = receipt, inFlight' \in BOOLEAN, inFlight' => inFlight,
         UNCHANGED <<handed, keyedSince, inModem, ptt, stayed>>
  PROVE  Ride'
BY DEF Ride, Noted, SeenOut, Looked, YetToLook

\* A frame of the kind k is handed over.
LEMMA RideHands ==
  ASSUME IInv, Ride, NEW k \in Kind, HandOver(k), inFlight' \in BOOLEAN,
         \/ receipt'.at \notin {"set", "send"} /\ receipt'.read = FALSE
         \/ receipt' = receipt /\ k # "line" /\ inFlight' = inFlight
         \/ receipt' = receipt /\ inFlight = TRUE
  PROVE  Ride'
<1>1. Noted'
  BY Numbers DEF HandOver, Noted, IInv, TypeOK
<1>2. SeenOut'
  BY DEF HandOver, SeenOut
<1>3. Looked' /\ YetToLook'
  BY DEF HandOver, Looked, YetToLook, Ride
<1> QED BY <1>1, <1>2, <1>3 DEF Ride

\* A status read.
LEMMA RideReads ==
  ASSUME IInv, Ride, NotePtt, UNCHANGED <<inModem, ptt, stayed>>
  PROVE  Noted' /\ SeenOut'
<1>0. keyedSince \in BOOLEAN /\ ptt \in BOOLEAN
  BY DEF IInv, TypeOK
<1>1. Noted'
  <2>1. CASE keyedSince /\ ~ptt
    BY <1>0, <2>1 DEF Ride, SeenOut, Noted
  <2>2. CASE ~(keyedSince /\ ~ptt)
    BY <2>2 DEF NotePtt, Ride, Noted
  <2> QED BY <2>1, <2>2
<1>2. SeenOut'
  BY <1>0 DEF NotePtt, SeenOut
<1> QED BY <1>1, <1>2

\* A receipt that goes on to the modem saw that no line of ours is on its way.
LEMMA RideLooks ==
  ASSUME IInv, Ride, AckReady
  PROVE  Ride'
<1>0. /\ inFlight \in BOOLEAN /\ stayed \in 0..HandedMax /\ HandedMax \in Nat
      /\ receipt \in ReceiptStates /\ Sync = receipt.sync
  BY Numbers DEF IInv, TypeOK, Sync
<1>1. Noted' /\ SeenOut'
  BY RideReads DEF AckReady, modemVars
<1>2. receipt'.at \in {"set", "send"} /\ receipt'.age = receipt.age
      /\ (receipt'.read = TRUE => receipt.sync = TRUE)
  <2>1. CASE Sync /\ receipt' = [receipt EXCEPT !.at = "send", !.test = 0, !.read = TRUE]
    BY <1>0, <2>1, ReceiptFields DEF ReceiptStates
  <2>2. CASE receipt' = [receipt EXCEPT !.at = "set", !.forced = TRUE, !.test = 0, !.read = Sync]
    BY <1>0, <2>2, ReceiptFields DEF ReceiptStates
  <2> QED BY <2>1, <2>2 DEF AckReady
<1>3. ASSUME receipt.sync = TRUE, receipt.age < OwnMax
      PROVE  inFlight' = FALSE /\ ("line" \in inModem' => stayed' = HandedMax)
  <2>1. ~OwnOnItsWay
    BY <1>0, <1>3 DEF AckReady, OwnHolds
  <2>2. inFlight = FALSE /\ handed' = 0
    BY <1>0, <2>1 DEF OwnOnItsWay
  <2>3. "line" \in inModem => 0 + stayed >= HandedMax
    BY <1>1, <2>2 DEF Noted, AckReady, modemVars
  <2> QED BY <1>0, <2>2, <2>3 DEF AckReady, modemVars
<1>4. Looked' /\ YetToLook'
  BY <1>2, <1>3 DEF Looked, YetToLook
<1> QED BY <1>1, <1>4 DEF Ride

LEMMA RideReceipt ==
  ASSUME IInv, Ride, AckDue \/ AckReads \/ ReceiptStep
  PROVE  Ride'
<1>0. /\ receipt \in ReceiptStates /\ inFlight \in BOOLEAN
      /\ OffReceipt.at = "off" /\ OffReceipt.read = FALSE /\ YetToLook
  BY DEF IInv, TypeOK, OffReceipt, Ride
<1>1. ASSUME receipt'.at \notin {"set", "send"}, receipt'.read = FALSE, Noted', SeenOut'
      PROVE  Ride'
  BY <1>1 DEF Ride, Looked, YetToLook
<1>2. ASSUME receipt'.read = FALSE, UNCHANGED <<handed, keyedSince, inModem, ptt, stayed>>
      PROVE  Ride'
  BY <1>2 DEF Ride, Noted, SeenOut, Looked, YetToLook
<1>3. CASE AckDue
  <2>1. receipt'.read = FALSE
    BY <1>3 DEF AckDue, OffReceipt
  <2> QED BY <1>2, <1>3, <2>1 DEF AckDue, airVars, modemVars
<1>4. CASE AckReads
  <2>1. receipt'.at = "testing" /\ receipt'.read = FALSE
    BY <1>0, <1>4 DEF AckReads, ReceiptStates, YetToLook
  <2> QED BY <1>1, <1>4, <2>1, RideReads DEF AckReads, modemVars
<1>5. CASE AckStarts
  <2>1. \/ receipt' = [receipt EXCEPT !.at = "testing", !.age = 0]
        \/ receipt' = [receipt EXCEPT !.at = "send", !.age = 0]
    BY <1>5 DEF AckStarts
  <2>2. receipt'.read = receipt.read /\ receipt.read = FALSE
    BY <1>0, <1>5, <2>1, ReceiptTests DEF AckStarts, YetToLook
  <2> QED BY <1>2, <1>5, <2>2 DEF AckStarts, modemVars
<1>6. CASE AckGivesUp
  BY <1>0, <1>2, <1>6 DEF AckGivesUp, airVars, modemVars
<1>7. CASE AckReady
  BY <1>7, RideLooks
<1>13. CASE AckUnread
  <2>1. receipt'.read = receipt.read /\ receipt.read = FALSE
    BY <1>0, <1>13, ReceiptUnread DEF AckUnread, YetToLook
  <2> QED BY <1>2, <1>13, <2>1 DEF AckUnread, airVars
<1>8. CASE ForceTest
  <2>1. /\ receipt'.at = "send" /\ receipt'.read = receipt.read /\ receipt'.age = receipt.age
        /\ receipt.at = "set"
    BY <1>0, <1>8, ReceiptGoes DEF ForceTest, Receipt
  <2> QED BY <1>8, <2>1 DEF ForceTest, airVars, Ride, Noted, SeenOut, Looked, YetToLook
<1>9. CASE HandReceipt
  <2>1. receipt'.at = "drain" /\ receipt'.read = FALSE
    BY <1>0, <1>9 DEF HandReceipt, ReceiptStates
  <2>2. CASE HandOver("receipt")
    BY <1>0, <1>9, <2>1, <2>2, RideHands DEF HandReceipt, Kind
  <2>3. CASE NotHanded
    BY <1>2, <2>1, <2>3 DEF NotHanded
  <2> QED BY <1>9, <2>2, <2>3 DEF HandReceipt
<1>10. CASE AckDrained
  <2>1. receipt'.at \in {"restore", "resume"} /\ receipt'.read = FALSE
    BY <1>0, <1>10, ReceiptGoes DEF AckDrained, Receipt, YetToLook
  <2>2. CASE NotePtt
    BY <1>1, <1>10, <2>1, <2>2, RideReads DEF AckDrained
  <2>3. CASE UNCHANGED <<handed, keyedSince>>
    BY <1>2, <1>10, <2>1, <2>3 DEF AckDrained
  <2> QED BY <1>10, <2>2, <2>3 DEF AckDrained
<1>11. CASE RestoreTest
  <2>1. receipt'.at = "resume" /\ receipt'.read = FALSE
    BY <1>0, <1>11, ReceiptGoes DEF RestoreTest, Receipt, YetToLook
  <2> QED BY <1>2, <1>11, <2>1 DEF RestoreTest, airVars
<1>12. CASE Resume
  BY <1>0, <1>2, <1>12 DEF Resume, modemVars
<1> QED BY <1>3, <1>4, <1>5, <1>6, <1>7, <1>8, <1>9, <1>10, <1>11, <1>12, <1>13 DEF ReceiptStep

LEMMA RideLine ==
  ASSUME IInv, Ride, PopReady \/ LineStep \/ CancelLine
  PROVE  Ride'
<1>0. inFlight \in BOOLEAN /\ cancelled \in BOOLEAN
  BY DEF IInv, TypeOK
<1>1. CASE PopReady
  <2>1. receipt.at \notin {"set", "send"}
    BY <1>1 DEF PopReady, IInv, QueueIsHeld, Pausing, ReceiptAt
  <2> QED BY <1>1, <2>1 DEF PopReady, Ride, Noted, SeenOut, Looked, YetToLook, modemVars
<1>2. CASE CancelLine
  BY <1>0, <1>2, RideStays DEF CancelLine, modemVars
<1>3. CASE LineSensed
  <2>1. inFlight = TRUE
    BY <1>0, <1>3 DEF LineSensed, IInv, QueueIsHeld
  <2>2. inFlight' \in BOOLEAN
    BY <1>0, <1>3 DEF LineSensed
  <2> QED BY <1>3, <2>1, <2>2, RideStays DEF LineSensed, modemVars
<1>4. CASE SetRung
  BY <1>0, <1>4, RideStays DEF SetRung, airVars
<1>5. CASE HandLine
  <2>1. inFlight = TRUE
    BY <1>0, <1>5 DEF HandLine, IInv, QueueIsHeld
  <2>2. CASE HandOver("line") /\ inFlight' = FALSE
    BY <1>5, <2>1, <2>2, RideHands DEF HandLine, Kind
  <2>3. CASE NotHanded /\ UNCHANGED inFlight
    BY <1>0, <1>5, <2>3, RideStays DEF HandLine, NotHanded
  <2> QED BY <1>5, <2>2, <2>3 DEF HandLine
<1>6. CASE LineDrained
  <2>1. inFlight' \in BOOLEAN /\ (inFlight' => inFlight)
    BY <1>6 DEF LineDrained, AsksForNext
  <2> QED BY <1>6, <2>1, RideStays DEF LineDrained
<1> QED BY <1>1, <1>2, <1>3, <1>4, <1>5, <1>6 DEF LineStep

LEMMA RideBurst ==
  ASSUME IInv, Ride, BurstStarts \/ BurstStep
  PROVE  Ride'
<1>0. inFlight \in BOOLEAN
  BY DEF IInv, TypeOK
<1>1. CASE BurstStarts
  BY <1>0, <1>1, RideStays DEF BurstStarts, BurstGoes, modemVars
<1>2. CASE AckWaited \/ LineWaited \/ TxStable
  BY <1>0, <1>2, RideStays
     DEF AckWaited, LineWaited, TxStable, WaitOver, BurstGoes, airVars, modemVars
<1>3. CASE ChannelClear
  BY <1>0, <1>3, RideStays DEF ChannelClear, BurstGoes, airVars, modemVars
<1>4. CASE SetMail
  BY <1>0, <1>4, RideStays DEF SetMail, BurstGoes, airVars
<1>5. CASE SendMail
  <2>1. CASE HandOver("mail")
    BY <1>0, <1>5, <2>1, RideHands DEF SendMail, BurstGoes, Kind
  <2>2. CASE NotHanded
    BY <1>0, <1>5, <2>2, RideStays DEF SendMail, BurstGoes, NotHanded
  <2> QED BY <1>5, <2>1, <2>2 DEF SendMail
<1>6. CASE BurstDrained
  BY <1>0, <1>6, RideStays DEF BurstDrained, BurstGoes, airVars, modemVars
<1>7. CASE RestoreChat
  BY <1>0, <1>7, RideStays DEF RestoreChat, BurstGoes, airVars
<1>8. CASE ReleaseMail
  BY <1>0, <1>8, RideStays DEF ReleaseMail, BurstGoes, modemVars
<1> QED BY <1>1, <1>2, <1>3, <1>4, <1>5, <1>6, <1>7, <1>8 DEF BurstStep

\* A unit of time: own_handed_at grows old no faster than the line's stay.
LEMMA RideTicks ==
  ASSUME IInv, Ride, Tick
  PROVE  Ride'
<1>0. /\ handed \in 0..HandedMax /\ stayed \in 0..HandedMax /\ HandedMax \in Nat
      /\ receipt \in ReceiptStates /\ Aged(receipt) /\ YetToLook
      /\ keyedSince \in BOOLEAN
  BY Numbers DEF IInv, TypeOK, InTime, Ride
<1>1. Noted'
  <2>0. inModem' = inModem /\ handed' = Less(handed)
    BY DEF Tick
  <2> SUFFICES ASSUME "line" \in inModem PROVE handed' + stayed' >= HandedMax
    BY <2>0 DEF Noted
  <2>1. handed + stayed >= HandedMax /\ handed' >= handed - 1 /\ handed' \in Nat
    BY <1>0, <2>0 DEF Ride, Noted, Less
  <2>2. CASE stayed < HandedMax
    BY <1>0, <2>1, <2>2 DEF Tick
  <2>3. CASE stayed = HandedMax
    BY <1>0, <2>1, <2>3 DEF Tick
  <2> QED BY <1>0, <2>2, <2>3
<1>2. SeenOut'
  BY <1>0 DEF Tick, Ride, SeenOut
<1>3. receipt'.at = receipt.at /\ receipt'.read = receipt.read
  BY <1>0, ReceiptTicks DEF Tick
<1>4. receipt.at \notin {"set", "send"}
  BY DEF Tick, ReceiptPasses, UnreadPasses
<1>5. Looked' /\ YetToLook'
  BY <1>0, <1>3, <1>4 DEF Looked, YetToLook
<1> QED BY <1>1, <1>2, <1>5 DEF Ride

LEMMA RideModem ==
  ASSUME IInv, Ride, Keys \/ LetsGo
  PROVE  Ride'
BY DEF Keys, LetsGo, airVars, Ride, Noted, SeenOut, Looked, YetToLook

LEMMA RideStep == IInv /\ Ride /\ [Next]_vars => Ride'
<1> SUFFICES ASSUME IInv, Ride, [Next]_vars PROVE Ride'
  OBVIOUS
<1>1. CASE UNCHANGED vars
  BY <1>1 DEF vars, airVars, modemVars, Ride, Noted, SeenOut, Looked, YetToLook
<1>2. CASE PopReady \/ LineStep \/ CancelLine
  BY <1>2, RideLine
<1>3. CASE AckDue \/ AckReads \/ ReceiptStep
  BY <1>3, RideReceipt
<1>4. CASE BurstStarts \/ BurstStep
  BY <1>4, RideBurst
<1>5. CASE Keys \/ LetsGo
  BY <1>5, RideModem
<1>6. CASE Tick
  BY <1>6, RideTicks
<1> QED BY <1>1, <1>2, <1>3, <1>4, <1>5, <1>6 DEF Next

\* On FM no receipt is handed over on top of a line the modem has still to key,
\* until one of the two bounds on that wait is over, if the receipt's last pass
\* read the modem's status: that line was out or too old then, and none can
\* follow before the receipt is handed over, whatever calls fail after that pass
\* (own_frame_on_its_way, note_ptt, pause_for_ack in air.rs).
THEOREM ReceiptRidesNoLine == Spec => RidesNoLine
<1>1. Init => Ride
  BY DEF Init, OffReceipt, Ride, Noted, SeenOut, Looked, YetToLook
<1>2. IInv /\ Ride /\ [Next]_vars =>
        [HandReceipt /\ receipt.read =>
           "line" \notin inModem \/ stayed = HandedMax \/ receipt.age >= OwnMax]_vars
  <2> SUFFICES ASSUME IInv, Ride, HandReceipt, receipt.read
               PROVE  "line" \notin inModem \/ stayed = HandedMax \/ receipt.age >= OwnMax
    OBVIOUS
  <2>1. receipt.at = "send" /\ receipt.read = TRUE /\ receipt.age \in Int /\ OwnMax \in Int
    <3>1. receipt \in ReceiptStates /\ OwnMax \in Patience
      BY DEF IInv, TypeOK, Patience
    <3> QED BY <3>1, ReceiptFields, Numbers DEF HandReceipt
  <2> QED BY <2>1 DEF Ride, Looked
<1> QED BY <1>1, <1>2, RideStep, Held, PTL DEF Spec, RidesNoLine
=============================================================================
