-------------------------- MODULE MailTypesProofs --------------------------
(***************************************************************************)
(* The types of MailTransfer, for any gateways, chunks and tries, and any  *)
(* number of losses, faults and presses of Retry: no step looks up a       *)
(* gateway that is not there, counts a try beyond the cap, or leaves a     *)
(* whole set of chunks in a gateway's slot.                                *)
(***************************************************************************)
EXTENDS MailTransferProofs, FiniteSetTheorems

Rows == [state : {"queued", "locating", "tx", "gateway", "sent", "failed"},
         retries : 0..Cap + 1, got : SUBSET Chunk, sized : BOOLEAN]
Leases == [gw : Gateway \cup {AutoGw}, plan : SUBSET Chunk]
Picks == [state : {"idle", "asking", "picked", "none"}, list : Lists,
          at : Nat \ {0}, stale : {"no", "old", "band"}]
AskForms == [cmd : 0..2, after : 0..2]
Gates == [heard : Seq(Burst), bucket : (SUBSET Chunk) \ {Chunk},
          dest : Gateway \cup {AutoGw}, knows : BOOLEAN, ready : Gateway \cup {AutoGw},
          quiet : BOOLEAN, reack : BOOLEAN, at : {"idle", "ok", "fail", "have"} \cup Posting]
Spents == [losses : 0..MaxLosses, faults : 0..MaxFaults, byHand : 0..MaxByHand]

InUse(p) == p.state = "picked" => p.at \in DOMAIN p.list
MailOK == row \in Rows /\ lease \in Leases /\ wait \in BOOLEAN /\ due \in 0..2
AutoOK ==
  /\ pick \in Picks /\ InUse(pick) /\ ask \in AskForms /\ tried \subseteq Gateway
  /\ reasked \in BOOLEAN
AirOK == inbox \in Seq(Answer) /\ gate \in [Gateway -> Gates] /\ relay \subseteq Gateway

\* A try past the cap is given up; a burst has a gateway to go to.
Capped == (~Finished(row.state) \/ ~TaskFree) => row.retries <= Cap
Leased == ~TaskFree => lease.gw \in Gateway

\* Until a burst is keyed nobody has anything to say of the mail, and no wait runs.
Silent ==
  via = <<>> =>
    /\ wait = FALSE /\ row.got = {} /\ inbox = <<>>
    /\ \A g \in Gateway : gate[g] = EmptyGate

Types ==
  MailOK /\ AutoOK /\ AirOK /\ via \in Lists /\ spent \in Spents /\ Capped /\ Leased /\ Silent

-----------------------------------------------------------------------------
\* What the model's operators give.

\* A set of numbers has a least one, its first.
LEMMA Least ==
  ASSUME NEW S \in SUBSET Nat, S # {}
  PROVE  \E m \in S : \A k \in S : m <= k
<1>1. PICK n \in S : n \in Nat
  OBVIOUS
<1> DEFINE D == 0..n
           To(k) == {j \in S : j <= k}
           T == {To(k) : k \in S \cap D}
           R == StrictSubsetOrdering(D)
<1>2. ASSUME NEW k \in S \cap D PROVE To(k) \subseteq D /\ k <= n /\ k \in Nat
  <2>1. k \in Nat /\ k <= n
    BY <1>1
  <2>2. ASSUME NEW j \in To(k) PROVE j \in D
    BY <1>1, <2>1
  <2> QED BY <2>1, <2>2
<1>3. T \subseteq FiniteSubsetsOf(D)
  <2>1. IsFiniteSet(D)
    BY <1>1, FS_Interval
  <2>2. FiniteSubsetsOf(D) = SUBSET D
    BY <2>1, FS_FiniteSubsetsOfFinite
  <2> HIDE DEF D, To
  <2> QED BY <2>2, <1>2
<1>4. T # {}
  <2>1. n \in S \cap D
    BY <1>1
  <2>2. To(n) \in T
    BY <2>1
  <2> QED BY <2>2
<1>5. PICK x \in T : \A y \in T : ~(<<y, x>> \in R)
  <2>1. IsWellFoundedOn(R, FiniteSubsetsOf(D))
    BY FS_StrictSubsetOrderingWellFounded
  <2> HIDE DEF R, T
  <2> QED BY <1>3, <1>4, <2>1, WFMin
<1>6. PICK m \in S \cap D : x = To(m)
  OBVIOUS
<1>7. ASSUME NEW k \in S, ~(m <= k) PROVE FALSE
  <2>1. k \in S \cap D
    BY <1>1, <1>2, <1>7
  <2>2. To(k) \in T
    BY <2>1
  <2>3. To(k) \subseteq To(m) /\ m \in To(m) /\ m \notin To(k)
    BY <1>2, <1>7, <2>1
  <2>4. To(m) \subseteq D /\ To(k) \subseteq D
    BY <1>2, <2>1
  <2>5. <<To(k), x>> \in R
    <3> HIDE DEF To, D
    <3> QED BY <1>6, <2>3, <2>4 DEF StrictSubsetOrdering
  <2> HIDE DEF T, R, To
  <2> QED BY <1>5, <2>2, <2>5
<1> QED BY <1>7

LEMMA FirstIs ==
  ASSUME NEW S \in SUBSET Nat, S # {}
  PROVE  First(S) \in S /\ \A k \in S : First(S) <= k
BY Least DEF First

\* A set of chunks has a last one.
LEMMA Greatest ==
  ASSUME NEW S \in SUBSET Chunk, S # {}
  PROVE  \E m \in S : \A k \in S : k <= m
<1>1. Chunks \in Nat \ {0} /\ Chunk \subseteq Nat
  BY MailAssumption DEF Chunk
<1> DEFINE U == {u \in Nat : \A k \in S : k <= u}
<1>2. Chunks \in U
  BY <1>1 DEF Chunk
<1>3. PICK m \in U : \A k \in U : m <= k
  <2> U \in SUBSET Nat /\ U # {}
    BY <1>2
  <2> HIDE DEF U
  <2> QED BY Least
<1>4. m \in S
  <2>1. CASE m = 0
    <3>1. PICK k \in S : k \in Nat /\ k <= m
      BY <1>1, <1>3
    <3> QED BY <2>1, <3>1
  <2>2. ASSUME m # 0, m \notin S PROVE FALSE
    <3>1. m - 1 \in U
      BY <1>1, <1>3, <2>2
    <3> QED BY <1>3, <3>1
  <2> QED BY <2>1, <2>2
<1> QED BY <1>3, <1>4

LEMMA Counted ==
  ASSUME NEW S \in SUBSET Gateway
  PROVE  IsFiniteSet(Gateway) /\ Cardinality(Gateway) \in Nat /\ Cardinality(S) \in Nat
BY MailAssumption, FS_Subset, FS_CardinalityType

\* A list names no gateway twice, so it is no longer than they are many.
LEMMA ListsAre ==
  ASSUME NEW l \in Lists
  PROVE  /\ l \in Seq(Gateway) /\ Len(l) \in Nat /\ DOMAIN l = 1..Len(l)
         /\ Len(l) <= Cardinality(Gateway)
         /\ \A i \in DOMAIN l : l[i] \in Gateway
         /\ \A i, j \in DOMAIN l : l[i] = l[j] => i = j
<1>1. PICK n \in 0..Cardinality(Gateway) : l \in [1..n -> Gateway]
  BY DEF Lists
<1>2. n \in Nat /\ n <= Cardinality(Gateway)
  BY Counted
<1>3. l \in Seq(Gateway) /\ Len(l) = n
  BY <1>1, <1>2
<1> QED BY <1>1, <1>2, <1>3 DEF Lists

LEMMA ListsHave ==
  ASSUME NEW l \in Seq(Gateway), \A i, j \in DOMAIN l : l[i] = l[j] => i = j
  PROVE  l \in Lists
<1>1. Len(l) \in Nat /\ l \in [1..Len(l) -> Gateway]
  BY LenProperties
<1>2. Len(l) <= Cardinality(Gateway)
  <2>1. l \in Injection(1..Len(l), Gateway)
    BY <1>1 DEF Injection, IsInjective
  <2>2. Cardinality(1..Len(l)) <= Cardinality(Gateway)
    BY <2>1, Counted, FS_Injection
  <2>3. Cardinality(1..Len(l)) = Len(l)
    BY <1>1, FS_Interval
  <2> QED BY <2>2, <2>3
<1>3. Len(l) \in 0..Cardinality(Gateway)
  BY <1>1, <1>2, Counted
<1> QED BY <1>1, <1>3 DEF Lists

LEMMA ListsGrow ==
  ASSUME NEW l \in Lists, NEW g \in Gateway, \A i \in DOMAIN l : l[i] # g
  PROVE  Append(l, g) \in Lists /\ Append(l, g) # <<>>
<1>1. /\ l \in Seq(Gateway) /\ Len(l) \in Nat /\ DOMAIN l = 1..Len(l)
      /\ \A i, j \in DOMAIN l : l[i] = l[j] => i = j
  BY ListsAre
<1>2. /\ Append(l, g) \in Seq(Gateway) /\ DOMAIN Append(l, g) = 1..Len(l) + 1
      /\ \A i \in 1..Len(l) : Append(l, g)[i] = l[i]
      /\ Append(l, g)[Len(l) + 1] = g
  BY <1>1, AppendProperties
<1>3. \A i, j \in DOMAIN Append(l, g) : Append(l, g)[i] = Append(l, g)[j] => i = j
  <2> DEFINE q == Append(l, g)
  <2> HIDE DEF q
  <2>1. ASSUME NEW i \in 1..Len(l) + 1, NEW j \in 1..Len(l) + 1, q[i] = q[j]
        PROVE  i = j
    <3>1. CASE i \in 1..Len(l) /\ j \in 1..Len(l)
      BY <1>1, <1>2, <2>1, <3>1 DEF q
    <3>2. CASE i = Len(l) + 1 /\ j = Len(l) + 1
      BY <3>2
    <3>3. CASE i \in 1..Len(l) /\ j = Len(l) + 1
      BY <1>1, <1>2, <2>1, <3>3 DEF q
    <3>4. CASE i = Len(l) + 1 /\ j \in 1..Len(l)
      BY <1>1, <1>2, <2>1, <3>4 DEF q
    <3> QED BY <1>1, <3>1, <3>2, <3>3, <3>4
  <2> QED BY <1>2, <2>1 DEF q
<1>4. Append(l, g) \in Lists
  BY <1>2, <1>3, ListsHave
<1>5. Append(l, g) # <<>>
  <2>1. Len(l) + 1 \in DOMAIN Append(l, g)
    BY <1>1, <1>2
  <2> QED BY <2>1, EmptySeq
<1> QED BY <1>4, <1>5

LEMMA NoList == <<>> \in Lists
<1>1. <<>> \in Seq(Gateway) /\ DOMAIN <<>> = {}
  BY EmptySeq
<1> QED BY <1>1, ListsHave

\* next_after stays in the list.
LEMMA NextPlace ==
  ASSUME pick \in Picks, NEW skip, NextAfter(skip) # {}
  PROVE  /\ First(NextAfter(skip)) \in DOMAIN pick.list /\ First(NextAfter(skip)) \in Nat \ {0}
         /\ pick.list[First(NextAfter(skip))] \in Gateway
<1>1. pick.list \in Lists /\ pick.at \in Nat \ {0}
  BY DEF Picks
<1>2. /\ DOMAIN pick.list = 1..Len(pick.list) /\ Len(pick.list) \in Nat
      /\ \A i \in DOMAIN pick.list : pick.list[i] \in Gateway
  BY <1>1, ListsAre
<1>3. /\ NextAfter(skip) \in SUBSET Nat /\ NextAfter(skip) \subseteq DOMAIN pick.list
      /\ 0 \notin NextAfter(skip)
  BY <1>1, <1>2 DEF NextAfter
<1>4. First(NextAfter(skip)) \in NextAfter(skip)
  BY <1>3, FirstIs
<1> QED BY <1>2, <1>3, <1>4

LEMMA LastOf ==
  ASSUME NEW l \in Lists, l # <<>>
  PROVE  l[Len(l)] \in Gateway
<1>1. l \in Seq(Gateway) /\ \A i \in 1..Len(l) : l[i] \in Gateway
  BY ListsAre
<1>2. Len(l) \in 1..Len(l)
  BY <1>1, EmptySeq, LenProperties
<1> QED BY <1>1, <1>2

LEMMA Spends ==
  ASSUME spent \in Spents
  PROVE  /\ UNCHANGED spent => spent' \in Spents
         /\ \A n \in Nat : Loses(n) => spent' \in Spents
         /\ Fault => spent' \in Spents
BY MailAssumption DEF Spents, Loses, Fault

-----------------------------------------------------------------------------
\* The moves of the mail's record, and of what the steps share.
States == {"queued", "locating", "tx", "gateway", "sent", "failed"}

LEMMA StateIs ==
  ASSUME NEW r \in Rows, NEW x \in States
  PROVE  /\ [r EXCEPT !.state = x] \in Rows /\ [r EXCEPT !.state = x].state = x
         /\ [r EXCEPT !.state = x].retries = r.retries /\ [r EXCEPT !.state = x].got = r.got
BY DEF Rows, States

LEMMA OneMore ==
  ASSUME NEW r \in Rows, r.retries <= Cap
  PROVE  LET more == [r EXCEPT !.retries = @ + 1, !.state = "queued"]
         IN more \in Rows /\ more.retries = r.retries + 1 /\ more.got = r.got
<1> DEFINE more == [r EXCEPT !.retries = @ + 1, !.state = "queued"]
<1>1. r.retries + 1 \in 0..Cap + 1
  BY MailAssumption DEF Rows
<1>2. more = [state |-> "queued", retries |-> r.retries + 1, got |-> r.got, sized |-> r.sized]
  <2>1. r = [state |-> r.state, retries |-> r.retries, got |-> r.got, sized |-> r.sized]
    BY DEF Rows
  <2>2. PICK k : k = r.retries + 1
    OBVIOUS
  <2>3. more = [r EXCEPT !.retries = k, !.state = "queued"]
    BY <2>2
  <2> HIDE DEF more
  <2>4. more = [state |-> "queued", retries |-> k, got |-> r.got, sized |-> r.sized]
    BY <2>1, <2>3
  <2> QED BY <2>2, <2>4
<1>3. r.got \in SUBSET Chunk /\ r.sized \in BOOLEAN
  BY DEF Rows
<1> HIDE DEF more
<1>4. more \in Rows /\ more.retries = r.retries + 1 /\ more.got = r.got
  BY <1>1, <1>2, <1>3 DEF Rows
<1> QED BY <1>4 DEF more

LEMMA ResetIs ==
  ASSUME NEW r
  PROVE  /\ ResetForGateway(r) \in Rows /\ ResetForGateway(r).retries = 0
         /\ ResetForGateway(r).got = {}
BY MailAssumption DEF Rows, ResetForGateway

LEMMA FailIs ==
  ASSUME row \in Rows, FailMail(row)
  PROVE  /\ row' \in Rows /\ row'.state = "failed" /\ row'.got = row.got /\ wait' = FALSE
         /\ row'.retries = row.retries
BY StateIs DEF FailMail, States

LEMMA RfSendIs ==
  ASSUME NEW r \in Rows, NEW gw \in Gateway, RfSend(r, gw)
  PROVE  /\ row' \in Rows /\ row'.state = r.state /\ row'.retries = r.retries
         /\ row'.got = r.got /\ lease' \in Leases /\ Leased'
<1>1. Planned(r) \in SUBSET Chunk
  BY MailAssumption DEF Planned, Rows, Chunk
<1>2. lease' = NoLease \/ lease' = [gw |-> gw, plan |-> Planned(r)]
  BY DEF RfSend
<1>3. lease' \in Leases
  BY <1>1, <1>2 DEF Leases, NoLease
<1>4. Leased'
  BY <1>2 DEF Leased, TaskFree, NoLease
<1>5. row' = [r EXCEPT !.sized = TRUE]
  BY DEF RfSend
<1> QED BY <1>3, <1>4, <1>5 DEF Rows

LEMMA UpToTwoIs ==
  ASSUME NEW n \in Nat
  PROVE  UpToTwo(n) \in 0..2
BY DEF UpToTwo

LEMMA DefersIs ==
  ASSUME ask \in AskForms, Defers
  PROVE  ask' \in AskForms
<1>1. ask.after + 1 \in Nat /\ ask.cmd + 1 \in Nat /\ ask.cmd \in 0..2
  BY DEF AskForms
<1> QED BY <1>1, UpToTwoIs DEF AskForms, Defers

LEMMA NoLeaseIs ==
  ASSUME lease' = NoLease
  PROVE  lease' \in Leases /\ Leased' /\ (TaskFree)'
BY DEF Leases, Leased, TaskFree, NoLease

\* What the mail task leaves to others.
LEMMA StillSilent ==
  ASSUME Types, via' = via, inbox' = inbox, gate' = gate, relay' = relay,
         via = <<>> => wait' = FALSE /\ row'.got = {}
  PROVE  AirOK' /\ Silent' /\ via' \in Lists
BY DEF Types, AirOK, Silent

LEMMA AutoStays ==
  ASSUME Types, UNCHANGED auto
  PROVE  AutoOK'
BY DEF Types, AutoOK, auto, InUse

\* A place in Auto's list.
LEMMA PickMoves ==
  ASSUME pick \in Picks, NEW i \in DOMAIN pick.list, i \in Nat \ {0},
         pick' = [pick EXCEPT !.at = i]
  PROVE  pick' \in Picks /\ InUse(pick')
BY DEF Picks, InUse

\* give_up marks the last gateway the mail was keyed to, and goes to the next one.
LEMMA GiveUpIs ==
  ASSUME Types, NEW r \in Rows, r.got = row.got, GiveUp(r)
  PROVE  /\ row' \in Rows /\ (row'.state = "failed" \/ row'.retries = 0)
         /\ row'.got \in {row.got, {}}
         /\ wait' = FALSE /\ due' \in 0..2 /\ AutoOK'
<1> DEFINE failed == tried \cup {via[Len(via)]}
<1>0. /\ pick \in Picks /\ InUse(pick) /\ ask \in AskForms /\ due \in 0..2 /\ via \in Lists
      /\ tried \subseteq Gateway /\ reasked \in BOOLEAN
  BY DEF Types, AutoOK, MailOK
<1>1. wait' = FALSE
  BY DEF GiveUp
<1>2. CASE row' = [r EXCEPT !.state = "failed"] /\ UNCHANGED <<due, auto>>
  BY <1>0, <1>1, <1>2, StateIs, AutoStays DEF States
<1>3. ASSUME via # <<>> PROVE failed \subseteq Gateway
  BY <1>0, <1>3, LastOf
<1>4. CASE /\ via # <<>> /\ NextAfter(failed) # {}
           /\ tried' = failed /\ pick' = [pick EXCEPT !.at = First(NextAfter(failed))]
           /\ row' = ResetForGateway(r) /\ due' = UpToTwo(due + 1)
           /\ UNCHANGED <<ask, reasked>>
  <2> HIDE DEF failed
  <2>1. pick' \in Picks /\ InUse(pick')
    BY <1>0, <1>4, NextPlace, PickMoves
  <2>2. AutoOK'
    BY <1>0, <1>3, <1>4, <2>1 DEF AutoOK
  <2> QED BY <1>0, <1>1, <1>4, <2>2, ResetIs, UpToTwoIs
<1>5. CASE /\ via # <<>>
           /\ tried' = failed /\ reasked' = TRUE /\ pick' = [pick EXCEPT !.stale = Older(@)]
           /\ row' = [ResetForGateway(r) EXCEPT !.state = "locating"] /\ Defers
           /\ UNCHANGED due
  <2> HIDE DEF failed
  <2>1. pick' \in Picks /\ InUse(pick')
    <3>1. Older(pick.stale) \in {"no", "old", "band"}
      BY <1>0 DEF Picks, Older
    <3>2. pick' = [pick EXCEPT !.stale = Older(pick.stale)]
      BY <1>5
    <3> QED BY <1>0, <3>1, <3>2 DEF Picks, InUse
  <2>2. AutoOK'
    BY <1>0, <1>3, <1>5, <2>1, DefersIs DEF AutoOK
  <2>3. row' \in Rows /\ row'.retries = 0 /\ row'.got = {}
    <3> DEFINE r0 == ResetForGateway(r)
    <3>1. r0 \in Rows /\ r0.retries = 0 /\ r0.got = {}
      BY ResetIs
    <3> HIDE DEF r0
    <3>2. row' = [r0 EXCEPT !.state = "locating"]
      BY <1>5 DEF r0
    <3> QED BY <3>1, <3>2, StateIs DEF States
  <2> QED BY <1>0, <1>1, <1>5, <2>2, <2>3
<1>6. CASE /\ via # <<>> /\ tried' = failed /\ row' = [r EXCEPT !.state = "failed"]
           /\ UNCHANGED <<due, pick, ask, reasked>>
  <2> HIDE DEF failed
  <2>1. AutoOK'
    BY <1>0, <1>3, <1>6 DEF AutoOK, InUse
  <2> QED BY <1>0, <1>1, <1>6, <2>1, StateIs DEF States
<1> QED BY <1>2, <1>4, <1>5, <1>6 DEF GiveUp

-----------------------------------------------------------------------------
\* The mail task.
LEMMA SendsTyped ==
  ASSUME Types, Sending
  PROVE  Types'
<1>0. /\ row \in Rows /\ lease \in Leases /\ wait \in BOOLEAN /\ due \in 0..2
      /\ pick \in Picks /\ InUse(pick) /\ ask \in AskForms /\ reasked \in BOOLEAN
      /\ tried \subseteq Gateway /\ spent \in Spents /\ Capped /\ Leased
      /\ (via = <<>> => wait = FALSE /\ row.got = {})
  BY DEF Types, MailOK, AutoOK, Silent
<1>1. /\ TaskFree /\ due' \in 0..2 /\ UNCHANGED <<via, inbox, gate, relay, spent>>
  BY <1>0 DEF Sending, SendFinished, SendLocates, SendRouted, gateways
<1>2. CASE SendFinished
  <2>1. UNCHANGED <<row, wait, lease, auto>>
    BY <1>2 DEF SendFinished
  <2>2. AirOK' /\ Silent' /\ via' \in Lists
    BY <1>0, <1>1, <2>1, StillSilent
  <2>3. Capped' /\ Leased'
    BY <1>0, <2>1 DEF Capped, Leased, TaskFree
  <2> QED BY <1>0, <1>1, <2>1, <2>2, <2>3, AutoStays DEF Types, MailOK
<1>3. CASE SendLocates
  <2>1. /\ UNCHANGED <<wait, lease, pick, tried, reasked>> /\ ~Finished(row.state)
        /\ row' = [row EXCEPT !.state = "locating"] /\ Defers
    BY <1>3 DEF SendLocates
  <2>2. row' \in Rows /\ row'.retries = row.retries /\ row'.got = row.got
    BY <1>0, <2>1, StateIs DEF States
  <2>3. AirOK' /\ Silent' /\ via' \in Lists
    BY <1>0, <1>1, <2>1, <2>2, StillSilent
  <2>4. Capped' /\ Leased'
    BY <1>0, <2>1, <2>2 DEF Capped, Leased, TaskFree
  <2>5. AutoOK'
    BY <1>0, <2>1, DefersIs DEF AutoOK, InUse
  <2> QED BY <1>0, <1>1, <2>1, <2>2, <2>3, <2>4, <2>5 DEF Types, MailOK
<1>4. CASE SendRouted
  <2>1. UNCHANGED <<ask, tried, reasked>> /\ ~Finished(row.state) /\ ~Locates
    BY <1>4 DEF SendRouted
  <2>2. ASSUME NEW gw \in Gateway, RfSend(row, gw), UNCHANGED wait, pick' \in Picks, InUse(pick')
        PROVE  Types'
    <3>1. /\ row' \in Rows /\ row'.state = row.state /\ row'.retries = row.retries
          /\ row'.got = row.got /\ lease' \in Leases /\ Leased'
      BY <1>0, <2>2, RfSendIs
    <3>2. Capped'
      BY <1>0, <2>1, <3>1 DEF Capped
    <3>3. AirOK' /\ Silent' /\ via' \in Lists
      BY <1>0, <1>1, <2>2, <3>1, StillSilent
    <3>4. AutoOK'
      BY <1>0, <2>1, <2>2 DEF AutoOK
    <3> QED BY <1>0, <1>1, <2>2, <3>1, <3>2, <3>3, <3>4 DEF Types, MailOK
  <2>3. CASE RfSend(row, Current) /\ UNCHANGED <<wait, pick>>
    <3>1. Current \in Gateway
      <4>1. CASE Pinned # AutoGw
        BY <4>1, MailAssumption DEF Current
      <4>2. CASE Pinned = AutoGw
        <5>1. pick.state = "picked" /\ pick.list \in Lists
          BY <1>0, <2>1, <4>2 DEF Locates, Usable, Picks
        <5>2. pick.at \in DOMAIN pick.list
          BY <1>0, <5>1 DEF InUse
        <5> QED BY <4>2, <5>1, <5>2, ListsAre DEF Current
      <4> QED BY <4>1, <4>2
    <3> QED BY <1>0, <2>2, <2>3, <3>1 DEF InUse
  <2>4. CASE /\ NextAfter(tried) # {} /\ UNCHANGED wait
             /\ RfSend(row, pick.list[First(NextAfter(tried))])
             /\ pick' = [pick EXCEPT !.at = First(NextAfter(tried))]
    <3>1. pick' \in Picks /\ InUse(pick')
      BY <1>0, <2>4, NextPlace, PickMoves
    <3> QED BY <1>0, <2>2, <2>4, <3>1, NextPlace
  <2>5. CASE FailMail(row) /\ UNCHANGED <<lease, pick>>
    <3>1. /\ row' \in Rows /\ row'.state = "failed" /\ row'.got = row.got /\ wait' = FALSE
      BY <1>0, <2>5, FailIs
    <3>2. Capped' /\ Leased'
      BY <1>0, <1>1, <2>5, <3>1 DEF Capped, Leased, TaskFree, Finished
    <3>3. AirOK' /\ Silent' /\ via' \in Lists
      BY <1>0, <1>1, <3>1, StillSilent
    <3>4. AutoOK'
      BY <1>0, <2>1, <2>5 DEF AutoOK, InUse
    <3> QED BY <1>0, <1>1, <2>5, <3>1, <3>2, <3>3, <3>4 DEF Types, MailOK
  <2> QED BY <1>4, <2>3, <2>4, <2>5 DEF SendRouted
<1> QED BY <1>2, <1>3, <1>4 DEF Sending

LEMMA KeyTyped ==
  ASSUME Types, Key
  PROVE  Types'
<1> DEFINE still == lease.plan \ row.got
<1>0. /\ row \in Rows /\ lease \in Leases /\ due \in 0..2 /\ via \in Lists
      /\ spent \in Spents /\ Capped /\ Leased /\ inbox \in Seq(Answer)
      /\ gate \in [Gateway -> Gates] /\ relay \subseteq Gateway
  BY DEF Types, MailOK, AirOK
<1>1. /\ ~TaskFree /\ ~Finished(row.state) /\ row' = [row EXCEPT !.state = "tx"]
      /\ wait' = TRUE /\ lease' = NoLease /\ UNCHANGED <<due, inbox, auto, relay>>
      /\ via' = IF \E i \in DOMAIN via : via[i] = lease.gw THEN via ELSE Append(via, lease.gw)
  BY DEF Key
<1>2. PICK heard \in [Gateway -> SUBSET still] :
        HeardBy(heard) /\ Loses(Cardinality({g \in Gateway : heard[g] # still}))
  BY DEF Key
<1>3. lease.gw \in Gateway /\ still \in SUBSET Chunk
  BY <1>0, <1>1 DEF Leased, Leases
<1>4. row' \in Rows /\ row'.retries <= Cap
  BY <1>0, <1>1, StateIs DEF States, Capped
<1>5. via' \in Lists /\ via' # <<>>
  <2>1. CASE \E i \in DOMAIN via : via[i] = lease.gw
    <3>1. via' = via /\ via # <<>>
      BY <1>1, <2>1, EmptySeq
    <3> QED BY <1>0, <3>1
  <2>2. CASE ~(\E i \in DOMAIN via : via[i] = lease.gw)
    BY <1>0, <1>1, <1>3, <2>2, ListsGrow
  <2> QED BY <2>1, <2>2
<1>6. spent' \in Spents
  <2>1. Cardinality({g \in Gateway : heard[g] # still}) \in Nat
    <3> DEFINE S == {g \in Gateway : heard[g] # still}
    <3>1. S \in SUBSET Gateway
      OBVIOUS
    <3> HIDE DEF S
    <3> QED BY <3>1, Counted
  <2> QED BY <1>0, <1>2, <2>1, Spends
<1>7. gate' \in [Gateway -> Gates]
  <2> SUFFICES ASSUME NEW g \in Gateway, heard[g] # {}
               PROVE  [gate[g] EXCEPT !.heard = Append(@, [gw |-> lease.gw, plan |-> heard[g]])]
                        \in Gates
    BY <1>0, <1>2 DEF HeardBy
  <2>1. [gw |-> lease.gw, plan |-> heard[g]] \in Burst
    BY <1>3 DEF Burst
  <2>2. gate[g] \in Gates
    BY <1>0
  <2>3. Append(gate[g].heard, [gw |-> lease.gw, plan |-> heard[g]]) \in Seq(Burst)
    BY <2>1, <2>2 DEF Gates
  <2> QED BY <2>2, <2>3 DEF Gates
<1>8. MailOK' /\ Capped'
  BY <1>0, <1>1, <1>4, NoLeaseIs DEF MailOK, Capped
<1>9. AirOK' /\ Silent'
  BY <1>0, <1>1, <1>5, <1>7 DEF AirOK, Silent
<1> QED BY <1>0, <1>1, <1>5, <1>6, <1>8, <1>9, AutoStays, NoLeaseIs DEF Types

\* What the other steps of a burst and the wait that follows share.
LEMMA BurstEnds ==
  ASSUME Types, lease' = NoLease, row' \in Rows, Finished(row'.state) \/ row'.retries <= Cap,
         wait' \in BOOLEAN, due' \in 0..2, spent' \in Spents, AutoOK',
         UNCHANGED <<via, inbox, gateways>>,
         via = <<>> => wait' = FALSE /\ row'.got = {}
  PROVE  Types'
<1>1. AirOK' /\ Silent' /\ via' \in Lists
  BY StillSilent DEF gateways
<1>2. lease' \in Leases /\ Leased' /\ (TaskFree)'
  BY NoLeaseIs
<1>3. MailOK' /\ Capped'
  BY <1>2 DEF MailOK, Capped
<1> QED BY <1>1, <1>2, <1>3 DEF Types

LEMMA KeyingTyped ==
  ASSUME Types, Keying
  PROVE  Types'
<1>0. /\ row \in Rows /\ lease \in Leases /\ wait \in BOOLEAN /\ due \in 0..2
      /\ spent \in Spents /\ Capped /\ row.got \subseteq Chunk /\ row.retries \in 0..Cap + 1
      /\ (via = <<>> => wait = FALSE /\ row.got = {}) /\ Cap \in Nat
  BY MailAssumption DEF Types, MailOK, Silent, Rows
<1>1. CASE Key
  BY <1>1, KeyTyped
<1>2. CASE KeyNothing
  <2>1. /\ ~TaskFree /\ (Finished(row.state) \/ lease.plan \subseteq row.got)
        /\ wait' = (wait \/ ~Finished(row.state)) /\ lease' = NoLease
        /\ UNCHANGED <<row, via, due, inbox, auto, gateways, spent>>
    BY <1>2 DEF KeyNothing
  <2>2. ASSUME via = <<>> PROVE Finished(row.state)
    BY <1>0, <2>1, <2>2 DEF TaskFree
  <2>3. wait' \in BOOLEAN /\ (via = <<>> => wait' = FALSE)
    BY <1>0, <2>1, <2>2
  <2>4. Finished(row'.state) \/ row'.retries <= Cap
    BY <1>0, <2>1 DEF Capped
  <2> QED BY <1>0, <2>1, <2>3, <2>4, AutoStays, BurstEnds
<1>3. CASE KeyHeld
  <2>1. /\ ~TaskFree /\ Loses(1) /\ row' = [row EXCEPT !.state = "queued"] /\ wait' = FALSE
        /\ due' = UpToTwo(due + 1) /\ lease' = NoLease /\ UNCHANGED <<via, inbox, auto, gateways>>
    BY <1>3 DEF KeyHeld, HoldSend
  <2>2. row' \in Rows /\ row'.retries <= Cap /\ row'.got = row.got
    BY <1>0, <2>1, StateIs DEF States, Capped
  <2>3. due' \in 0..2 /\ spent' \in Spents
    BY <1>0, <2>1, UpToTwoIs, Spends
  <2> QED BY <1>0, <2>1, <2>2, <2>3, AutoStays, BurstEnds
<1>4. CASE KeyFails
  <2>1. /\ ~TaskFree /\ Fault /\ lease' = NoLease /\ UNCHANGED <<via, inbox, gateways>>
        /\ row.retries <= Cap
    BY <1>0, <1>4 DEF KeyFails, Capped
  <2>2. spent' \in Spents
    BY <1>0, <2>1, Spends
  <2>3. CASE FailMail(row) /\ UNCHANGED <<due, auto>>
    <3>1. /\ row' \in Rows /\ row'.state = "failed" /\ row'.got = row.got /\ wait' = FALSE
      BY <1>0, <2>3, FailIs
    <3> QED BY <1>0, <2>1, <2>2, <2>3, <3>1, AutoStays, BurstEnds DEF Finished
  <2> DEFINE r == [row EXCEPT !.retries = @ + 1, !.state = "queued"]
  <2>4. r \in Rows /\ r.retries = row.retries + 1 /\ r.got = row.got
    BY <1>0, <2>1, OneMore
  <2> HIDE DEF r
  <2>5. CASE r.retries >= Cap /\ GiveUp(r)
    <3>1. /\ row' \in Rows /\ (row'.state = "failed" \/ row'.retries = 0)
          /\ row'.got \in {row.got, {}} /\ wait' = FALSE /\ due' \in 0..2 /\ AutoOK'
      BY <2>4, <2>5, GiveUpIs
    <3>2. Finished(row'.state) \/ row'.retries <= Cap
      BY <1>0, <3>1 DEF Finished
    <3>3. via = <<>> => wait' = FALSE /\ row'.got = {}
      BY <1>0, <3>1
    <3> QED BY <2>1, <2>2, <3>1, <3>2, <3>3, BurstEnds
  <2>6. CASE ~(r.retries >= Cap) /\ row' = r /\ wait' = FALSE /\ due' = UpToTwo(due + 1)
             /\ UNCHANGED auto
    <3>1. row' \in Rows /\ row'.retries <= Cap /\ due' \in 0..2
      BY <1>0, <2>4, <2>6, UpToTwoIs
    <3> QED BY <1>0, <2>1, <2>2, <2>4, <2>6, <3>1, AutoStays, BurstEnds
  <2> QED BY <1>4, <2>3, <2>5, <2>6 DEF KeyFails, r
<1> QED BY <1>1, <1>2, <1>3, <1>4 DEF Keying

LEMMA WaitTyped ==
  ASSUME Types, AckWait
  PROVE  Types'
<1>0. /\ row \in Rows /\ lease \in Leases /\ due \in 0..2 /\ via \in Lists
      /\ spent \in Spents /\ Capped /\ Leased /\ row.retries \in 0..Cap + 1
      /\ (via = <<>> => wait = FALSE /\ row.got = {}) /\ Cap \in Nat
  BY MailAssumption DEF Types, MailOK, Silent, Rows
<1>1. /\ TaskFree /\ wait /\ UNCHANGED <<via, inbox, gateways>>
      /\ UNCHANGED spent \/ Loses(1)
  BY DEF AckWait
<1>2. spent' \in Spents
  BY <1>0, <1>1, Spends
<1>3. via # <<>> /\ via[Len(via)] \in Gateway
  BY <1>0, <1>1, LastOf
<1>4. ASSUME row' \in Rows, lease' \in Leases, Leased', wait' = FALSE, due' \in 0..2,
             Capped', AutoOK'
      PROVE  Types'
  <2>1. AirOK' /\ Silent' /\ via' \in Lists
    BY <1>1, <1>3, <1>4, StillSilent DEF gateways
  <2> QED BY <1>2, <1>4, <2>1 DEF Types, MailOK
<1>5. ASSUME UNCHANGED lease, row' \in Rows, wait' = FALSE, due' \in 0..2, AutoOK',
             Finished(row'.state) \/ row'.retries <= Cap
      PROVE  Types'
  BY <1>0, <1>1, <1>4, <1>5 DEF Leased, TaskFree, Capped
<1>6. CASE wait' = FALSE /\ UNCHANGED <<row, lease, due, auto>>
  BY <1>0, <1>5, <1>6, AutoStays DEF Capped
<1>7. CASE FailMail(row) /\ UNCHANGED <<lease, due, auto>>
  BY <1>0, <1>5, <1>7, FailIs, AutoStays DEF Finished
<1>8. CASE GiveUp(row) /\ UNCHANGED lease
  <2>1. /\ row' \in Rows /\ (row'.state = "failed" \/ row'.retries = 0)
        /\ wait' = FALSE /\ due' \in 0..2 /\ AutoOK'
    BY <1>0, <1>8, GiveUpIs
  <2>2. Finished(row'.state) \/ row'.retries <= Cap
    BY <1>0, <2>1 DEF Finished
  <2> QED BY <1>5, <1>8, <2>1, <2>2
<1> DEFINE r == [row EXCEPT !.retries = @ + 1, !.state = "queued"]
<1>9. CASE /\ row.retries < Cap /\ RfSend(r, via[Len(via)]) /\ wait' = FALSE
           /\ UNCHANGED <<due, auto>>
  <2>1. r \in Rows /\ r.retries = row.retries + 1
    <3>1. row.retries <= Cap
      BY <1>0, <1>9
    <3> QED BY <1>0, <3>1, OneMore
  <2> HIDE DEF r
  <2>2. row' \in Rows /\ row'.retries <= Cap /\ lease' \in Leases /\ Leased'
    BY <1>0, <1>3, <1>9, <2>1, RfSendIs
  <2> QED BY <1>0, <1>4, <1>9, <2>2, AutoStays DEF Capped
<1> QED BY <1>6, <1>7, <1>8, <1>9 DEF AckWait

LEMMA AnswersTyped ==
  ASSUME Types, Answered
  PROVE  Types'
<1>0. /\ row \in Rows /\ lease \in Leases /\ wait \in BOOLEAN /\ due \in 0..2
      /\ pick \in Picks /\ InUse(pick) /\ ask \in AskForms /\ reasked \in BOOLEAN
      /\ tried \subseteq Gateway /\ spent \in Spents /\ Capped /\ via \in Lists
      /\ inbox \in Seq(Answer) /\ (via = <<>> => inbox = <<>>)
      /\ gate \in [Gateway -> Gates] /\ relay \subseteq Gateway
  BY DEF Types, MailOK, AutoOK, AirOK, Silent
<1>1. /\ TaskFree /\ inbox # <<>> /\ inbox' = Tail(inbox)
      /\ UNCHANGED <<via, due, lease, pick, ask, reasked, gate, relay, spent>>
  BY DEF Answered, AcceptMail, RejectMail, HaveReport, AnswerOf, gateways
<1>2. inbox' \in Seq(Answer) /\ Head(inbox) \in Answer
  BY <1>0, <1>1, HeadTailProperties
<1>3. AirOK' /\ Silent' /\ via' \in Lists
  BY <1>0, <1>1, <1>2 DEF AirOK, Silent
<1>4. ASSUME row' \in Rows, Finished(row'.state) \/ row'.retries <= Cap, wait' \in BOOLEAN,
             tried' \subseteq Gateway
      PROVE  Types'
  <2>1. Capped' /\ Leased'
    BY <1>1, <1>4 DEF Capped, Leased, TaskFree
  <2>2. AutoOK'
    BY <1>0, <1>1, <1>4 DEF AutoOK, InUse
  <2> QED BY <1>0, <1>1, <1>3, <1>4, <2>1, <2>2 DEF Types, MailOK
<1>5. CASE AcceptMail
  <2>1. row' = [row EXCEPT !.state = "sent"] /\ wait' = FALSE /\ tried' = {}
    BY <1>5 DEF AcceptMail
  <2>2. row' \in Rows /\ Finished(row'.state)
    BY <1>0, <2>1, StateIs DEF States, Finished
  <2> QED BY <1>4, <2>1, <2>2
<1>6. CASE RejectMail
  <2>1. FailMail(row) /\ tried' = tried
    BY <1>6 DEF RejectMail
  <2> QED BY <1>0, <1>4, <2>1, FailIs DEF Finished
<1>7. CASE HaveReport
  <2> DEFINE got == row.got \cup Head(inbox).bits
             all == row.sized /\ got = Chunk
             state == IF all /\ ~Finished(row.state) THEN "gateway" ELSE row.state
  <2>1. /\ tried' = tried
        /\ row' = [row EXCEPT !.got = got, !.state = state]
    BY <1>7 DEF HaveReport, AtGateway
  <2>2. wait' \in BOOLEAN
    BY <1>0, <1>7 DEF HaveReport
  <2>3. got \in SUBSET Chunk /\ state \in States
    BY <1>0, <1>2 DEF Rows, Answer, States
  <2>4. Finished(row.state) <=> Finished(state)
    BY DEF Finished
  <2> HIDE DEF got, state
  <2>5. row' \in Rows /\ row'.retries = row.retries /\ row'.state = state
    BY <1>0, <2>1, <2>3 DEF Rows, States
  <2> QED BY <1>0, <1>4, <2>1, <2>2, <2>4, <2>5 DEF Capped
<1> QED BY <1>5, <1>6, <1>7 DEF Answered

\* The asks leave the burst, the inbox and the gateways alone.
LEMMA AsksLeave ==
  ASSUME Types, row' \in Rows, Finished(row'.state) \/ row' = row, row'.got = row.got,
         wait' = FALSE \/ wait' = wait, due' \in 0..2, spent' \in Spents, AutoOK', TaskFree,
         UNCHANGED <<via, lease, inbox, gateways>>
  PROVE  Types'
<1>0. /\ lease \in Leases /\ wait \in BOOLEAN /\ Capped /\ Leased
      /\ (via = <<>> => wait = FALSE /\ row.got = {})
  BY DEF Types, MailOK, Silent
<1>1. AirOK' /\ Silent' /\ via' \in Lists
  BY <1>0, StillSilent DEF gateways
<1>2. Capped' /\ Leased'
  BY <1>0 DEF Capped, Leased, TaskFree
<1> QED BY <1>0, <1>1, <1>2 DEF Types, MailOK

LEMMA AsksTyped ==
  ASSUME Types, StartAsk \/ AskDone
  PROVE  Types'
<1>0. /\ row \in Rows /\ due \in 0..2 /\ pick \in Picks /\ InUse(pick) /\ ask \in AskForms
      /\ reasked \in BOOLEAN /\ tried \subseteq Gateway /\ spent \in Spents
  BY DEF Types, MailOK, AutoOK
<1>1. TaskFree /\ UNCHANGED <<via, lease, inbox, tried, reasked, gateways>>
  BY DEF StartAsk, AskDone, FreeToAsk
<1>2. CASE StartAsk
  <2>1. due' = due /\ spent' \in Spents
    BY <1>0, <1>2, Spends DEF StartAsk
  <2>2. pick' \in Picks /\ InUse(pick') /\ ask' \in AskForms
    <3>1. CASE pick' = [pick EXCEPT !.state = "asking"] /\ ask' = [ask EXCEPT !.cmd = 0]
      BY <1>0, <3>1 DEF Picks, InUse, AskForms
    <3>2. CASE pick' = pick /\ ask' = [ask EXCEPT !.after = 0]
      BY <1>0, <3>2 DEF AskForms
    <3>3. CASE pick' = pick /\ ask.cmd > 0 /\ ask' = [cmd |-> ask.cmd - 1, after |-> 0]
      BY <1>0, <3>3 DEF AskForms
    <3> QED BY <1>2, <3>1, <3>2, <3>3 DEF StartAsk
  <2>3. AutoOK'
    BY <1>0, <1>1, <2>2 DEF AutoOK
  <2>4. CASE UNCHANGED <<row, wait>>
    BY <1>0, <1>1, <2>1, <2>3, <2>4, AsksLeave
  <2>5. CASE FailMail(row)
    BY <1>0, <1>1, <2>1, <2>3, <2>5, FailIs, AsksLeave DEF Finished
  <2> QED BY <1>2, <2>4, <2>5 DEF StartAsk
<1>3. CASE AskDone
  <2>1. PICK list \in Lists :
          /\ Loses(Cardinality(Gateway) - Len(list))
          /\ pick' = [state |-> IF list = <<>> THEN "none" ELSE "picked",
                      list |-> list, at |-> 1, stale |-> "no"]
          /\ ask' = [ask EXCEPT !.after = 0]
          /\ IF list # <<>> THEN due' = UpToTwo(due + ask.after) /\ UNCHANGED <<row, wait>>
             ELSE IF ask.after > 0 THEN FailMail(row) /\ UNCHANGED due
             ELSE UNCHANGED <<row, wait, due>>
    BY <1>3 DEF AskDone
  <2>2. list \in Seq(Gateway) /\ Len(list) <= Cardinality(Gateway) /\ DOMAIN list = 1..Len(list)
    BY ListsAre
  <2>3. Cardinality(Gateway) - Len(list) \in Nat
    BY <2>2, Counted
  <2>4. spent' \in Spents
    BY <1>0, <2>1, <2>3, Spends
  <2>5. pick' \in Picks
    BY <2>1 DEF Picks
  <2>6. InUse(pick')
    BY <2>1, <2>2, EmptySeq DEF InUse
  <2>7. ask' \in AskForms
    BY <1>0, <2>1 DEF AskForms
  <2>8. AutoOK'
    BY <1>0, <1>1, <2>5, <2>6, <2>7 DEF AutoOK
  <2>9. due' \in 0..2
    <3>1. due + ask.after \in Nat
      BY <1>0 DEF AskForms
    <3> QED BY <1>0, <2>1, <3>1, UpToTwoIs
  <2>10. CASE UNCHANGED <<row, wait>>
    BY <1>0, <1>1, <2>4, <2>8, <2>9, <2>10, AsksLeave
  <2>11. CASE FailMail(row)
    BY <1>0, <1>1, <2>4, <2>8, <2>9, <2>11, FailIs, AsksLeave DEF Finished
  <2> QED BY <2>1, <2>10, <2>11
<1> QED BY <1>2, <1>3

LEMMA ClockTyped ==
  ASSUME Types, PickAges \/ Retry \/ Restart
  PROVE  Types'
<1>0. /\ row \in Rows /\ lease \in Leases /\ wait \in BOOLEAN /\ due \in 0..2
      /\ pick \in Picks /\ InUse(pick) /\ ask \in AskForms /\ reasked \in BOOLEAN
      /\ tried \subseteq Gateway /\ spent \in Spents /\ Capped /\ Leased /\ Cap \in Nat
      /\ (via = <<>> => wait = FALSE /\ row.got = {})
  BY MailAssumption DEF Types, MailOK, AutoOK, Silent
<1>1. CASE PickAges
  <2>1. /\ pick' \in {[pick EXCEPT !.stale = "old"], [pick EXCEPT !.stale = "band"]} /\ Fault
        /\ UNCHANGED <<row, via, wait, due, lease, inbox, ask, tried, reasked, gateways>>
    BY <1>1 DEF PickAges
  <2>2. pick' \in Picks /\ InUse(pick')
    BY <1>0, <2>1 DEF Picks, InUse
  <2>3. AutoOK' /\ spent' \in Spents
    BY <1>0, <2>1, <2>2, Spends DEF AutoOK
  <2>4. AirOK' /\ Silent' /\ via' \in Lists
    BY <1>0, <2>1, StillSilent DEF gateways
  <2>5. MailOK' /\ Capped' /\ Leased'
    BY <1>0, <2>1 DEF MailOK, Capped, Leased, TaskFree
  <2> QED BY <2>3, <2>4, <2>5 DEF Types
<1>2. CASE Retry
  <2>1. /\ row' = [row EXCEPT !.state = "queued", !.retries = 0] /\ due' = UpToTwo(due + 1)
        /\ spent.byHand < MaxByHand /\ spent' = [spent EXCEPT !.byHand = @ + 1]
        /\ UNCHANGED <<via, wait, lease, inbox, auto, gateways>>
    BY <1>2 DEF Retry
  <2>2. row' \in Rows /\ row'.retries = 0 /\ row'.got = row.got
    <3>1. 0 \in 0..Cap + 1
      BY <1>0
    <3>2. row = [state |-> row.state, retries |-> row.retries, got |-> row.got,
                 sized |-> row.sized]
      BY <1>0 DEF Rows
    <3>3. row' = [state |-> "queued", retries |-> 0, got |-> row.got, sized |-> row.sized]
      BY <2>1, <3>2
    <3> QED BY <1>0, <3>1, <3>3 DEF Rows
  <2>3. due' \in 0..2 /\ spent' \in Spents
    BY <1>0, <2>1, UpToTwoIs, MailAssumption DEF Spents
  <2>4. AirOK' /\ Silent' /\ via' \in Lists
    BY <1>0, <2>1, <2>2, StillSilent DEF gateways
  <2>5. MailOK' /\ Capped' /\ Leased'
    BY <1>0, <2>1, <2>2, <2>3 DEF MailOK, Capped, Leased, TaskFree
  <2> QED BY <2>1, <2>3, <2>4, <2>5, AutoStays DEF Types
<1>3. CASE Restart
  <2>1. /\ Fault /\ row' = FailUnfinished(row) /\ wait' = FALSE /\ due' = 0 /\ lease' = NoLease
        /\ inbox' = <<>> /\ pick' = NoPick /\ ask' = NoAsk /\ tried' = {} /\ reasked' = FALSE
        /\ UNCHANGED <<via, gate, relay>>
    BY <1>3 DEF Restart, gateways
  <2>2. row' \in Rows /\ Finished(row'.state) /\ row'.got = row.got
    BY <1>0, <2>1, StateIs DEF FailUnfinished, Finished, States
  <2>3. lease' \in Leases /\ Leased' /\ (TaskFree)'
    BY <2>1, NoLeaseIs
  <2>4. MailOK' /\ Capped'
    <3>1. wait' \in BOOLEAN
      BY <2>1
    <3>2. due' \in 0..2
      BY <2>1
    <3>3. MailOK'
      BY <2>2, <2>3, <3>1, <3>2 DEF MailOK
    <3> QED BY <2>2, <2>3, <3>3 DEF Capped
  <2>5. AutoOK'
    <3>1. NoPick \in Picks /\ InUse(NoPick)
      BY NoList DEF NoPick, Picks, InUse
    <3>2. NoAsk \in AskForms
      BY DEF NoAsk, AskForms
    <3> QED BY <2>1, <3>1, <3>2 DEF AutoOK
  <2>6. AirOK' /\ Silent' /\ via' \in Lists
    <3>1. inbox' \in Seq(Answer)
      BY <2>1, EmptySeq
    <3>2. /\ gate \in [Gateway -> Gates] /\ relay \subseteq Gateway /\ via \in Lists
          /\ (via = <<>> => \A g \in Gateway : gate[g] = EmptyGate)
      BY DEF Types, AirOK, Silent
    <3> QED BY <1>0, <2>1, <2>2, <3>1, <3>2 DEF AirOK, Silent
  <2> QED BY <1>0, <2>1, <2>3, <2>4, <2>5, <2>6, Spends DEF Types
<1> QED BY <1>1, <1>2, <1>3

-----------------------------------------------------------------------------
\* The gateways.
At == {"idle", "ok", "fail", "have"} \cup Posting

LEMMA GateIs ==
  ASSUME NEW b \in Gates
  PROVE  /\ b = [heard |-> b.heard, bucket |-> b.bucket, dest |-> b.dest, knows |-> b.knows,
                 ready |-> b.ready, quiet |-> b.quiet, reack |-> b.reack, at |-> b.at]
         /\ b.heard \in Seq(Burst) /\ b.bucket \in SUBSET Chunk /\ b.bucket # Chunk
         /\ b.dest \in Gateway \cup {AutoGw} /\ b.knows \in BOOLEAN
         /\ b.ready \in Gateway \cup {AutoGw} /\ b.quiet \in BOOLEAN /\ b.reack \in BOOLEAN
         /\ b.at \in At
<1>1. b = [heard |-> b.heard, bucket |-> b.bucket, dest |-> b.dest, knows |-> b.knows,
           ready |-> b.ready, quiet |-> b.quiet, reack |-> b.reack, at |-> b.at]
  BY DEF Gates
<1>2. b.heard \in Seq(Burst) /\ b.bucket \in (SUBSET Chunk) \ {Chunk} /\ b.at \in At
  BY DEF Gates, At
<1>3. /\ b.dest \in Gateway \cup {AutoGw} /\ b.knows \in BOOLEAN
      /\ b.ready \in Gateway \cup {AutoGw} /\ b.quiet \in BOOLEAN /\ b.reack \in BOOLEAN
  BY DEF Gates
<1> QED BY <1>1, <1>2, <1>3

LEMMA NoneOfIt == {} \in SUBSET Chunk /\ {} # Chunk /\ 0 \in Chunk
BY MailAssumption DEF Chunk

LEMMA EmptyGateIs == EmptyGate \in Gates
<1>1. <<>> \in Seq(Burst)
  BY EmptySeq
<1> QED BY <1>1, NoneOfIt DEF EmptyGate, Gates

LEMMA AtIs ==
  ASSUME NEW b \in Gates, NEW to \in At
  PROVE  [b EXCEPT !.at = to] \in Gates
BY DEF Gates, At

\* One gateway's slot has a new content; somebody had keyed to it before.
LEMMA SlotTyped ==
  ASSUME Types, NEW g \in Gateway, NEW b \in Gates, gate' = [gate EXCEPT ![g] = b],
         gate[g] # EmptyGate, relay' \subseteq Gateway, spent' \in Spents, UNCHANGED station
  PROVE  Types'
<1>1. via # <<>>
  BY DEF Types, Silent
<1>2. AirOK'
  BY DEF Types, AirOK, station
<1>3. AutoOK'
  BY AutoStays DEF station
<1>4. Silent' /\ via' \in Lists
  BY <1>1 DEF Types, Silent, station
<1>5. MailOK' /\ Capped' /\ Leased'
  BY DEF Types, MailOK, Capped, Leased, TaskFree, station
<1> QED BY <1>2, <1>3, <1>4, <1>5 DEF Types

LEMMA AtTyped ==
  ASSUME Types, NEW g \in Gateway, NEW to \in At, gate' = [gate EXCEPT ![g].at = to],
         gate[g].at # "idle", relay' \subseteq Gateway, spent' \in Spents, UNCHANGED station
  PROVE  Types'
<1>1. gate[g] \in Gates /\ gate[g] # EmptyGate
  BY DEF Types, AirOK, EmptyGate
<1> DEFINE b == [gate[g] EXCEPT !.at = to]
<1>2. b \in Gates /\ gate' = [gate EXCEPT ![g] = b]
  BY <1>1, AtIs
<1> HIDE DEF b
<1> QED BY <1>1, <1>2, SlotTyped

LEMMA BucketIs ==
  ASSUME NEW b \in Gates, NEW S \in SUBSET Chunk, S # Chunk, NEW r \in Gateway \cup {AutoGw}
  PROVE  [b EXCEPT !.bucket = S] \in Gates /\ [b EXCEPT !.bucket = S, !.ready = r] \in Gates
<1>1. S \in (SUBSET Chunk) \ {Chunk}
  OBVIOUS
<1>2. [b EXCEPT !.bucket = S] \in Gates
  BY <1>1 DEF Gates
<1>3. [b EXCEPT !.bucket = S, !.ready = r] \in Gates
  BY <1>1 DEF Gates
<1> QED BY <1>2, <1>3

\* A set that completes is cleared up to its last chunk, so what stays is not one.
LEMMA CollectTyped ==
  ASSUME NEW b \in Gates, NEW burst \in Burst
  PROVE  Collect(b, burst) \in Gates
<1> DEFINE have == b.bucket \cup burst.plan
           dest == IF 0 \in burst.plan \ b.bucket THEN burst.gw ELSE b.dest
           ends == {i \in burst.plan : Chunk \subseteq b.bucket \cup {j \in burst.plan : j <= i}}
           left == SlotCleared(b.bucket, burst.plan, First(ends))
           knows == b.knows \/ 0 \in burst.plan
           ready == IF b.ready = AutoGw THEN dest ELSE b.ready
           knew == [b EXCEPT !.knows = knows, !.quiet = TRUE, !.dest = dest]
<1>1. burst.gw \in Gateway /\ burst.plan \in SUBSET Chunk
  BY DEF Burst
<1>2. /\ dest \in Gateway \cup {AutoGw} /\ knows \in BOOLEAN
      /\ ready \in Gateway \cup {AutoGw} /\ have \in SUBSET Chunk
  BY <1>1, GateIs
<1>3. ASSUME have = Chunk PROVE left \in SUBSET Chunk /\ left # Chunk
  <2>1. burst.plan # {} /\ Chunk \subseteq Nat
    <3>1. Chunk \subseteq Nat
      BY MailAssumption DEF Chunk
    <3>2. b.bucket # Chunk
      BY GateIs
    <3> QED BY <1>1, <1>3, <3>1, <3>2
  <2>2. PICK m \in burst.plan : \A k \in burst.plan : k <= m
    BY <1>1, <2>1, Greatest
  <2>3. {j \in burst.plan : j <= m} = burst.plan
    BY <2>2
  <2>4. m \in ends
    BY <1>3, <2>2, <2>3
  <2>5. ends \in SUBSET Nat /\ ends \subseteq burst.plan
    BY <1>1, <2>1
  <2>6. First(ends) \in ends
    <3> HIDE DEF ends
    <3> QED BY <2>4, <2>5, FirstIs
  <2> DEFINE f == First(ends)
  <2>7. f \in Chunk /\ f \in Nat
    BY <1>1, <2>1, <2>5, <2>6
  <2> HIDE DEF f, ends
  <2>8. left = {i \in burst.plan : i > f}
    BY DEF SlotCleared, f
  <2>9. f \notin left
    BY <2>7, <2>8
  <2> QED BY <1>1, <2>7, <2>8, <2>9
<1>4. Collect(b, burst) = IF have # Chunk THEN [knew EXCEPT !.bucket = have]
                          ELSE [knew EXCEPT !.bucket = left, !.ready = ready]
  <2>1. knew.ready = b.ready
    BY GateIs
  <2> QED BY <2>1 DEF Collect
<1> HIDE DEF have, dest, ends, left, knows, ready
<1>5. knew \in Gates
  BY <1>2 DEF Gates
<1> HIDE DEF knew
<1>6. CASE have # Chunk
  BY <1>2, <1>4, <1>5, <1>6, BucketIs
<1>7. CASE have = Chunk
  BY <1>2, <1>3, <1>4, <1>5, <1>7, BucketIs
<1> QED BY <1>6, <1>7

LEMMA HearTyped ==
  ASSUME Types, NEW g \in Gateway, Hear(g)
  PROVE  Types'
<1>1. gate[g] \in Gates /\ gate[g].heard # <<>> /\ relay \subseteq Gateway /\ spent \in Spents
  BY DEF Types, AirOK, Hear
<1>2. /\ gate[g] # EmptyGate /\ gate[g].heard \in Seq(Burst)
      /\ Tail(gate[g].heard) \in Seq(Burst) /\ Head(gate[g].heard) \in Burst
  BY <1>1, GateIs, HeadTailProperties DEF EmptyGate
<1> DEFINE b == [gate[g] EXCEPT !.heard = Tail(@)]
           c == IF AcceptedOrigin(g) THEN [b EXCEPT !.bucket = {}, !.reack = TRUE, !.quiet = TRUE]
                ELSE Collect(b, Head(gate[g].heard))
<1>3. gate' = [gate EXCEPT ![g] = c] /\ UNCHANGED <<station, relay, spent>>
  BY DEF Hear
<1>4. b \in Gates
  BY <1>1, <1>2 DEF Gates
<1> HIDE DEF b
<1>5. [b EXCEPT !.bucket = {}, !.reack = TRUE, !.quiet = TRUE] \in Gates
  BY <1>4, NoneOfIt DEF Gates
<1>6. c \in Gates
  BY <1>2, <1>4, <1>5, CollectTyped
<1> HIDE DEF c
<1> QED BY <1>1, <1>2, <1>3, <1>6, SlotTyped

LEMMA QuietTyped ==
  ASSUME Types, NEW g \in Gateway, OnQuiet(g)
  PROVE  Types'
<1>1. gate[g] \in Gates /\ gate[g].quiet /\ relay \subseteq Gateway /\ spent \in Spents
  BY DEF Types, AirOK, OnQuiet
<1>2. gate[g] # EmptyGate
  BY <1>1 DEF EmptyGate
<1> DEFINE b == [gate[g] EXCEPT !.quiet = FALSE, !.ready = AutoGw, !.reack = FALSE]
           to == IF gate[g].ready # AutoGw
                 THEN IF ~ForUs(g) THEN "idle" ELSE IF g \in relay THEN "ok" ELSE "post"
                 ELSE IF gate[g].reack THEN "ok"
                 ELSE IF gate[g].bucket # {} /\ gate[g].knows THEN "have" ELSE "idle"
           c == [b EXCEPT !.at = to]
<1>3. gate' = [gate EXCEPT ![g] = c] /\ UNCHANGED <<station, relay, spent>>
  BY DEF OnQuiet
<1>4. b \in Gates
  BY <1>1 DEF Gates
<1>5. to \in At
  BY DEF At, Posting
<1> HIDE DEF b, to
<1>6. c \in Gates
  BY <1>4, <1>5, AtIs
<1> HIDE DEF c
<1> QED BY <1>1, <1>2, <1>3, <1>6, SlotTyped

LEMMA GatewayTyped ==
  ASSUME Types, NEW g \in Gateway, AtTheGateway(g) \/ PostFails(g) \/ RestartGateway(g)
  PROVE  Types'
<1>1. CASE Hear(g) \/ OnQuiet(g)
  BY <1>1, HearTyped, QuietTyped
<1>0. relay \subseteq Gateway /\ spent \in Spents
  BY DEF Types, AirOK
<1>2. ASSUME NEW from, NEW to \in At, GateStep(g, from, to), from # "idle",
             relay' \subseteq Gateway, UNCHANGED <<station, spent>>
      PROVE  Types'
  BY <1>0, <1>2, AtTyped DEF GateStep
<1>3. CASE HubChecks(g)
  BY <1>0, <1>2, <1>3 DEF HubChecks, At, Posting
<1>4. CASE ResendTakes(g)
  BY <1>0, <1>2, <1>4 DEF ResendTakes, At, Posting
<1>5. CASE HubRecords(g)
  BY <1>0, <1>2, <1>5 DEF HubRecords, At, Posting
<1>6. CASE Accepted(g)
  BY <1>0, <1>2, <1>6 DEF Accepted, At, Posting
<1>7. CASE PostFails(g)
  <2>1. /\ gate[g].at # "idle" /\ gate' = [gate EXCEPT ![g].at = "fail"]
        /\ UNCHANGED <<station, relay>> /\ Fault
    BY <1>7 DEF PostFails, Posting
  <2>2. spent' \in Spents /\ "fail" \in At
    BY <1>0, <2>1, Spends DEF At
  <2> QED BY <1>0, <2>1, <2>2, AtTyped
<1>8. CASE RestartGateway(g)
  <2>1. /\ gate[g] # EmptyGate /\ gate' = [gate EXCEPT ![g] = EmptyGate]
        /\ UNCHANGED <<station, relay>> /\ Fault
    BY <1>8 DEF RestartGateway
  <2> QED BY <1>0, <2>1, Spends, EmptyGateIs, SlotTyped
<1> QED BY <1>1, <1>3, <1>4, <1>5, <1>6, <1>7, <1>8 DEF AtTheGateway

LEMMA ReplyTyped ==
  ASSUME Types, NEW g \in Gateway, Reply(g)
  PROVE  Types'
<1>0. /\ row \in Rows /\ gate \in [Gateway -> Gates] /\ gate[g] \in Gates
      /\ inbox \in Seq(Answer) /\ relay \subseteq Gateway /\ spent \in Spents /\ Capped
      /\ via \in Lists
  BY DEF Types, MailOK, AirOK
<1> DEFINE a == [kind |-> gate[g].at,
                 bits |-> IF gate[g].at = "have" THEN gate[g].bucket ELSE {},
                 during |-> ~TaskFree]
<1>1. /\ gate[g].at \in {"ok", "fail", "have"} /\ gate' = [gate EXCEPT ![g].at = "idle"]
      /\ UNCHANGED <<via, wait, due, lease, auto, relay>>
      /\ \/ row' = Noted(a) /\ inbox' = Append(inbox, a) /\ UNCHANGED spent
         \/ Loses(1) /\ UNCHANGED <<row, inbox>>
  BY DEF Reply
<1>2. via # <<>>
  <2>1. gate[g] # EmptyGate
    BY <1>1 DEF EmptyGate
  <2> QED BY <2>1 DEF Types, Silent
<1>3. a \in Answer
  BY <1>0, <1>1, GateIs DEF Answer
<1>4. a.bits \subseteq Chunk
  BY <1>3 DEF Answer
<1> HIDE DEF a
<1>5. Noted(a) \in Rows /\ Noted(a).retries = row.retries
      /\ (~Finished(Noted(a).state) => ~Finished(row.state))
  <2>1. CASE Noted(a) = [row EXCEPT !.got = row.got \cup a.bits]
    BY <1>0, <1>4, <2>1 DEF Rows
  <2>2. CASE Noted(a) = [row EXCEPT !.state = "sent"]
    <3>1. /\ Noted(a) \in Rows /\ Noted(a).state = "sent" /\ Noted(a).retries = row.retries
      <4>1. "sent" \in States
        BY DEF States
      <4> QED BY <1>0, <2>2, <4>1, StateIs
    <3>2. Finished(Noted(a).state)
      BY <3>1 DEF Finished
    <3> QED BY <3>1, <3>2
  <2>3. CASE Noted(a) = row
    BY <1>0, <2>3
  <2> QED BY <2>1, <2>2, <2>3 DEF Noted
<1>6. /\ row' \in Rows /\ row'.retries = row.retries
      /\ (~Finished(row'.state) => ~Finished(row.state))
      /\ inbox' \in Seq(Answer) /\ spent' \in Spents
  <2>1. CASE row' = Noted(a) /\ inbox' = Append(inbox, a) /\ UNCHANGED spent
    BY <1>0, <1>3, <1>5, <2>1, AppendProperties
  <2>2. CASE Loses(1) /\ UNCHANGED <<row, inbox>>
    BY <1>0, <2>2, Spends
  <2> QED BY <1>1, <2>1, <2>2
<1>7. gate' \in [Gateway -> Gates]
  <2>1. [gate[g] EXCEPT !.at = "idle"] \in Gates
    BY <1>0, AtIs DEF At
  <2> QED BY <1>0, <1>1, <2>1
<1>8. AirOK' /\ Silent' /\ via' \in Lists
  BY <1>0, <1>1, <1>2, <1>6, <1>7 DEF AirOK, Silent
<1>9. MailOK' /\ Capped' /\ Leased'
  BY <1>1, <1>6 DEF Types, MailOK, Capped, Leased, TaskFree
<1> QED BY <1>1, <1>6, <1>8, <1>9, AutoStays DEF Types

-----------------------------------------------------------------------------
LEMMA InitTyped ==
  ASSUME Init
  PROVE  Types
<1>1. MailOK /\ Capped /\ Leased
  <2>1. row \in Rows /\ row.retries = 0
    BY MailAssumption DEF Init, Rows
  <2>2. lease \in Leases /\ TaskFree
    BY DEF Init, Leases, NoLease, TaskFree
  <2>3. wait \in BOOLEAN
    BY DEF Init
  <2>4. due \in 0..2
    BY DEF Init
  <2>5. 0 <= Cap
    BY MailAssumption
  <2> QED BY <2>1, <2>2, <2>3, <2>4, <2>5 DEF MailOK, Capped, Leased
<1>2. AutoOK
  <2>1. NoPick \in Picks /\ InUse(NoPick)
    BY NoList DEF NoPick, Picks, InUse
  <2>2. NoAsk \in AskForms
    BY DEF NoAsk, AskForms
  <2> QED BY <2>1, <2>2 DEF Init, AutoOK
<1>3. AirOK /\ Silent
  <2>1. inbox \in Seq(Answer)
    BY EmptySeq DEF Init
  <2> QED BY <2>1, EmptyGateIs DEF Init, AirOK, Silent
<1>4. via \in Lists /\ spent \in Spents
  BY MailAssumption, NoList DEF Init, Spents
<1> QED BY <1>1, <1>2, <1>3, <1>4 DEF Types

LEMMA StepTyped ==
  ASSUME Types, [Next]_vars
  PROVE  Types'
<1>1. CASE UNCHANGED vars
  BY <1>1 DEF vars, station, gateways, auto, Types, MailOK, AutoOK, AirOK, InUse, Capped, Leased,
     TaskFree, Silent
<1>2. CASE Sending \/ Keying \/ Answered \/ AckWait
  BY <1>2, SendsTyped, KeyingTyped, AnswersTyped, WaitTyped
<1>3. CASE StartAsk \/ AskDone \/ PickAges \/ Retry \/ Restart
  BY <1>3, AsksTyped, ClockTyped
<1>4. ASSUME NEW g \in Gateway,
             AtTheGateway(g) \/ Reply(g) \/ PostFails(g) \/ RestartGateway(g)
      PROVE  Types'
  BY <1>4, GatewayTyped, ReplyTyped
<1> QED BY <1>1, <1>2, <1>3, <1>4 DEF Next

\* Every value stays within its type: via names no gateway twice and is never
\* looked into when empty (the retry and give_up take its last), the place in
\* Auto's list is one of the list, a mail is tried at most once beyond the cap,
\* and no gateway keeps a slot with every chunk in it.
THEOREM MailTypes == Spec => []TypeOK
<1>1. Types /\ Shapes => TypeOK
  BY DEF Types, MailOK, AutoOK, AirOK, InUse, Shapes, Rows, Leases, Picks, AskForms, Gates, Spents,
     TypeOK
<1> QED BY <1>1, InitTyped, StepTyped, Held, PTL DEF Spec, IInv
=============================================================================
