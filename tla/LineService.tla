---------------------------- MODULE LineService ----------------------------
(***************************************************************************)
(* What the network promises the sender of one line, whatever is lost, and *)
(* however often stations restart: the line spreads from station to        *)
(* station, the sender's mark only moves forward, and a mark that claims   *)
(* delivery is true.                                                       *)
(***************************************************************************)
EXTENDS Delivery

CONSTANTS Node, Origin, Dest, Members, Nbr, LineKind

VARIABLES
  mark,     \* the sender's mark, "none" before the line is sent
  holders   \* the stations that have the line

Init == mark = "none" /\ holders = {}

Send == mark = "none" /\ mark' = "sent" /\ holders' = {Origin}

\* Another station takes the line from one that can be heard there.
Spread(s) ==
  /\ s \notin holders
  /\ \E r \in holders : s \in Nbr[r]
  /\ holders' = holders \cup {s}
  /\ UNCHANGED mark

\* What must be so for the sender to show a mark.
Earned(m) ==
  CASE m = "relayed"   -> holders # {Origin}
    [] m = "delivered" -> IF LineKind = "direct" THEN Dest \in holders
                                                 ELSE holders # {Origin}
    [] m = "all"       -> LineKind = "closed" /\ Members \subseteq holders
    [] m = "failed"    -> TRUE
    [] OTHER           -> FALSE

Show(m) ==
  /\ mark # "none" /\ Advances(mark, m) /\ Earned(m)
  /\ mark' = m
  /\ UNCHANGED holders

Next == Send \/ (\E s \in Node : Spread(s)) \/ (\E m \in Mark : Show(m))

Spec == Init /\ [][Next]_<<mark, holders>>
=============================================================================
