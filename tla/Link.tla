-------------------------------- MODULE Link --------------------------------
(***************************************************************************)
(* What a communication manager promises the application whose frames come *)
(* back to it over a line that neither loses nor alters bytes: messages    *)
(* accepted for sending are delivered in the order they were accepted,     *)
(* once each, unless the transport has refused one (TX_FAIL).              *)
(***************************************************************************)
EXTENDS Integers, Sequences

CONSTANT Message

VARIABLES
  pending,    \* accepted, neither delivered nor refused, oldest first
  delivered   \* handed to the application, oldest first

Init ==
  /\ pending = << >>
  /\ delivered = << >>

Accept ==
  /\ \E m \in Message : pending' = Append(pending, m)
  /\ UNCHANGED delivered

Refuse ==
  /\ \E k \in 1 .. Len(pending) :
       pending' = SubSeq(pending, 1, k - 1) \o SubSeq(pending, k + 1, Len(pending))
  /\ UNCHANGED delivered

Deliver ==
  /\ pending # << >>
  /\ delivered' = Append(delivered, Head(pending))
  /\ pending' = Tail(pending)

Next == Accept \/ Refuse \/ Deliver

Spec == Init /\ [][Next]_<<pending, delivered>>
=============================================================================
