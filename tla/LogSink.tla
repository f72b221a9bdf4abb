------------------------------- MODULE LogSink -------------------------------
(***************************************************************************)
(* What the logger promises the code that logs: every record has a text of *)
(* its own, which no other record can reach, and is delivered at most      *)
(* once, with the tag (level and module) it was opened with and with       *)
(* nothing but its own text.  A record may lose text or not be delivered   *)
(* at all.                                                                 *)
(***************************************************************************)
EXTENDS Naturals, Sequences

CONSTANTS Ids, Tags

VARIABLES
  open,        \* the records that are open
  output       \* the records delivered, oldest first

vars == <<open, output>>

Init == open = {} /\ output = << >>

Open(id, tag) ==
  /\ \A r \in open : r.id # id
  /\ \A i \in 1 .. Len(output) : output[i].id # id
  /\ open' = open \cup {[id |-> id, tag |-> tag, text |-> << >>]}
  /\ UNCHANGED output

Write(r) ==
  /\ r \in open
  /\ open' = (open \ {r}) \cup {[r EXCEPT !.text = Append(@, r.id)]}
  /\ UNCHANGED output

Deliver(r) ==
  /\ r \in open
  /\ open' = open \ {r}
  /\ output' = Append(output, r)

Drop(r) ==
  /\ r \in open
  /\ open' = open \ {r}
  /\ UNCHANGED output

Next ==
  \/ \E id \in Ids, tag \in Tags : Open(id, tag)
  \/ \E r \in open : Write(r) \/ Deliver(r) \/ Drop(r)

Spec == Init /\ [][Next]_vars
=============================================================================
