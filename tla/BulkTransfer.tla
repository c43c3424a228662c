---------------------------- MODULE BulkTransfer ----------------------------
(***************************************************************************)
(* What the bulk port promises the two ends of a transfer, without tables,  *)
(* lock, tasks and time-outs: who looks for a partner meets one connection  *)
(* that fits, under a key that was not used in the last 10 minutes; no more *)
(* than the bytes asked for go from the one to the other; and each is told  *)
(* "ready" first, and "complete" when nothing remains.  BulkRelay           *)
(* implements it.                                                           *)
(*                                                                          *)
(* It does not promise that a stream is not broken off, or who is refused.  *)
(***************************************************************************)
EXTENDS Naturals

CONSTANTS
  Conns,     \* bulk connections
  Requests,  \* what they ask for
  Keys       \* what a request names its transfer by

VARIABLES
  conn,      \* connections: what they asked for, were told and got
  looking,   \* those that look for a partner
  streams,   \* from a sender to a receiver
  used       \* the keys of the last 10 minutes

vars == <<conn, looking, streams, used>>

NotOpen == [told |-> "closed"]

Opened(h, told) == [h |-> h, told |-> told, got |-> 0]

IsOpen(i) == conn[i].told # "closed"

Streaming(i) == \E s \in streams : i \in {s.sender, s.receiver}

Fit(g, h) ==
  /\ g.key = h.key /\ g.length = h.length
  /\ g.role # h.role
  /\ g.me = h.peer /\ g.peer = h.me

Init ==
  /\ conn = [i \in Conns |-> NotOpen]
  /\ looking = {} /\ streams = {} /\ used = {}

\* Refused, as the key was used or for another reason
Refuse(i, h) ==
  /\ conn' = [conn EXCEPT ![i] = Opened(h, IF h.key \in used THEN "used" ELSE "refused")]
  /\ UNCHANGED <<looking, streams, used>>

\* One at a time looks for the partner of a transfer
Look(i, h) ==
  /\ h.key \notin used
  /\ \A j \in looking : conn[j].h.key # h.key
  /\ conn' = [conn EXCEPT ![i] = Opened(h, "none")]
  /\ looking' = looking \cup {i}
  /\ UNCHANGED <<streams, used>>

\* The partner comes
Meet(i, h, w) ==
  /\ h.key \notin used
  /\ w \in looking /\ Fit(conn[w].h, h)
  /\ conn' = [conn EXCEPT ![i] = Opened(h, "none")]
  /\ looking' = looking \ {w}
  /\ used' = used \cup {h.key}
  /\ streams' = streams \cup {[rest |-> h.length,
                               sender   |-> IF h.role = "sender" THEN i ELSE w,
                               receiver |-> IF h.role = "receiver" THEN i ELSE w]}

Connect(i) ==
  /\ ~IsOpen(i) /\ ~Streaming(i)
  /\ \E h \in Requests : Refuse(i, h) \/ Look(i, h) \/ \E w \in looking : Meet(i, h, w)

\* An end of a stream is told; one that closed no longer listens
Tell(s, i, what) ==
  /\ i \in {s.sender, s.receiver} /\ IsOpen(i)
  /\ \/ what = "ready" /\ conn[i].told = "none"
     \/ what = "complete" /\ conn[i].told = "ready" /\ s.rest = 0
  /\ conn' = [conn EXCEPT ![i].told = what]
  /\ UNCHANGED <<looking, streams, used>>

\* n more bytes for a receiver that was told "ready", or that closed
Copy(s, n) ==
  /\ n \in 1..s.rest
  /\ IsOpen(s.receiver) => conn[s.receiver].told = "ready"
  /\ streams' = (streams \ {s}) \cup {[s EXCEPT !.rest = @ - n]}
  /\ conn' = IF IsOpen(s.receiver) THEN [conn EXCEPT ![s.receiver].got = @ + n] ELSE conn
  /\ UNCHANGED <<looking, used>>

\* Complete or not, nothing more comes
End(s) ==
  /\ streams' = streams \ {s}
  /\ UNCHANGED <<conn, looking, used>>

Close(i) ==
  /\ IsOpen(i)
  /\ conn' = [conn EXCEPT ![i] = NotOpen]
  /\ looking' = looking \ {i}
  /\ UNCHANGED <<streams, used>>

Forget(k) ==
  /\ used' = used \ {k}
  /\ UNCHANGED <<conn, looking, streams>>

Next ==
  \/ \E i \in Conns : Connect(i) \/ Close(i)
  \/ \E s \in streams :
       \/ \E i \in Conns, what \in {"ready", "complete"} : Tell(s, i, what)
       \/ \E n \in 1..s.rest : Copy(s, n)
       \/ End(s)
  \/ \E k \in Keys : Forget(k)

Spec == Init /\ [][Next]_vars
=============================================================================
