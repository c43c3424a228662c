-------------------------- MODULE BulkRelayProofs --------------------------
(***************************************************************************)
(* Proofs about BulkRelay, for every set of connections, transfers and      *)
(* lengths, every chunk size and every MAX_PENDING_BULK.                    *)
(***************************************************************************)
EXTENDS BulkRelay, TLAPS

-----------------------------------------------------------------------------
(* The inductive invariant.  The pairing stays sound because a connection   *)
(* is in one pipe at most, so that no other task writes to it; and the      *)
(* count of bytes because what was copied and what remains add up to what   *)
(* the receiver declared, from the pairing of a connection nothing was      *)
(* copied to on.                                                            *)

Ends(p) == {p.sender, p.receiver}

PipesApart == \A p, q \in pipes : p # q => Ends(p) \cap Ends(q) = {}

CopyAddsUp ==
  \A p \in pipes :
    /\ handler[p.receiver].pc # "closed" =>
         handler[p.receiver].got + p.remaining = handler[p.receiver].h.length
    /\ p.pc \in {"complete_sender", "complete_receiver"} => p.remaining = 0

PendingGotNone == \A k \in Keys : pending[k] # None => handler[pending[k]].got = 0

BulkInv ==
  /\ TypeOK
  /\ PipesApart
  /\ CopyAddsUp
  /\ PendingGotNone
  /\ PairSound
  /\ WaiterFindable
  /\ PendingIsOpen
  /\ ExactCopy

-----------------------------------------------------------------------------
(* The data                                                                 *)

(* The handler of a connection that is not closed has a header.             *)
LEMMA OpenHandler ==
  ASSUME TypeOK, NEW i \in Conns, handler[i].pc # "closed"
  PROVE  /\ handler[i] \in Handler /\ handler[i].h \in Headers
         /\ handler[i].got \in Nat
         /\ handler[i].h.length \in Nat \ {0} /\ handler[i].h.key \in Keys
<1>1. handler[i] \in Handler
  BY DEF TypeOK, Closed
<1>2. handler[i].h \in Headers /\ handler[i].got \in Nat
  BY <1>1 DEF Handler
<1>3. handler[i].h.length \in Lengths /\ handler[i].h.key \in Keys
  BY <1>2 DEF Headers
<1>4. QED
  BY <1>1, <1>2, <1>3, BulkAssumption

(* A handler goes on to its next await with everything else as it was.      *)
LEMMA HandlerGoesOn ==
  ASSUME NEW r \in Handler, NEW c \in {"joined", "ending"}
  PROVE  /\ [r EXCEPT !.pc = c] \in Handler
         /\ [r EXCEPT !.pc = c].pc = c /\ [r EXCEPT !.pc = c].h = r.h
         /\ [r EXCEPT !.pc = c].told = r.told /\ [r EXCEPT !.pc = c].got = r.got
BY DEF Handler

(* A handler is written to: a message, or bytes.                            *)
LEMMA HandlerGets ==
  ASSUME NEW r \in Handler
  PROVE  /\ \A m \in {"ready", "complete"} : LET s == [r EXCEPT !.told = m] IN
              s \in Handler /\ s.pc = r.pc /\ s.h = r.h /\ s.told = m /\ s.got = r.got
         /\ \A n \in Nat : LET s == [r EXCEPT !.got = @ + n] IN
              s \in Handler /\ s.pc = r.pc /\ s.h = r.h /\ s.told = r.told /\ s.got = r.got + n
BY DEF Handler

(* A pipe goes on, or has less to copy, with everything else as it was.     *)
LEMMA PipeGoesOn ==
  ASSUME NEW p \in Pipe
  PROVE  /\ p.sender \in Conns /\ p.receiver \in Conns /\ p.remaining \in Nat
         /\ \A c \in PipePcs : LET q == [p EXCEPT !.pc = c] IN
              q \in Pipe /\ q.pc = c /\ q.sender = p.sender /\ q.receiver = p.receiver
                /\ q.remaining = p.remaining
         /\ \A n \in Nat : n <= p.remaining => LET q == [p EXCEPT !.remaining = @ - n] IN
              q \in Pipe /\ q.pc = p.pc /\ q.sender = p.sender /\ q.receiver = p.receiver
                /\ q.remaining = p.remaining - n
BY DEF Pipe

(* A connection that comes has a new handler, to which nothing was copied.  *)
LEMMA OpenedHandler ==
  ASSUME TypeOK, NEW i \in Conns, NEW h \in Headers,
         NEW pc \in {"refusing", "waiting", "joined"}, NEW told \in {"none", "used", "refused"},
         Opened(i, h, pc, told)
  PROVE  /\ handler' \in [Conns -> Handler \cup {Closed}]
         /\ handler'[i].pc = pc /\ handler'[i].h = h
         /\ handler'[i].told = told /\ handler'[i].got = 0
         /\ \A j \in Conns : j # i => handler'[j] = handler[j]
<1> DEFINE r == [pc |-> pc, h |-> h, told |-> told, got |-> 0]
<1>1. r \in Handler /\ r.pc = pc /\ r.h = h /\ r.told = told /\ r.got = 0
  BY DEF Handler
<1> HIDE DEF r
<1>2. handler' = [handler EXCEPT ![i] = r]
  BY DEF Opened, r
<1>3. QED
  BY <1>1, <1>2 DEF TypeOK

-----------------------------------------------------------------------------
(* The pairs                                                                *)

\* What PairSound says of the handlers a and b of a pipe's ends
Fits(a, b) ==
  /\ a.pc # "closed" => a.h.role = "sender"
  /\ b.pc # "closed" => b.h.role = "receiver"
  /\ a.pc # "closed" /\ b.pc # "closed" =>
       a.h.key = b.h.key /\ a.h.me = b.h.peer /\ a.h.peer = b.h.me /\ a.h.length = b.h.length

(* PairSound, of a state and of the next.                                   *)
LEMMA PairSoundAsFits ==
  /\ PairSound <=>
       \A p \in pipes : p.sender # p.receiver /\ Fits(handler[p.sender], handler[p.receiver])
  /\ PairSound' <=>
       \A p \in pipes' : p.sender # p.receiver /\ Fits(handler'[p.sender], handler'[p.receiver])
BY DEF PairSound, Fits

(* Handlers that fit do so as long as they keep their headers, or close.    *)
LEMMA FitsSame ==
  ASSUME NEW a, NEW b, NEW c, NEW d, Fits(a, b),
         c.pc # "closed" => a.pc # "closed" /\ c.h = a.h,
         d.pc # "closed" => b.pc # "closed" /\ d.h = b.h
  PROVE  Fits(c, d)
BY DEF Fits

(* No new pipe, and no new header at the end of one.                        *)
LEMMA PairsKept ==
  ASSUME BulkInv,
         \A u \in pipes' : \E v \in pipes : u.sender = v.sender /\ u.receiver = v.receiver,
         \A v \in pipes : \A i \in {v.sender, v.receiver} :
           handler'[i].pc # "closed" => handler[i].pc # "closed" /\ handler'[i].h = handler[i].h
  PROVE  PairSound'
<1> SUFFICES ASSUME NEW u \in pipes'
             PROVE  u.sender # u.receiver /\ Fits(handler'[u.sender], handler'[u.receiver])
  BY PairSoundAsFits
<1>1. PICK v \in pipes : u.sender = v.sender /\ u.receiver = v.receiver
  OBVIOUS
<1>2. v.sender # v.receiver /\ Fits(handler[v.sender], handler[v.receiver])
  BY PairSoundAsFits DEF BulkInv
<1>3. Fits(handler'[v.sender], handler'[v.receiver])
  BY <1>2, FitsSame
<1>4. QED
  BY <1>1, <1>2, <1>3

-----------------------------------------------------------------------------
(* handle_bulk                                                              *)

(* A connection that is refused, or waits where none waited, is in no pipe  *)
(* and under no other key.                                                  *)
LEMMA ConnectInv ==
  ASSUME BulkInv, NEW i \in Conns, NEW h \in Headers,
         NEW pc \in {"refusing", "waiting"}, NEW told \in {"none", "used", "refused"},
         Unused(i), Opened(i, h, pc, told), gone' = gone \ {i},
         UNCHANGED <<consumed, pipes, usedBy>>,
         \/ pc = "refusing" /\ pending' = pending
         \/ /\ pc = "waiting" /\ pending[h.key] = None
            /\ pending' = [pending EXCEPT ![h.key] = i]
  PROVE  BulkInv'
<1>1. /\ handler' \in [Conns -> Handler \cup {Closed}]
      /\ handler'[i].pc = pc /\ handler'[i].h = h
      /\ handler'[i].told = told /\ handler'[i].got = 0
      /\ \A j \in Conns : j # i => handler'[j] = handler[j]
  BY OpenedHandler DEF BulkInv
<1>2. /\ handler[i].pc = "closed" /\ \A p \in pipes : i \notin Ends(p)
      /\ \A k \in Keys : pending[k] # i
      /\ h.key \in Keys /\ None \notin Conns
      /\ pending \in [Keys -> Conns \cup {None}]
      /\ pipes \in SUBSET Pipe
  BY BulkAssumption DEF BulkInv, TypeOK, PendingIsOpen, Unused, InPipe, Ends, Headers
<1>3. /\ pending' \in [Keys -> Conns \cup {None}]
      /\ \A k \in Keys : \/ pending'[k] = pending[k]
                         \/ /\ k = h.key /\ pending'[k] = i
                            /\ pending[k] = None /\ pc = "waiting"
      /\ pc = "waiting" => pending'[h.key] = i
  BY <1>2
<1>4. TypeOK'
  BY <1>1, <1>3 DEF BulkInv, TypeOK
<1>5. \A p \in pipes : p.sender \in Conns /\ p.receiver \in Conns
                         /\ handler'[p.sender] = handler[p.sender]
                         /\ handler'[p.receiver] = handler[p.receiver]
  BY <1>1, <1>2, PipeGoesOn DEF Ends
<1>6. PipesApart' /\ CopyAddsUp' /\ PairSound'
  <2>1. PairSound'
    BY <1>5, PairsKept
  <2>2. QED
    BY <1>5, <2>1 DEF BulkInv, PipesApart, CopyAddsUp
<1>7. PendingGotNone'
  BY <1>1, <1>2, <1>3 DEF BulkInv, PendingGotNone
<1>8. PendingIsOpen'
  BY <1>1, <1>2, <1>3 DEF BulkInv, PendingIsOpen, InPipe, Ends
<1>9. WaiterFindable'
  <2> SUFFICES ASSUME NEW j \in Conns, handler'[j].pc = "waiting"
               PROVE  (pending'[handler'[j].h.key] = j) # InPipe(j)
    BY DEF WaiterFindable, InPipe
  <2>1. CASE j = i
    BY <1>1, <1>2, <1>3, <2>1 DEF InPipe, Ends
  <2>2. CASE j # i
    <3>1. handler[j].pc = "waiting" /\ handler'[j] = handler[j] /\ handler[j].h.key \in Keys
      BY <1>1, <2>2, OpenHandler DEF BulkInv
    <3>2. pending'[handler[j].h.key] = j <=> pending[handler[j].h.key] = j
      BY <1>2, <1>3, <2>2, <3>1
    <3>3. QED
      BY <3>1, <3>2 DEF BulkInv, WaiterFindable
  <2>3. QED
    BY <2>1, <2>2
<1>10. ExactCopy'
  BY <1>1 DEF BulkInv, ExactCopy
<1>11. QED
  BY <1>4, <1>6, <1>7, <1>8, <1>9, <1>10 DEF BulkInv

(* The one that waited is in no pipe yet and got nothing, and it fits.      *)
LEMMA ConnectPairInv ==
  ASSUME BulkInv, NEW i \in Conns, NEW h \in Headers, ConnectPair(i, h)
  PROVE  BulkInv'
<1> DEFINE w == pending[h.key]
           snd == IF h.role = "sender" THEN i ELSE w
           rcv == IF h.role = "receiver" THEN i ELSE w
           new == [pc |-> "created", remaining |-> h.length, sender |-> snd, receiver |-> rcv]
<1>1. /\ handler' \in [Conns -> Handler \cup {Closed}]
      /\ handler'[i].pc = "joined" /\ handler'[i].h = h
      /\ handler'[i].told = "none" /\ handler'[i].got = 0
      /\ \A j \in Conns : j # i => handler'[j] = handler[j]
  BY OpenedHandler DEF BulkInv, ConnectPair
<1>2. /\ handler[i].pc = "closed" /\ \A p \in pipes : i \notin Ends(p)
      /\ h.key \in Keys /\ None \notin Conns /\ h.file \in Files
      /\ h.role \in {"sender", "receiver"} /\ h.length \in Nat
      /\ pending \in [Keys -> Conns \cup {None}]
      /\ pipes \in SUBSET Pipe
  BY BulkAssumption DEF BulkInv, TypeOK, ConnectPair, Unused, InPipe, Ends, Headers
<1>3. /\ w \in Conns /\ w # i
      /\ handler[w].pc \in {"waiting", "ending"} /\ handler[w].h.key = h.key
      /\ handler[w].got = 0
      /\ \A p \in pipes : w \notin Ends(p)
      /\ Matches(handler[w].h, h)
      /\ handler[w].h.role \in {"sender", "receiver"}
  <2>1. w \in Conns /\ w # None /\ Matches(handler[w].h, h)
    BY <1>2 DEF ConnectPair
  <2>2. /\ handler[w].pc \in {"waiting", "ending"} /\ handler[w].h.key = h.key
        /\ handler[w].got = 0 /\ \A p \in pipes : w \notin Ends(p)
    BY <1>2, <2>1 DEF BulkInv, PendingIsOpen, PendingGotNone, InPipe, Ends
  <2>3. handler[w].h \in Headers
    BY <2>1, <2>2, OpenHandler DEF BulkInv
  <2>4. QED
    BY <1>2, <2>1, <2>2, <2>3 DEF Headers
<1>4. /\ pending' = [pending EXCEPT ![h.key] = None]
      /\ pending' \in [Keys -> Conns \cup {None}]
      /\ consumed' = consumed \cup {h.key}
      /\ usedBy' = [usedBy EXCEPT ![h.key] = h.file]
      /\ pipes' = pipes \cup {new}
      /\ gone' = gone \ {i}
  BY <1>2 DEF ConnectPair
<1>5. /\ new \in Pipe /\ new.pc = "created" /\ new.remaining = h.length
      /\ new.sender = snd /\ new.receiver = rcv /\ Ends(new) = {i, w}
  BY <1>2, <1>3 DEF Pipe, PipePcs, Ends
<1>6. /\ snd \in {i, w} /\ rcv \in {i, w} /\ snd # rcv
      /\ handler'[snd].h.role = "sender" /\ handler'[rcv].h.role = "receiver"
      /\ handler'[w] = handler[w]
  BY <1>1, <1>2, <1>3 DEF Matches
<1> HIDE DEF new
<1>7. TypeOK'
  BY <1>1, <1>2, <1>4, <1>5 DEF BulkInv, TypeOK
<1>8. \A p \in pipes : p.sender \in Conns /\ p.receiver \in Conns
                         /\ handler'[p.sender] = handler[p.sender]
                         /\ handler'[p.receiver] = handler[p.receiver]
  BY <1>1, <1>2, PipeGoesOn DEF Ends
<1>9. PipesApart'
  BY <1>2, <1>3, <1>4, <1>5 DEF BulkInv, PipesApart
<1>10. CopyAddsUp'
  <2>1. handler'[rcv].got = 0 /\ handler'[rcv].h.length = h.length
    BY <1>1, <1>3, <1>6 DEF Matches
  <2>2. QED
    BY <1>2, <1>4, <1>5, <1>8, <2>1 DEF BulkInv, CopyAddsUp
<1>11. PendingGotNone'
  BY <1>1, <1>2, <1>4 DEF BulkInv, PendingGotNone, PendingIsOpen
<1>12. PairSound'
  <2>1. LET s == handler'[snd].h
            r == handler'[rcv].h
        IN s.key = r.key /\ s.me = r.peer /\ s.peer = r.me /\ s.length = r.length
    <3>1. /\ handler[w].h.key = h.key /\ handler[w].h.me = h.peer
          /\ handler[w].h.peer = h.me /\ handler[w].h.length = h.length
      BY <1>3 DEF Matches
    <3>2. handler'[i].h = h /\ handler'[w].h = handler[w].h
      BY <1>1, <1>6
    <3>3. QED
      BY <1>6, <3>1, <3>2
  <2>2. new.sender # new.receiver /\ Fits(handler'[new.sender], handler'[new.receiver])
    BY <1>5, <1>6, <2>1 DEF Fits
  <2>3. \A p \in pipes : p.sender # p.receiver /\ Fits(handler'[p.sender], handler'[p.receiver])
    BY <1>8, PairSoundAsFits DEF BulkInv
  <2>4. QED
    BY <1>4, <2>2, <2>3, PairSoundAsFits
<1>13. \A j \in Conns : (InPipe(j))' <=> InPipe(j) \/ j \in {i, w}
  BY <1>4, <1>5 DEF InPipe, Ends
<1>14. WaiterFindable'
  <2> SUFFICES ASSUME NEW j \in Conns, handler'[j].pc = "waiting"
               PROVE  pending'[handler'[j].h.key] = j <=> ~(InPipe(j))'
    BY DEF WaiterFindable, InPipe
  <2>1. /\ j # i /\ handler'[j] = handler[j] /\ handler[j].pc = "waiting"
        /\ handler[j].h.key \in Keys
    BY <1>1, OpenHandler DEF BulkInv
  <2>2. CASE j = w
    BY <1>2, <1>3, <1>4, <1>13, <2>1, <2>2
  <2>3. CASE j # w
    <3>1. pending'[handler[j].h.key] = j <=> pending[handler[j].h.key] = j
      BY <1>2, <1>3, <1>4, <2>1, <2>3
    <3>2. (InPipe(j))' <=> InPipe(j)
      BY <1>13, <2>1, <2>3
    <3>3. pending[handler[j].h.key] = j <=> ~InPipe(j)
      BY <2>1 DEF BulkInv, WaiterFindable, InPipe
    <3>4. QED
      BY <2>1, <3>1, <3>2, <3>3
  <2>4. QED
    BY <2>2, <2>3
<1>15. PendingIsOpen'
  <2> SUFFICES ASSUME NEW k \in Keys, pending'[k] # None
               PROVE  /\ handler'[pending'[k]].pc \in {"waiting", "ending"}
                      /\ handler'[pending'[k]].h.key = k
                      /\ \A p \in pipes' : pending'[k] \notin {p.sender, p.receiver}
    BY DEF PendingIsOpen, InPipe
  <2>1. k # h.key /\ pending'[k] = pending[k] /\ pending[k] \in Conns
    BY <1>2, <1>4
  <2>2. /\ handler[pending[k]].pc \in {"waiting", "ending"}
        /\ handler[pending[k]].h.key = k
        /\ \A p \in pipes : pending[k] \notin {p.sender, p.receiver}
    BY <2>1 DEF BulkInv, PendingIsOpen, InPipe
  <2>3. pending[k] \notin {i, w}
    BY <1>2, <1>3, <2>1, <2>2
  <2>4. QED
    BY <1>1, <1>4, <1>5, <2>1, <2>2, <2>3 DEF Ends
<1>16. ExactCopy'
  BY <1>1 DEF BulkInv, ExactCopy
<1>17. QED
  BY <1>7, <1>9, <1>10, <1>11, <1>12, <1>14, <1>15, <1>16 DEF BulkInv

(* A handler is told of its pipe, gives up waiting or has refused: only its *)
(* own place changes, and not to a wait.                                    *)
LEMMA HandlerMovesInv ==
  ASSUME BulkInv, NEW i \in Conns, NEW c \in {"joined", "ending"},
         handler[i].pc \in {"refusing", "waiting"},
         c = "joined" => InPipe(i),
         handler[i].pc = "refusing" => c = "ending",
         handler' = [handler EXCEPT ![i].pc = c],
         UNCHANGED <<pending, consumed, pipes, gone, usedBy>>
  PROVE  BulkInv'
<1>1. handler[i] \in Handler /\ handler \in [Conns -> Handler \cup {Closed}]
  BY OpenHandler DEF BulkInv, TypeOK
<1> DEFINE r == [handler[i] EXCEPT !.pc = c]
<1>2. /\ r \in Handler /\ r.pc = c /\ r.h = handler[i].h
      /\ r.told = handler[i].told /\ r.got = handler[i].got
  BY <1>1, HandlerGoesOn
<1>3. handler' = [handler EXCEPT ![i] = r]
  OBVIOUS
<1> HIDE DEF r
<1>4. /\ handler' \in [Conns -> Handler \cup {Closed}] /\ handler'[i] = r
      /\ \A j \in Conns : j # i => handler'[j] = handler[j]
  BY <1>1, <1>2, <1>3
<1>5. TypeOK'
  BY <1>4 DEF BulkInv, TypeOK
<1>6. \A p \in pipes : p.sender \in Conns /\ p.receiver \in Conns
  BY PipeGoesOn DEF BulkInv, TypeOK
<1>7. \A j \in Conns : /\ handler'[j].pc = "closed" <=> handler[j].pc = "closed"
                       /\ handler'[j].h = handler[j].h
                       /\ handler'[j].told = handler[j].told
                       /\ handler'[j].got = handler[j].got
  BY <1>2, <1>4
<1>8. PipesApart' /\ CopyAddsUp' /\ PairSound'
  <2>1. PairSound'
    BY <1>6, <1>7, PairsKept
  <2>2. QED
    BY <1>6, <1>7, <2>1 DEF BulkInv, PipesApart, CopyAddsUp
<1>9. \A k \in Keys : pending[k] # None => pending[k] \in Conns
  BY DEF BulkInv, TypeOK
<1>10. PendingGotNone'
  BY <1>7, <1>9 DEF BulkInv, PendingGotNone
<1>11. PendingIsOpen'
  <2> SUFFICES ASSUME NEW k \in Keys, pending[k] # None
               PROVE  /\ handler'[pending[k]].pc \in {"waiting", "ending"}
                      /\ handler'[pending[k]].h.key = k
                      /\ ~InPipe(pending[k])
    BY DEF PendingIsOpen, InPipe
  <2>1. /\ handler[pending[k]].pc \in {"waiting", "ending"}
        /\ handler[pending[k]].h.key = k
        /\ ~InPipe(pending[k])
    BY DEF BulkInv, PendingIsOpen
  <2>2. QED
    BY <1>2, <1>4, <1>7, <1>9, <2>1
<1>12. WaiterFindable'
  <2> SUFFICES ASSUME NEW j \in Conns, handler'[j].pc = "waiting"
               PROVE  (pending[handler'[j].h.key] = j) # InPipe(j)
    BY DEF WaiterFindable, InPipe
  <2>1. j # i /\ handler'[j] = handler[j]
    BY <1>2, <1>4
  <2>2. QED
    BY <2>1 DEF BulkInv, WaiterFindable
<1>13. ExactCopy'
  BY <1>7 DEF BulkInv, ExactCopy
<1>14. QED
  BY <1>5, <1>8, <1>10, <1>11, <1>12, <1>13 DEF BulkInv

(* A handler's finally takes its own entry, if it is still there.           *)
LEMMA CleanupInv ==
  ASSUME BulkInv, NEW i \in Conns, Cleanup(i)
  PROVE  BulkInv'
<1>1. /\ handler[i].pc = "ending"
      /\ pending' = [k \in Keys |-> IF pending[k] = i THEN None ELSE pending[k]]
      /\ handler' = [handler EXCEPT ![i] = Closed] /\ gone' = gone \cup {i}
      /\ UNCHANGED <<consumed, pipes, usedBy>>
      /\ handler \in [Conns -> Handler \cup {Closed}]
      /\ pending \in [Keys -> Conns \cup {None}] /\ None \notin Conns
  BY BulkAssumption DEF BulkInv, TypeOK, Cleanup
<1>2. /\ handler' \in [Conns -> Handler \cup {Closed}] /\ handler'[i].pc = "closed"
      /\ \A j \in Conns : j # i => handler'[j] = handler[j]
  BY <1>1 DEF Closed
<1>3. /\ pending' \in [Keys -> Conns \cup {None}]
      /\ \A k \in Keys : /\ pending[k] # i => pending'[k] = pending[k]
                         /\ pending'[k] # None => pending'[k] = pending[k] /\ pending[k] # i
  BY <1>1
<1>4. TypeOK'
  BY <1>1, <1>2, <1>3 DEF BulkInv, TypeOK
<1>5. \A p \in pipes : p.sender \in Conns /\ p.receiver \in Conns
  BY PipeGoesOn DEF BulkInv, TypeOK
<1>6. PipesApart' /\ CopyAddsUp' /\ PairSound'
  <2>1. PairSound'
    BY <1>1, <1>2, <1>5, PairsKept
  <2>2. QED
    BY <1>1, <1>2, <1>5, <2>1 DEF BulkInv, PipesApart, CopyAddsUp
<1>7. PendingGotNone'
  BY <1>1, <1>2, <1>3 DEF BulkInv, PendingGotNone
<1>8. PendingIsOpen'
  BY <1>1, <1>2, <1>3 DEF BulkInv, PendingIsOpen, InPipe
<1>9. WaiterFindable'
  <2> SUFFICES ASSUME NEW j \in Conns, handler'[j].pc = "waiting"
               PROVE  (pending'[handler'[j].h.key] = j) # InPipe(j)
    BY <1>1 DEF WaiterFindable, InPipe
  <2>1. /\ j # i /\ handler'[j] = handler[j] /\ handler[j].pc = "waiting"
        /\ handler[j].h.key \in Keys
    BY <1>2, OpenHandler DEF BulkInv
  <2>2. pending'[handler[j].h.key] = j <=> pending[handler[j].h.key] = j
    BY <1>1, <1>3, <2>1
  <2>3. QED
    BY <2>1, <2>2 DEF BulkInv, WaiterFindable
<1>10. ExactCopy'
  BY <1>2 DEF BulkInv, ExactCopy
<1>11. QED
  BY <1>4, <1>6, <1>7, <1>8, <1>9, <1>10 DEF BulkInv

-----------------------------------------------------------------------------
(* _pipe_bulk                                                               *)

(* A pipe goes on: it writes to its own ends only, bytes to the receiver    *)
(* only, and nobody is told that the transfer is complete before.           *)
LEMMA PipeStepInv ==
  ASSUME BulkInv, NEW p \in pipes, NEW q \in Pipe,
         q.sender = p.sender, q.receiver = p.receiver,
         pipes' = (pipes \ {p}) \cup {q},
         q.pc \in {"complete_sender", "complete_receiver"} => q.remaining = 0,
         handler' \in [Conns -> Handler \cup {Closed}],
         \A j \in Conns : handler[j].pc = "closed" => handler'[j] = handler[j],
         \A j \in Conns : handler[j].pc # "closed" =>
           /\ handler'[j].pc = handler[j].pc /\ handler'[j].h = handler[j].h
           /\ j # p.receiver => handler'[j].got = handler[j].got
           /\ handler'[j].told = "complete" =>
                \/ handler[j].told = "complete" /\ handler'[j].got = handler[j].got
                \/ j = p.sender
                \/ j = p.receiver /\ q.remaining = 0,
         handler[p.receiver].pc # "closed" =>
           handler'[p.receiver].got + q.remaining = handler[p.receiver].h.length,
         UNCHANGED <<pending, consumed, gone, usedBy>>
  PROVE  BulkInv'
<1>1. TypeOK'
  BY DEF BulkInv, TypeOK
<1>2. \A u \in pipes : u.sender \in Conns /\ u.receiver \in Conns /\ u.remaining \in Nat
  BY PipeGoesOn DEF BulkInv, TypeOK
<1>3. Ends(q) = Ends(p) /\ p.sender # p.receiver /\ q.remaining \in Nat
  BY PipeGoesOn DEF Ends, BulkInv, PairSound
<1>4. PipesApart'
  BY <1>3 DEF BulkInv, PipesApart
<1>5. \A j \in Conns : /\ handler'[j].pc = handler[j].pc
                       /\ handler[j].pc # "closed" => handler'[j].h = handler[j].h
  OBVIOUS
<1>6. PairSound'
  <2>1. \A u \in pipes' : \E v \in pipes : u.sender = v.sender /\ u.receiver = v.receiver
    OBVIOUS
  <2>2. \A v \in pipes : \A j \in {v.sender, v.receiver} :
          handler'[j].pc # "closed" => handler[j].pc # "closed" /\ handler'[j].h = handler[j].h
    BY <1>2, <1>5
  <2>3. QED
    BY <2>1, <2>2, PairsKept
<1>7. \A j \in Conns : (InPipe(j))' <=> InPipe(j)
  BY DEF InPipe
<1>8. CopyAddsUp'
  <2>1. ASSUME NEW u \in pipes, u # p, handler'[u.receiver].pc # "closed"
        PROVE  handler'[u.receiver].got + u.remaining = handler'[u.receiver].h.length
    <3>1. u.receiver # p.receiver /\ u.receiver \in Conns
      BY <1>2, <2>1 DEF BulkInv, PipesApart, Ends
    <3>2. /\ handler[u.receiver].pc # "closed"
          /\ handler'[u.receiver].got = handler[u.receiver].got
          /\ handler'[u.receiver].h = handler[u.receiver].h
      BY <1>5, <2>1, <3>1
    <3>3. QED
      BY <3>2 DEF BulkInv, CopyAddsUp
  <2>2. ASSUME handler'[q.receiver].pc # "closed"
        PROVE  handler'[q.receiver].got + q.remaining = handler'[q.receiver].h.length
    BY <1>2, <1>5, <2>2
  <2>3. \A u \in pipes : u.pc \in {"complete_sender", "complete_receiver"} => u.remaining = 0
    BY DEF BulkInv, CopyAddsUp
  <2>4. QED
    BY <2>1, <2>2, <2>3 DEF CopyAddsUp
<1>9. \A k \in Keys : pending[k] # None =>
        /\ pending[k] \in Conns /\ pending[k] # p.receiver
        /\ handler[pending[k]].pc # "closed"
  BY DEF BulkInv, TypeOK, PendingIsOpen, InPipe
<1>10. PendingGotNone'
  BY <1>9 DEF BulkInv, PendingGotNone
<1>11. PendingIsOpen'
  <2> SUFFICES ASSUME NEW k \in Keys, pending[k] # None
               PROVE  /\ handler'[pending[k]].pc \in {"waiting", "ending"}
                      /\ handler'[pending[k]].h.key = k
                      /\ \A u \in pipes' : pending[k] \notin {u.sender, u.receiver}
    BY DEF PendingIsOpen, InPipe
  <2>1. /\ handler[pending[k]].pc \in {"waiting", "ending"}
        /\ handler[pending[k]].h.key = k
        /\ \A u \in pipes : pending[k] \notin {u.sender, u.receiver}
    BY DEF BulkInv, PendingIsOpen, InPipe
  <2>2. QED
    BY <1>5, <1>9, <2>1
<1>12. WaiterFindable'
  <2> SUFFICES ASSUME NEW j \in Conns, handler'[j].pc = "waiting"
               PROVE  pending[handler'[j].h.key] = j <=> ~(InPipe(j))'
    BY DEF WaiterFindable, InPipe
  <2>1. handler[j].pc = "waiting" /\ handler'[j].h = handler[j].h
    BY <1>5
  <2>2. pending[handler[j].h.key] = j <=> ~InPipe(j)
    BY <2>1 DEF BulkInv, WaiterFindable, InPipe
  <2>3. QED
    BY <1>7, <2>1, <2>2
<1>13. ExactCopy'
  <2> SUFFICES ASSUME NEW j \in Conns, handler'[j].pc # "closed"
               PROVE  /\ handler'[j].h.role = "sender" => handler'[j].got = 0
                      /\ handler'[j].h.role = "receiver" /\ handler'[j].told = "complete"
                           => handler'[j].got = handler'[j].h.length
    BY DEF ExactCopy
  <2>1. handler[j].pc # "closed" /\ handler'[j].h = handler[j].h
    BY <1>5
  <2>2. /\ handler[j].h.role = "sender" => handler[j].got = 0
        /\ handler[j].h.role = "receiver" /\ handler[j].told = "complete"
             => handler[j].got = handler[j].h.length
    BY <2>1 DEF BulkInv, ExactCopy
  <2>3. /\ j = p.sender => handler[j].h.role = "sender"
        /\ j = p.receiver => handler[j].h.role = "receiver"
    BY <2>1 DEF BulkInv, PairSound
  <2>4. handler'[j].got \in Nat
    BY <2>1, <1>5 DEF Handler, Closed
  <2>5. CASE j = p.receiver
    <3>1. handler'[j].got + q.remaining = handler[j].h.length
      BY <2>1, <2>5
    <3>2. handler'[j].told = "complete" => handler'[j].got = handler[j].h.length
      <4>1. CASE q.remaining = 0
        BY <2>4, <3>1, <4>1
      <4>2. CASE q.remaining # 0
        BY <1>3, <2>1, <2>2, <2>3, <2>5, <4>2
      <4>3. QED
        BY <4>1, <4>2
    <3>3. QED
      BY <2>1, <2>3, <2>5, <3>2
  <2>6. CASE j # p.receiver
    <3>1. handler'[j].got = handler[j].got
      BY <2>1, <2>6
    <3>2. handler'[j].told = "complete" => handler[j].told = "complete" \/ j = p.sender
      BY <2>1, <2>6
    <3>3. QED
      BY <2>1, <2>2, <2>3, <3>1, <3>2
  <2>7. QED
    BY <2>5, <2>6
<1>14. QED
  BY <1>1, <1>4, <1>6, <1>8, <1>10, <1>11, <1>12, <1>13 DEF BulkInv

(* A message of a pipe to one of its ends.                                  *)
LEMMA ToldHandler ==
  ASSUME TypeOK, NEW i \in Conns, NEW m \in {"ready", "complete"}, handler' = Told(handler, i, m)
  PROVE  /\ handler' \in [Conns -> Handler \cup {Closed}]
         /\ \A j \in Conns : handler[j].pc = "closed" \/ j # i => handler'[j] = handler[j]
         /\ handler[i].pc # "closed" =>
              /\ handler'[i].pc = handler[i].pc /\ handler'[i].h = handler[i].h
              /\ handler'[i].told = m /\ handler'[i].got = handler[i].got
<1>1. handler \in [Conns -> Handler \cup {Closed}]
  BY DEF TypeOK
<1>2. CASE handler[i].pc = "closed"
  BY <1>1, <1>2 DEF Told
<1>3. CASE handler[i].pc # "closed"
  <2> DEFINE r == [handler[i] EXCEPT !.told = m]
  <2>1. /\ r \in Handler /\ r.pc = handler[i].pc /\ r.h = handler[i].h
        /\ r.told = m /\ r.got = handler[i].got
    BY <1>3, OpenHandler, HandlerGets
  <2>2. handler' = [handler EXCEPT ![i] = r]
    BY <1>3 DEF Told
  <2> HIDE DEF r
  <2>3. QED
    BY <1>1, <1>3, <2>1, <2>2
<1>4. QED
  BY <1>2, <1>3

(* bulk_ready and bulk_complete: complete is said when nothing remains.     *)
LEMMA PipeSendInv ==
  ASSUME BulkInv, NEW p \in pipes, PipeSend(p)
  PROVE  BulkInv'
<1>1. TypeOK /\ p \in Pipe /\ p.sender \in Conns /\ p.receiver \in Conns
  BY PipeGoesOn DEF BulkInv, TypeOK
<1>2. PICK c \in PipePcs, i \in {p.sender, p.receiver}, m \in {"ready", "complete"} :
        /\ Moved(p, c) /\ (handler' = handler \/ handler' = Told(handler, i, m))
        /\ c \in {"complete_sender", "complete_receiver"} => p.remaining = 0
        /\ m = "complete" /\ handler' # handler => p.remaining = 0
  BY DEF PipeSend, PipePcs, BulkInv, CopyAddsUp
<1> DEFINE q == [p EXCEPT !.pc = c]
<1>3. /\ q \in Pipe /\ q.pc = c /\ q.sender = p.sender /\ q.receiver = p.receiver
      /\ q.remaining = p.remaining /\ pipes' = (pipes \ {p}) \cup {q}
  BY <1>1, <1>2, PipeGoesOn DEF Moved
<1> HIDE DEF q
<1>4. /\ handler' \in [Conns -> Handler \cup {Closed}]
      /\ \A j \in Conns : handler[j].pc = "closed" => handler'[j] = handler[j]
      /\ \A j \in Conns : handler[j].pc # "closed" =>
           /\ handler'[j].pc = handler[j].pc /\ handler'[j].h = handler[j].h
           /\ handler'[j].got = handler[j].got
           /\ handler'[j].told = "complete" =>
                \/ handler[j].told = "complete"
                \/ j = p.sender
                \/ j = p.receiver /\ p.remaining = 0
  <2>1. CASE handler' = handler
    BY <1>1, <2>1 DEF TypeOK
  <2>2. CASE handler' # handler /\ handler' = Told(handler, i, m)
    BY <1>1, <1>2, <2>2, ToldHandler
  <2>3. QED
    BY <1>2, <2>1, <2>2
<1>5. handler[p.receiver].pc # "closed" =>
        handler'[p.receiver].got + q.remaining = handler[p.receiver].h.length
  BY <1>1, <1>3, <1>4 DEF BulkInv, CopyAddsUp
<1>6. UNCHANGED <<pending, consumed, gone, usedBy>>
  BY DEF PipeSend
<1>7. q.pc \in {"complete_sender", "complete_receiver"} => q.remaining = 0
  BY <1>2, <1>3
<1>8. \A j \in Conns : handler[j].pc # "closed" =>
        /\ handler'[j].pc = handler[j].pc /\ handler'[j].h = handler[j].h
        /\ j # p.receiver => handler'[j].got = handler[j].got
        /\ handler'[j].told = "complete" =>
             \/ handler[j].told = "complete" /\ handler'[j].got = handler[j].got
             \/ j = p.sender
             \/ j = p.receiver /\ q.remaining = 0
  BY <1>3, <1>4
<1>9. QED
  BY <1>3, <1>4, <1>5, <1>6, <1>7, <1>8, PipeStepInv

(* A turn of the copy loop copies at least one byte, and no more than       *)
(* remain.                                                                  *)
LEMMA CopyTurn ==
  ASSUME BulkInv, NEW p \in pipes, PipeCopy(p)
  PROVE  \E n \in 1..p.remaining, q \in Pipe :
           /\ q.pc = p.pc /\ q.sender = p.sender /\ q.receiver = p.receiver
           /\ q.remaining = p.remaining - n
           /\ pipes' = (pipes \ {p}) \cup {q}
           /\ handler' \in [Conns -> Handler \cup {Closed}]
           /\ \A j \in Conns :
                handler[j].pc = "closed" \/ j # p.receiver => handler'[j] = handler[j]
           /\ handler[p.receiver].pc # "closed" =>
                /\ handler'[p.receiver].pc = handler[p.receiver].pc
                /\ handler'[p.receiver].h = handler[p.receiver].h
                /\ handler'[p.receiver].told = handler[p.receiver].told
                /\ handler'[p.receiver].got = handler[p.receiver].got + n
<1> DEFINE n == IF p.remaining < Chunk THEN p.remaining ELSE Chunk
           q == [p EXCEPT !.remaining = @ - n]
           i == p.receiver
<1>1. /\ TypeOK /\ p \in Pipe /\ p.sender \in Conns /\ i \in Conns /\ p.remaining \in Nat
      /\ p.pc = "copying" /\ p.remaining > 0
  BY PipeGoesOn DEF BulkInv, TypeOK, PipeCopy
<1>2. n \in Nat /\ n <= p.remaining /\ n > 0
  BY <1>1, BulkAssumption
<1>3. /\ pipes' = (pipes \ {p}) \cup {q}
      /\ handler' = IF handler[i].pc = "closed" THEN handler
                    ELSE [handler EXCEPT ![i].got = @ + n]
      /\ UNCHANGED <<pending, consumed, gone, usedBy>>
  BY DEF PipeCopy
<1> HIDE DEF n
<1>4. /\ q \in Pipe /\ q.pc = p.pc /\ q.sender = p.sender /\ q.receiver = p.receiver
      /\ q.remaining = p.remaining - n
  BY <1>1, <1>2, PipeGoesOn
<1> HIDE DEF q
<1>5. /\ handler' \in [Conns -> Handler \cup {Closed}]
      /\ \A j \in Conns : handler[j].pc = "closed" \/ j # i => handler'[j] = handler[j]
      /\ handler[i].pc # "closed" =>
           /\ handler'[i].pc = handler[i].pc /\ handler'[i].h = handler[i].h
           /\ handler'[i].told = handler[i].told /\ handler'[i].got = handler[i].got + n
  <2>1. handler \in [Conns -> Handler \cup {Closed}]
    BY <1>1 DEF TypeOK
  <2>2. CASE handler[i].pc = "closed"
    BY <1>3, <2>1, <2>2
  <2>3. CASE handler[i].pc # "closed"
    <3> DEFINE r == [handler[i] EXCEPT !.got = @ + n]
    <3>1. /\ r \in Handler /\ r.pc = handler[i].pc /\ r.h = handler[i].h
          /\ r.told = handler[i].told /\ r.got = handler[i].got + n
      <4>1. handler[i] \in Handler
        BY <1>1, <2>3, OpenHandler
      <4>2. QED
        BY <1>2, <4>1, HandlerGets
    <3>2. handler' = [handler EXCEPT ![i] = r]
      BY <1>3, <2>3
    <3> HIDE DEF r
    <3>3. QED
      BY <1>1, <2>1, <2>3, <3>1, <3>2
  <2>4. QED
    BY <2>2, <2>3
<1>6. n \in 1..p.remaining
  BY <1>1, <1>2
<1>7. QED
  BY <1>3, <1>4, <1>5, <1>6

(* What the receiver gets is what no longer remains.                        *)
LEMMA PipeCopyInv ==
  ASSUME BulkInv, NEW p \in pipes, PipeCopy(p)
  PROVE  BulkInv'
<1> DEFINE i == p.receiver
<1>1. /\ TypeOK /\ p \in Pipe /\ p.sender \in Conns /\ i \in Conns /\ p.remaining \in Nat
      /\ p.pc = "copying" /\ p.remaining > 0
  BY PipeGoesOn DEF BulkInv, TypeOK, PipeCopy
<1>2. PICK n \in 1..p.remaining, q \in Pipe :
        /\ q.pc = p.pc /\ q.sender = p.sender /\ q.receiver = p.receiver
        /\ q.remaining = p.remaining - n
        /\ pipes' = (pipes \ {p}) \cup {q}
        /\ handler' \in [Conns -> Handler \cup {Closed}]
        /\ \A j \in Conns : handler[j].pc = "closed" \/ j # i => handler'[j] = handler[j]
        /\ handler[i].pc # "closed" =>
             /\ handler'[i].pc = handler[i].pc /\ handler'[i].h = handler[i].h
             /\ handler'[i].told = handler[i].told /\ handler'[i].got = handler[i].got + n
  BY CopyTurn
<1>3. n \in Nat /\ n > 0 /\ UNCHANGED <<pending, consumed, gone, usedBy>>
  BY <1>1, <1>2 DEF PipeCopy
<1>4. ASSUME handler[i].pc # "closed"
      PROVE  /\ handler'[i].got + q.remaining = handler[i].h.length
             /\ handler[i].told # "complete"
  <2> DEFINE g == handler[i].got
             l == handler[i].h.length
             d == p.remaining
  <2>1. g \in Nat /\ l \in Nat /\ g + d = l
    BY <1>1, <1>4, OpenHandler DEF BulkInv, CopyAddsUp
  <2>2. handler'[i].got = g + n /\ q.remaining = d - n /\ d \in Nat /\ d > 0
    BY <1>1, <1>2, <1>4
  <2>3. handler[i].h.role = "receiver" /\ (handler[i].told = "complete" => g = l)
    BY <1>1, <1>4 DEF BulkInv, PairSound, ExactCopy
  <2> HIDE DEF g, l, d
  <2>4. (g + n) + (d - n) = l /\ g # l
    BY <1>3, <2>1, <2>2
  <2>5. QED
    BY <2>2, <2>3, <2>4 DEF l
<1>5. \A j \in Conns : handler[j].pc # "closed" =>
        /\ handler'[j].pc = handler[j].pc /\ handler'[j].h = handler[j].h
        /\ j # p.receiver => handler'[j].got = handler[j].got
        /\ handler'[j].told = "complete" =>
             \/ handler[j].told = "complete" /\ handler'[j].got = handler[j].got
             \/ j = p.sender
             \/ j = p.receiver /\ q.remaining = 0
  BY <1>2, <1>4
<1>6. /\ q.pc \notin {"complete_sender", "complete_receiver"}
      /\ \A j \in Conns : handler[j].pc = "closed" => handler'[j] = handler[j]
      /\ handler[p.receiver].pc # "closed" =>
           handler'[p.receiver].got + q.remaining = handler[p.receiver].h.length
  BY <1>1, <1>2, <1>4
<1> HIDE DEF i
<1>7. QED
  BY <1>2, <1>3, <1>5, <1>6, PipeStepInv

(* A pipe is over: its ends that still waited for it no longer do, and that *)
(* is all that changes.                                                     *)
LEMMA OverHandlers ==
  ASSUME BulkInv, NEW p \in pipes, Over(p)
  PROVE  \A i \in Conns :
           /\ handler'[i] \in Handler \cup {Closed}
           /\ handler'[i].pc = "closed" <=> handler[i].pc = "closed"
           /\ handler'[i].h = handler[i].h /\ handler'[i].told = handler[i].told
           /\ handler'[i].got = handler[i].got
           /\ \/ handler'[i].pc = handler[i].pc
              \/ i \in Ends(p) /\ handler'[i].pc = "ending"
           /\ i \in Ends(p) => handler'[i].pc # "waiting"
<1>1. handler' = [i \in Conns |->
        IF i \in {p.sender, p.receiver} /\ handler[i].pc \in {"waiting", "joined"}
        THEN [handler[i] EXCEPT !.pc = "ending"] ELSE handler[i]]
  BY DEF Over
<1>2. \A i \in Conns : handler[i].pc \in {"waiting", "joined"} =>
        /\ [handler[i] EXCEPT !.pc = "ending"] \in Handler
        /\ [handler[i] EXCEPT !.pc = "ending"].pc = "ending"
        /\ [handler[i] EXCEPT !.pc = "ending"].h = handler[i].h
        /\ [handler[i] EXCEPT !.pc = "ending"].told = handler[i].told
        /\ [handler[i] EXCEPT !.pc = "ending"].got = handler[i].got
  BY OpenHandler, HandlerGoesOn DEF BulkInv
<1> SUFFICES ASSUME NEW i \in Conns
             PROVE  /\ handler'[i] \in Handler \cup {Closed}
                    /\ handler'[i].pc = "closed" <=> handler[i].pc = "closed"
                    /\ handler'[i].h = handler[i].h /\ handler'[i].told = handler[i].told
                    /\ handler'[i].got = handler[i].got
                    /\ \/ handler'[i].pc = handler[i].pc
                       \/ i \in Ends(p) /\ handler'[i].pc = "ending"
                    /\ i \in Ends(p) => handler'[i].pc # "waiting"
  OBVIOUS
<1>3. CASE i \in Ends(p) /\ handler[i].pc \in {"waiting", "joined"}
  <2>1. handler'[i] = [handler[i] EXCEPT !.pc = "ending"]
    BY <1>1, <1>3 DEF Ends
  <2>2. QED
    BY <1>2, <1>3, <2>1
<1>4. CASE ~(i \in Ends(p) /\ handler[i].pc \in {"waiting", "joined"})
  <2>1. handler'[i] = handler[i] /\ handler[i] \in Handler \cup {Closed}
    BY <1>1, <1>4 DEF Ends, BulkInv, TypeOK
  <2>2. QED
    BY <1>4, <2>1
<1>5. QED
  BY <1>3, <1>4

(* The rest of the handlers, of the pipes and of the tables stays.          *)
LEMMA OverInv ==
  ASSUME BulkInv, NEW p \in pipes, Over(p)
  PROVE  BulkInv'
<1>1. /\ pipes' = pipes \ {p} /\ UNCHANGED <<pending, consumed, gone, usedBy>>
      /\ DOMAIN handler' = Conns /\ handler' = [i \in Conns |-> handler'[i]]
  BY DEF Over
<1>2. \A i \in Conns :
        /\ handler'[i] \in Handler \cup {Closed}
        /\ handler'[i].pc = "closed" <=> handler[i].pc = "closed"
        /\ handler'[i].h = handler[i].h /\ handler'[i].told = handler[i].told
        /\ handler'[i].got = handler[i].got
        /\ \/ handler'[i].pc = handler[i].pc
           \/ i \in Ends(p) /\ handler'[i].pc = "ending"
        /\ i \in Ends(p) => handler'[i].pc # "waiting"
  BY OverHandlers
<1>3. handler' \in [Conns -> Handler \cup {Closed}]
  BY <1>1, <1>2
<1>4. TypeOK'
  BY <1>1, <1>3 DEF BulkInv, TypeOK
<1>5. \A u \in pipes : u.sender \in Conns /\ u.receiver \in Conns
  BY PipeGoesOn DEF BulkInv, TypeOK
<1>6. PipesApart' /\ CopyAddsUp' /\ PairSound'
  <2>1. PairSound'
    <3>1. \A u \in pipes' : \E v \in pipes : u.sender = v.sender /\ u.receiver = v.receiver
      BY <1>1
    <3>2. \A v \in pipes : \A j \in {v.sender, v.receiver} :
            handler'[j].pc # "closed" => handler[j].pc # "closed" /\ handler'[j].h = handler[j].h
      BY <1>2, <1>5
    <3>3. QED
      BY <3>1, <3>2, PairsKept
  <2>2. PipesApart'
    BY <1>1 DEF BulkInv, PipesApart
  <2>3. CopyAddsUp'
    <3>1. \A u \in pipes' : /\ u \in pipes
                            /\ handler'[u.receiver].pc = "closed" <=> handler[u.receiver].pc = "closed"
                            /\ handler'[u.receiver].h = handler[u.receiver].h
                            /\ handler'[u.receiver].got = handler[u.receiver].got
      BY <1>1, <1>2, <1>5
    <3>2. QED
      BY <3>1 DEF BulkInv, CopyAddsUp
  <2>4. QED
    BY <2>1, <2>2, <2>3
<1>7. \A k \in Keys : pending[k] # None => pending[k] \in Conns
  BY DEF BulkInv, TypeOK
<1>8. PendingGotNone'
  BY <1>1, <1>2, <1>7 DEF BulkInv, PendingGotNone
<1>9. PendingIsOpen'
  <2> SUFFICES ASSUME NEW k \in Keys, pending[k] # None
               PROVE  /\ handler'[pending[k]].pc \in {"waiting", "ending"}
                      /\ handler'[pending[k]].h.key = k
                      /\ \A u \in pipes' : pending[k] \notin {u.sender, u.receiver}
    BY <1>1 DEF PendingIsOpen, InPipe
  <2>1. /\ handler[pending[k]].pc \in {"waiting", "ending"}
        /\ handler[pending[k]].h.key = k
        /\ \A u \in pipes : pending[k] \notin {u.sender, u.receiver}
    BY DEF BulkInv, PendingIsOpen, InPipe
  <2>2. QED
    BY <1>1, <1>2, <1>7, <2>1
<1>10. WaiterFindable'
  <2> SUFFICES ASSUME NEW j \in Conns, handler'[j].pc = "waiting"
               PROVE  pending[handler'[j].h.key] = j <=> ~(InPipe(j))'
    BY <1>1 DEF WaiterFindable, InPipe
  <2>1. j \notin Ends(p) /\ handler[j].pc = "waiting" /\ handler'[j].h = handler[j].h
    BY <1>2
  <2>2. (InPipe(j))' <=> InPipe(j)
    BY <1>1, <2>1 DEF InPipe, Ends
  <2>3. pending[handler[j].h.key] = j <=> ~InPipe(j)
    BY <2>1 DEF BulkInv, WaiterFindable, InPipe
  <2>4. QED
    BY <2>1, <2>2, <2>3
<1>11. ExactCopy'
  BY <1>2 DEF BulkInv, ExactCopy
<1>12. QED
  BY <1>4, <1>6, <1>8, <1>9, <1>10, <1>11 DEF BulkInv

-----------------------------------------------------------------------------
(* The theorems                                                             *)

(* No connection has come in the beginning.                                 *)
LEMMA InitInv == Init => BulkInv
<1> SUFFICES ASSUME Init PROVE BulkInv
  OBVIOUS
<1>1. TypeOK
  BY DEF Init, TypeOK
<1>2. PipesApart /\ CopyAddsUp /\ PairSound /\ PendingGotNone /\ PendingIsOpen
  BY DEF Init, PipesApart, CopyAddsUp, PairSound, PendingGotNone, PendingIsOpen
<1>3. WaiterFindable /\ ExactCopy
  BY DEF Init, Closed, WaiterFindable, ExactCopy
<1>4. QED
  BY <1>1, <1>2, <1>3 DEF BulkInv

(* Links, used keys and steps of others do not matter.                      *)
LEMMA RestInv ==
  ASSUME BulkInv, UNCHANGED <<handler, pending, pipes>>,
         gone' \in SUBSET Conns, consumed' \in SUBSET Keys, usedBy' \in [Keys -> Files \cup {None}]
  PROVE  BulkInv'
<1>1. TypeOK' /\ PipesApart' /\ CopyAddsUp' /\ PendingGotNone'
  BY DEF BulkInv, TypeOK, PipesApart, CopyAddsUp, PendingGotNone
<1>2. PairSound'
  BY PairSoundAsFits DEF BulkInv
<1>3. WaiterFindable'
  BY DEF BulkInv, WaiterFindable, InPipe
<1>4. PendingIsOpen'
  BY DEF BulkInv, PendingIsOpen, InPipe
<1>5. ExactCopy'
  BY DEF BulkInv, ExactCopy
<1>6. QED
  BY <1>1, <1>2, <1>3, <1>4, <1>5 DEF BulkInv

(* Every step keeps the invariant.                                          *)
LEMMA StepInv == BulkInv /\ [Next]_vars => BulkInv'
<1> SUFFICES ASSUME BulkInv, [Next]_vars PROVE BulkInv'
  OBVIOUS
<1>1. /\ gone \in SUBSET Conns /\ consumed \in SUBSET Keys
      /\ usedBy \in [Keys -> Files \cup {None}]
  BY DEF BulkInv, TypeOK
<1>2. ASSUME NEW i \in Conns, NEW h \in Headers,
             \/ ConnectUsed(i, h) \/ ConnectTooMany(i, h)
             \/ ConnectFirst(i, h) \/ ConnectMismatch(i, h)
      PROVE  BulkInv'
  <2>1. CASE ConnectUsed(i, h)
    BY <2>1, ConnectInv DEF ConnectUsed
  <2>2. CASE ConnectTooMany(i, h)
    BY <2>2, ConnectInv DEF ConnectTooMany
  <2>3. CASE ConnectFirst(i, h)
    BY <2>3, ConnectInv DEF ConnectFirst
  <2>4. CASE ConnectMismatch(i, h)
    BY <2>4, ConnectInv DEF ConnectMismatch
  <2>5. QED
    BY <1>2, <2>1, <2>2, <2>3, <2>4
<1>3. ASSUME NEW i \in Conns, NEW h \in Headers, ConnectPair(i, h)
      PROVE  BulkInv'
  BY <1>3, ConnectPairInv
<1>4. ASSUME NEW i \in Conns, Refused(i) \/ Resume(i) \/ WaitTimeout(i)
      PROVE  BulkInv'
  BY <1>4, HandlerMovesInv DEF Refused, Resume, WaitTimeout, InPipe
<1>5. ASSUME NEW i \in Conns, Cleanup(i)
      PROVE  BulkInv'
  BY <1>5, CleanupInv
<1>6. ASSUME NEW i \in Conns, LoseLink(i)
      PROVE  BulkInv'
  <2>1. gone' \in SUBSET Conns
    BY <1>1, <1>6 DEF LoseLink
  <2>2. QED
    BY <1>1, <1>6, <2>1, RestInv DEF LoseLink
<1>7. ASSUME NEW p \in pipes, PipeSend(p) \/ PipeCopy(p)
      PROVE  BulkInv'
  BY <1>7, PipeSendInv, PipeCopyInv
<1>8. ASSUME NEW p \in pipes, PipeComplete(p) \/ PipeFail(p)
      PROVE  BulkInv'
  BY <1>8, OverInv DEF PipeComplete, PipeFail
<1>9. ASSUME NEW k \in Keys, Expire(k)
      PROVE  BulkInv'
  <2>1. consumed' \in SUBSET Keys /\ usedBy' \in [Keys -> Files \cup {None}]
    BY <1>1, <1>9 DEF Expire
  <2>2. QED
    BY <1>1, <1>9, <2>1, RestInv DEF Expire
<1>10. CASE UNCHANGED vars
  BY <1>1, <1>10, RestInv DEF vars
<1>11. QED
  BY <1>2, <1>3, <1>4, <1>5, <1>6, <1>7, <1>8, <1>9, <1>10 DEF Next

(* BulkInv holds in every state of BulkRelay.                               *)
THEOREM Invariance == Spec => []BulkInv
<1>1. QED
  BY InitInv, StepInv, PTL DEF Spec

(* Every variable keeps its type: what remains of a transfer is never       *)
(* negative, among others.                                                  *)
THEOREM TypeCorrect == Spec => []TypeOK
<1>1. BulkInv => TypeOK
  BY DEF BulkInv
<1>2. QED
  BY <1>1, Invariance, PTL

(* Only a sender and a receiver that named each other, the transfer and the *)
(* length are paired.                                                       *)
THEOREM PairsAreSound == Spec => []PairSound
<1>1. BulkInv => PairSound
  BY DEF BulkInv
<1>2. QED
  BY <1>1, Invariance, PTL

(* Who waits is found by its partner, or was.                               *)
THEOREM WaitersAreFindable == Spec => []WaiterFindable
<1>1. BulkInv => WaiterFindable
  BY DEF BulkInv
<1>2. QED
  BY <1>1, Invariance, PTL

(* Nobody is paired with a connection that has closed or has a partner.     *)
THEOREM PendingAreOpen == Spec => []PendingIsOpen
<1>1. BulkInv => PendingIsOpen
  BY DEF BulkInv
<1>2. QED
  BY <1>1, Invariance, PTL

(* "Complete" is said only of as many bytes as were declared, for every     *)
(* length and every chunk size.                                             *)
THEOREM CopiesAreExact == Spec => []ExactCopy
<1>1. BulkInv => ExactCopy
  BY DEF BulkInv
<1>2. QED
  BY <1>1, Invariance, PTL

-----------------------------------------------------------------------------
(* What a handler waits for                                                 *)

(* A handler that awaits its pipe's task has one: with the 30 s of those    *)
(* that wait and the lock, which is given up once a refusal is sent, that   *)
(* is why HandlersEnd needs no more than that tasks and timers run.         *)
JoinedHasPipe == \A i \in Conns : handler[i].pc = "joined" => InPipe(i)

(* A step of a pipe that stays keeps its ends, and no handler moves.        *)
LEMMA PipeStepKeepsEnds ==
  ASSUME BulkInv, NEW p \in pipes, PipeSend(p) \/ PipeCopy(p)
  PROVE  /\ \A i \in Conns : InPipe(i) => InPipe(i)'
         /\ \A i \in Conns : handler'[i].pc = handler[i].pc
<1>1. handler \in [Conns -> Handler \cup {Closed}] /\ p \in Pipe
  BY DEF BulkInv, TypeOK
<1>2. PICK q : pipes' = (pipes \ {p}) \cup {q} /\ q.sender = p.sender /\ q.receiver = p.receiver
  <2>1. \A pc : LET q == [p EXCEPT !.pc = pc] IN q.sender = p.sender /\ q.receiver = p.receiver
    BY <1>1 DEF Pipe
  <2>2. \A n : LET q == [p EXCEPT !.remaining = n] IN q.sender = p.sender /\ q.receiver = p.receiver
    BY <1>1 DEF Pipe
  <2>3. CASE PipeSend(p)
    BY <2>1, <2>3 DEF PipeSend, Moved
  <2>4. CASE PipeCopy(p)
    BY <2>2, <2>4 DEF PipeCopy
  <2>5. QED
    BY <2>3, <2>4
<1>3. \A i \in Conns : InPipe(i) => InPipe(i)'
  BY <1>2 DEF InPipe
<1>4. \A i \in Conns : handler'[i].pc = handler[i].pc
  <2>1. \A what : \A j, i \in Conns : Told(handler, j, what)[i].pc = handler[i].pc
    BY <1>1 DEF Told, Handler, Closed
  <2>2. p.sender \in Conns /\ p.receiver \in Conns
    BY <1>1 DEF Pipe
  <2>3. CASE PipeSend(p)
    BY <2>1, <2>2, <2>3 DEF PipeSend
  <2>4. CASE PipeCopy(p)
    BY <1>1, <2>2, <2>4 DEF PipeCopy, Handler, Closed
  <2>5. QED
    BY <2>3, <2>4
<1>5. QED
  BY <1>3, <1>4

(* No handler awaits a task that is over, whichever end timed out, broke or *)
(* was told last.                                                           *)
THEOREM NobodyWaitsInVain == Spec => []JoinedHasPipe
<1>1. Init => JoinedHasPipe
  BY DEF Init, JoinedHasPipe, Closed
<1>2. BulkInv /\ JoinedHasPipe /\ [Next]_vars => JoinedHasPipe'
  <2> SUFFICES ASSUME BulkInv, JoinedHasPipe, [Next]_vars,
                      NEW j \in Conns, handler'[j].pc = "joined"
               PROVE  InPipe(j)'
    BY DEF JoinedHasPipe
  <2>1. handler \in [Conns -> Handler \cup {Closed}]
    BY DEF BulkInv, TypeOK
  <2>2. ASSUME NEW i \in Conns, NEW h \in Headers,
               \/ ConnectUsed(i, h) \/ ConnectTooMany(i, h)
               \/ ConnectFirst(i, h) \/ ConnectMismatch(i, h)
        PROVE  InPipe(j)'
    <3>1. PICK pc \in {"refusing", "waiting"}, told \in {"none", "used", "refused"} :
            Opened(i, h, pc, told) /\ pipes' = pipes
      BY <2>2 DEF ConnectUsed, ConnectTooMany, ConnectFirst, ConnectMismatch
    <3>2. QED
      BY <2>1, <3>1 DEF Opened, JoinedHasPipe, InPipe
  <2>3. ASSUME NEW i \in Conns, NEW h \in Headers, ConnectPair(i, h)
        PROVE  InPipe(j)'
    <3> DEFINE w == pending[h.key]
               p == [pc |-> "created", remaining |-> h.length,
                     sender   |-> IF h.role = "sender" THEN i ELSE w,
                     receiver |-> IF h.role = "receiver" THEN i ELSE w]
    <3>1. pipes' = pipes \cup {p} /\ (p.sender = i \/ p.receiver = i)
      <4>1. h.role \in {"sender", "receiver"}
        BY DEF Headers
      <4>2. pipes' = pipes \cup {p}
        BY <2>3 DEF ConnectPair
      <4>3. p.sender = i \/ p.receiver = i
        BY <4>1
      <4>4. QED
        BY <4>2, <4>3
    <3>2. j # i => handler[j].pc = "joined"
      BY <2>1, <2>3 DEF ConnectPair, Opened
    <3> HIDE DEF p
    <3>3. QED
      BY <3>1, <3>2 DEF JoinedHasPipe, InPipe
  <2>4. ASSUME NEW i \in Conns, Refused(i) \/ Resume(i) \/ WaitTimeout(i) \/ Cleanup(i)
        PROVE  InPipe(j)'
    <3>1. pipes' = pipes /\ (handler[j].pc = "joined" \/ InPipe(j))
      BY <2>1, <2>4 DEF Refused, Resume, WaitTimeout, Cleanup, InPipe, Closed, Handler
    <3>2. QED
      BY <3>1 DEF JoinedHasPipe, InPipe
  <2>5. ASSUME NEW p \in pipes, PipeSend(p) \/ PipeCopy(p)
        PROVE  InPipe(j)'
    BY <2>5, PipeStepKeepsEnds DEF JoinedHasPipe
  <2>6. ASSUME NEW p \in pipes, Over(p)
        PROVE  InPipe(j)'
    <3>1. handler[j].pc = "joined" /\ j \notin {p.sender, p.receiver}
      BY <2>1, <2>6 DEF Over, Handler, Closed
    <3>2. QED
      BY <2>6, <3>1 DEF Over, JoinedHasPipe, InPipe
  <2>7. CASE UNCHANGED <<handler, pipes>>
    BY <2>7 DEF JoinedHasPipe, InPipe
  <2>8. QED
    BY <2>2, <2>3, <2>4, <2>5, <2>6, <2>7
    DEF Next, vars, LoseLink, Expire, PipeComplete, PipeFail
<1>3. QED
  BY <1>1, <1>2, Invariance, PTL DEF Spec
-----------------------------------------------------------------------------
(* What the ends were told                                                  *)

\* What the ends of a pipe at pc were last told
SenderTold(pc) == IF pc = "created" THEN "none"
                  ELSE IF pc \in {"complete_sender", "complete_receiver"} THEN "complete"
                  ELSE "ready"

ReceiverTold(pc) == IF pc \in {"created", "ready_sender"} THEN "none"
                    ELSE IF pc = "complete_receiver" THEN "complete"
                    ELSE "ready"

\* Only its own pipe's task writes to a connection that waits or waited
ToldInStep ==
  /\ \A k \in Keys : pending[k] # None => handler[pending[k]].told = "none"
  /\ \A p \in pipes :
       /\ handler[p.sender].pc # "closed" => handler[p.sender].told = SenderTold(p.pc)
       /\ handler[p.receiver].pc # "closed" => handler[p.receiver].told = ReceiverTold(p.pc)

(* No pipe begins or goes on, and nothing is said to a connection that has  *)
(* one or waits for one.                                                    *)
LEMMA ToldKept ==
  ASSUME BulkInv, ToldInStep, pipes' \subseteq pipes,
         \A j \in Conns : \/ handler'[j].pc = "closed"
                          \/ handler[j].pc # "closed" /\ handler'[j].told = handler[j].told
                          \/ handler[j].pc = "closed" /\ ~InPipe(j),
         \A k \in Keys : pending'[k] # None =>
           \/ handler'[pending'[k]].told = "none"
           \/ pending'[k] = pending[k] /\ handler'[pending[k]].pc # "closed"
  PROVE  ToldInStep'
<1>1. ASSUME NEW k \in Keys, pending'[k] # None
      PROVE  handler'[pending'[k]].told = "none"
  <2>1. CASE pending'[k] = pending[k] /\ handler'[pending[k]].pc # "closed"
    <3>1. pending[k] \in Conns /\ handler[pending[k]].pc # "closed"
      BY <1>1, <2>1 DEF BulkInv, TypeOK, PendingIsOpen
    <3>2. QED
      BY <1>1, <2>1, <3>1 DEF ToldInStep
  <2>2. QED
    BY <1>1, <2>1
<1>2. ASSUME NEW p \in pipes', NEW j \in {p.sender, p.receiver}, handler'[j].pc # "closed"
      PROVE  handler[j].pc # "closed" /\ handler'[j].told = handler[j].told
  <2>1. p \in pipes /\ j \in Conns /\ InPipe(j)
    BY <1>2, PipeGoesOn DEF BulkInv, TypeOK, InPipe
  <2>2. QED
    BY <1>2, <2>1
<1>3. \A p \in pipes' :
        /\ handler'[p.sender].pc # "closed" => handler'[p.sender].told = SenderTold(p.pc)
        /\ handler'[p.receiver].pc # "closed" => handler'[p.receiver].told = ReceiverTold(p.pc)
  BY <1>2 DEF ToldInStep
<1>4. QED
  BY <1>1, <1>3 DEF ToldInStep

(* A pipe goes on: the others have other ends, and those that wait are in   *)
(* none.                                                                    *)
LEMMA ToldByPipe ==
  ASSUME BulkInv, ToldInStep, NEW p \in pipes, NEW q,
         q.sender = p.sender, q.receiver = p.receiver,
         pipes' = (pipes \ {p}) \cup {q}, pending' = pending,
         \A j \in Conns : j \notin Ends(p) => handler'[j] = handler[j],
         handler'[p.sender].pc # "closed" => handler'[p.sender].told = SenderTold(q.pc),
         handler'[p.receiver].pc # "closed" => handler'[p.receiver].told = ReceiverTold(q.pc)
  PROVE  ToldInStep'
<1>1. \A k \in Keys : pending[k] # None => handler'[pending[k]] = handler[pending[k]]
  BY DEF BulkInv, TypeOK, PendingIsOpen, InPipe, Ends
<1>2. \A k \in Keys : pending'[k] # None => handler'[pending'[k]].told = "none"
  BY <1>1 DEF ToldInStep
<1>3. ASSUME NEW u \in pipes, u # p
      PROVE  handler'[u.sender] = handler[u.sender] /\ handler'[u.receiver] = handler[u.receiver]
  <2>1. u.sender \in Conns /\ u.receiver \in Conns
    BY PipeGoesOn DEF BulkInv, TypeOK
  <2>2. u.sender \notin Ends(p) /\ u.receiver \notin Ends(p)
    BY <1>3 DEF BulkInv, PipesApart, Ends
  <2>3. QED
    BY <2>1, <2>2
<1>4. \A u \in pipes' :
        /\ handler'[u.sender].pc # "closed" => handler'[u.sender].told = SenderTold(u.pc)
        /\ handler'[u.receiver].pc # "closed" => handler'[u.receiver].told = ReceiverTold(u.pc)
  BY <1>3 DEF ToldInStep
<1>5. QED
  BY <1>2, <1>4 DEF ToldInStep

(* PipeSend says what comes next to the one whose turn it is.               *)
LEMMA PipeSendTells ==
  ASSUME BulkInv, NEW p \in pipes, PipeSend(p)
  PROVE  \E q \in Pipe :
           /\ q.sender = p.sender /\ q.receiver = p.receiver /\ q.remaining = p.remaining
           /\ pipes' = (pipes \ {p}) \cup {q}
           /\ \/ /\ handler' = handler /\ SenderTold(q.pc) = SenderTold(p.pc)
                 /\ ReceiverTold(q.pc) = ReceiverTold(p.pc)
              \/ /\ handler' = Told(handler, p.sender, SenderTold(q.pc))
                 /\ ReceiverTold(q.pc) = ReceiverTold(p.pc)
                 /\ \/ SenderTold(p.pc) = "none" /\ SenderTold(q.pc) = "ready"
                    \/ /\ SenderTold(p.pc) = "ready" /\ SenderTold(q.pc) = "complete"
                       /\ p.remaining = 0
              \/ /\ handler' = Told(handler, p.receiver, ReceiverTold(q.pc))
                 /\ SenderTold(q.pc) = SenderTold(p.pc)
                 /\ \/ ReceiverTold(p.pc) = "none" /\ ReceiverTold(q.pc) = "ready"
                    \/ /\ ReceiverTold(p.pc) = "ready" /\ ReceiverTold(q.pc) = "complete"
                       /\ p.remaining = 0
<1>1. p \in Pipe
  BY DEF BulkInv, TypeOK
<1>2. \A c \in PipePcs : LET q == [p EXCEPT !.pc = c] IN
        /\ q \in Pipe /\ q.pc = c /\ q.sender = p.sender /\ q.receiver = p.receiver
        /\ q.remaining = p.remaining
        /\ Moved(p, c) <=> pipes' = (pipes \ {p}) \cup {q}
  BY <1>1, PipeGoesOn DEF Moved
<1>3. CASE p.pc = "created"
  <2>1. Moved(p, "ready_sender") /\ handler' = Told(handler, p.sender, "ready")
    BY <1>3 DEF PipeSend
  <2>2. QED
    BY <1>2, <1>3, <2>1 DEF PipePcs, SenderTold, ReceiverTold
<1>4. CASE p.pc = "ready_sender"
  <2>1. Moved(p, "ready_receiver") /\ handler' = Told(handler, p.receiver, "ready")
    BY <1>4 DEF PipeSend
  <2>2. QED
    BY <1>2, <1>4, <2>1 DEF PipePcs, SenderTold, ReceiverTold
<1>5. CASE p.pc = "ready_receiver"
  <2>1. Moved(p, "copying") /\ handler' = handler
    BY <1>5 DEF PipeSend
  <2>2. QED
    BY <1>2, <1>5, <2>1 DEF PipePcs, SenderTold, ReceiverTold
<1>6. CASE p.pc = "copying"
  <2>1. /\ Moved(p, "complete_sender") /\ handler' = Told(handler, p.sender, "complete")
        /\ p.remaining = 0
    BY <1>6 DEF PipeSend
  <2>2. QED
    BY <1>2, <1>6, <2>1 DEF PipePcs, SenderTold, ReceiverTold
<1>7. CASE p.pc = "complete_sender"
  <2>1. Moved(p, "complete_receiver") /\ handler' = Told(handler, p.receiver, "complete")
    BY <1>7 DEF PipeSend
  <2>2. p.remaining = 0
    BY <1>7 DEF BulkInv, CopyAddsUp
  <2>3. QED
    BY <1>2, <1>7, <2>1, <2>2 DEF PipePcs, SenderTold, ReceiverTold
<1>8. QED
  BY <1>3, <1>4, <1>5, <1>6, <1>7 DEF PipeSend
(* What a pipe says, and nothing else, changes what its ends were told.     *)
LEMMA ToldStep == BulkInv /\ ToldInStep /\ [Next]_vars => ToldInStep'
<1> SUFFICES ASSUME BulkInv, ToldInStep, [Next]_vars PROVE ToldInStep'
  OBVIOUS
<1>1. /\ TypeOK /\ handler \in [Conns -> Handler \cup {Closed}]
      /\ pending \in [Keys -> Conns \cup {None}] /\ None \notin Conns
  BY BulkAssumption DEF BulkInv, TypeOK
<1>2. \A k \in Keys : pending[k] # None =>
        pending[k] \in Conns /\ handler[pending[k]].pc # "closed"
  BY <1>1 DEF BulkInv, PendingIsOpen
<1>3. ASSUME NEW i \in Conns, NEW h \in Headers,
             ConnectUsed(i, h) \/ ConnectTooMany(i, h) \/ ConnectMismatch(i, h)
      PROVE  ToldInStep'
  <2>1. PICK m \in {"used", "refused"} :
          /\ Opened(i, h, "refusing", m) /\ handler[i].pc = "closed" /\ ~InPipe(i)
          /\ pipes' = pipes /\ pending' = pending
    BY <1>3 DEF ConnectUsed, ConnectTooMany, ConnectMismatch, Unused
  <2>2. \A j \in Conns : j # i => handler'[j] = handler[j]
    BY <1>1, <2>1, OpenedHandler
  <2>3. \A k \in Keys : pending[k] # None => handler'[pending[k]].pc # "closed"
    BY <1>2, <2>1, <2>2
  <2>4. QED
    BY <2>1, <2>2, <2>3, ToldKept
<1>4. ASSUME NEW i \in Conns, NEW h \in Headers, ConnectFirst(i, h)
      PROVE  ToldInStep'
  <2>1. /\ Opened(i, h, "waiting", "none") /\ handler[i].pc = "closed" /\ ~InPipe(i)
        /\ pipes' = pipes /\ pending' = [pending EXCEPT ![h.key] = i]
    BY <1>4 DEF ConnectFirst, Unused
  <2>2. handler'[i].told = "none" /\ \A j \in Conns : j # i => handler'[j] = handler[j]
    BY <1>1, <2>1, OpenedHandler
  <2>3. \A k \in Keys : pending'[k] # None => pending'[k] = i \/ pending'[k] = pending[k]
    BY <1>1, <2>1
  <2>4. \A k \in Keys : pending[k] # None => handler'[pending[k]].pc # "closed"
    BY <1>2, <2>1, <2>2
  <2>5. QED
    BY <2>1, <2>2, <2>3, <2>4, ToldKept
<1>5. ASSUME NEW i \in Conns, NEW h \in Headers, ConnectPair(i, h)
      PROVE  ToldInStep'
  <2> DEFINE w == pending[h.key]
             new == [pc |-> "created", remaining |-> h.length,
                     sender   |-> IF h.role = "sender" THEN i ELSE w,
                     receiver |-> IF h.role = "receiver" THEN i ELSE w]
  <2>1. /\ Opened(i, h, "joined", "none") /\ handler[i].pc = "closed" /\ ~InPipe(i)
        /\ pipes' = pipes \cup {new} /\ pending' = [pending EXCEPT ![h.key] = None]
        /\ w # None /\ h.key \in Keys
    BY <1>5 DEF ConnectPair, Unused, Headers
  <2>2. handler'[i].told = "none" /\ \A j \in Conns : j # i => handler'[j] = handler[j]
    BY <1>1, <2>1, OpenedHandler
  <2>3. handler'[w].told = "none" /\ new.sender \in {i, w} /\ new.receiver \in {i, w}
        /\ new.pc = "created"
    <3>1. w \in Conns /\ w # i /\ handler[w].told = "none"
      BY <1>2, <2>1 DEF ToldInStep
    <3>2. QED
      BY <2>2, <3>1
  <2> HIDE DEF new
  <2>4. \A k \in Keys : pending'[k] # None =>
          handler'[pending'[k]].told = "none"
    <3>1. \A k \in Keys : pending'[k] # None =>
            pending'[k] = pending[k] /\ pending[k] \in Conns /\ pending[k] # i
      BY <1>1, <1>2, <2>1
    <3>2. QED
      BY <2>2, <3>1 DEF ToldInStep
  <2>5. \A p \in pipes : p.sender \in Conns /\ p.receiver \in Conns
                           /\ p.sender # i /\ p.receiver # i
    BY <2>1, PipeGoesOn DEF BulkInv, TypeOK, InPipe
  <2>6. \A p \in pipes' :
          /\ handler'[p.sender].pc # "closed" => handler'[p.sender].told = SenderTold(p.pc)
          /\ handler'[p.receiver].pc # "closed" => handler'[p.receiver].told = ReceiverTold(p.pc)
    <3>1. handler'[new.sender].told = SenderTold(new.pc)
            /\ handler'[new.receiver].told = ReceiverTold(new.pc)
      BY <2>2, <2>3 DEF SenderTold, ReceiverTold
    <3>2. QED
      BY <2>1, <2>2, <2>5, <3>1 DEF ToldInStep
  <2>7. QED
    BY <2>4, <2>6 DEF ToldInStep
<1>6. ASSUME NEW i \in Conns, Refused(i) \/ Resume(i) \/ WaitTimeout(i)
      PROVE  ToldInStep'
  <2>1. PICK c \in {"joined", "ending"} :
          /\ handler[i].pc \in {"refusing", "waiting"}
          /\ handler' = [handler EXCEPT ![i].pc = c] /\ pipes' = pipes /\ pending' = pending
    BY <1>6 DEF Refused, Resume, WaitTimeout
  <2>2. handler[i] \in Handler
    BY <1>1, <2>1, OpenHandler
  <2>3. /\ handler'[i].pc = c /\ handler'[i].told = handler[i].told
        /\ \A j \in Conns : j # i => handler'[j] = handler[j]
    <3>1. handler'[i] = [handler[i] EXCEPT !.pc = c]
      BY <1>1, <2>1
    <3>2. QED
      BY <1>1, <2>1, <2>2, <3>1, HandlerGoesOn
  <2>4. \A j \in Conns :
          \/ handler'[j].pc = "closed"
          \/ handler[j].pc # "closed" /\ handler'[j].told = handler[j].told
    BY <2>1, <2>3
  <2>5. \A k \in Keys : pending[k] # None => handler'[pending[k]].pc # "closed"
    BY <1>2, <2>3
  <2>6. QED
    BY <2>1, <2>4, <2>5, ToldKept
<1>7. ASSUME NEW i \in Conns, Cleanup(i)
      PROVE  ToldInStep'
  <2>1. /\ handler' = [handler EXCEPT ![i] = Closed] /\ pipes' = pipes
        /\ pending' = [k \in Keys |-> IF pending[k] = i THEN None ELSE pending[k]]
    BY <1>7 DEF Cleanup
  <2>2. handler'[i].pc = "closed" /\ \A j \in Conns : j # i => handler'[j] = handler[j]
    BY <1>1, <2>1 DEF Closed
  <2>3. \A k \in Keys : pending'[k] # None =>
          pending'[k] = pending[k] /\ handler'[pending[k]].pc # "closed"
    BY <1>2, <2>1, <2>2
  <2>4. \A j \in Conns :
          \/ handler'[j].pc = "closed"
          \/ handler[j].pc # "closed" /\ handler'[j].told = handler[j].told
    BY <2>2
  <2>5. QED
    BY <2>1, <2>3, <2>4, ToldKept
<1>8. ASSUME NEW p \in pipes, PipeSend(p)
      PROVE  ToldInStep'
  <2>1. /\ p \in Pipe /\ p.sender \in Conns /\ p.receiver \in Conns /\ p.sender # p.receiver
        /\ pending' = pending
    BY <1>8, PipeGoesOn DEF BulkInv, TypeOK, PairSound, PipeSend
  <2>2. PICK q \in Pipe :
          /\ q.sender = p.sender /\ q.receiver = p.receiver
          /\ pipes' = (pipes \ {p}) \cup {q}
          /\ \/ /\ handler' = handler /\ SenderTold(q.pc) = SenderTold(p.pc)
                /\ ReceiverTold(q.pc) = ReceiverTold(p.pc)
             \/ /\ handler' = Told(handler, p.sender, SenderTold(q.pc))
                /\ SenderTold(q.pc) \in {"ready", "complete"}
                /\ ReceiverTold(q.pc) = ReceiverTold(p.pc)
             \/ /\ handler' = Told(handler, p.receiver, ReceiverTold(q.pc))
                /\ ReceiverTold(q.pc) \in {"ready", "complete"}
                /\ SenderTold(q.pc) = SenderTold(p.pc)
    BY <1>8, PipeSendTells
  <2>3. /\ handler[p.sender].pc # "closed" => handler[p.sender].told = SenderTold(p.pc)
        /\ handler[p.receiver].pc # "closed" => handler[p.receiver].told = ReceiverTold(p.pc)
    BY DEF ToldInStep
  <2>4. /\ \A j \in Conns : j \notin Ends(p) => handler'[j] = handler[j]
        /\ handler'[p.sender].pc # "closed" => handler'[p.sender].told = SenderTold(q.pc)
        /\ handler'[p.receiver].pc # "closed" => handler'[p.receiver].told = ReceiverTold(q.pc)
    <3>1. CASE /\ handler' = handler /\ SenderTold(q.pc) = SenderTold(p.pc)
               /\ ReceiverTold(q.pc) = ReceiverTold(p.pc)
      BY <2>3, <3>1
    <3>2. CASE /\ handler' = Told(handler, p.sender, SenderTold(q.pc))
               /\ SenderTold(q.pc) \in {"ready", "complete"}
               /\ ReceiverTold(q.pc) = ReceiverTold(p.pc)
      BY <1>1, <2>1, <2>3, <3>2, ToldHandler DEF Ends
    <3>3. CASE /\ handler' = Told(handler, p.receiver, ReceiverTold(q.pc))
               /\ ReceiverTold(q.pc) \in {"ready", "complete"}
               /\ SenderTold(q.pc) = SenderTold(p.pc)
      BY <1>1, <2>1, <2>3, <3>3, ToldHandler DEF Ends
    <3>4. QED
      BY <2>2, <3>1, <3>2, <3>3
  <2>5. QED
    BY <2>1, <2>2, <2>4, ToldByPipe
<1>9. ASSUME NEW p \in pipes, PipeCopy(p)
      PROVE  ToldInStep'
  <2>1. PICK q \in Pipe :
          /\ q.pc = p.pc /\ q.sender = p.sender /\ q.receiver = p.receiver
          /\ pipes' = (pipes \ {p}) \cup {q}
          /\ \A j \in Conns :
               handler[j].pc = "closed" \/ j # p.receiver => handler'[j] = handler[j]
          /\ handler[p.receiver].pc # "closed" =>
               handler'[p.receiver].told = handler[p.receiver].told
    BY <1>9, CopyTurn
  <2>2. /\ p.sender \in Conns /\ p.receiver \in Conns /\ p.sender # p.receiver
        /\ pending' = pending
    BY <1>9, PipeGoesOn DEF BulkInv, TypeOK, PairSound, PipeCopy
  <2>3. /\ \A j \in Conns : j # p.receiver => handler'[j] = handler[j]
        /\ handler'[p.receiver].pc # "closed" =>
             /\ handler[p.receiver].pc # "closed"
             /\ handler'[p.receiver].told = handler[p.receiver].told
    BY <2>1, <2>2
  <2>4. QED
    BY <2>1, <2>2, <2>3, ToldByPipe DEF ToldInStep, Ends
<1>10. ASSUME NEW p \in pipes, Over(p)
      PROVE  ToldInStep'
  <2>1. pipes' \subseteq pipes /\ pending' = pending
    BY <1>10 DEF Over
  <2>2. \A j \in Conns : /\ handler'[j].pc = "closed" <=> handler[j].pc = "closed"
                         /\ handler'[j].told = handler[j].told
    BY <1>10, OverHandlers
  <2>3. \A k \in Keys : pending[k] # None => handler'[pending[k]].pc # "closed"
    BY <1>2, <2>2
  <2>4. QED
    BY <2>1, <2>2, <2>3, ToldKept
<1>11. CASE UNCHANGED <<handler, pending, pipes>>
  BY <1>11 DEF ToldInStep
<1>12. QED
  BY <1>3, <1>4, <1>5, <1>6, <1>7, <1>8, <1>9, <1>10, <1>11
  DEF Next, vars, LoseLink, Expire, PipeComplete, PipeFail
(* What a connection is told is always the next thing its own pipe had to   *)
(* say.                                                                     *)
THEOREM ToldInOrder == Spec => []ToldInStep
<1>1. Init => ToldInStep
  BY DEF Init, ToldInStep
<1>2. QED
  BY <1>1, ToldStep, Invariance, PTL DEF Spec

-----------------------------------------------------------------------------
(* The refinement of BulkTransfer                                           *)

PortConn    == [i \in Conns |-> Seen(handler[i])]
PortLooking == {i \in Conns : \E k \in Keys : pending[k] = i}
PortStreams == {Stream(p) : p \in pipes}

(* One handler's view changes, or none.                                     *)
LEMMA OneSeen ==
  ASSUME NEW i \in Conns, NEW x, Seen(handler'[i]) = x,
         \A j \in Conns : j # i => Seen(handler'[j]) = Seen(handler[j])
  PROVE  PortConn' = [PortConn EXCEPT ![i] = x]
BY DEF PortConn, Seen

(* No handler's view changes.                                               *)
LEMMA NoneSeen ==
  ASSUME \A j \in Conns : Seen(handler'[j]) = Seen(handler[j])
  PROVE  PortConn' = PortConn
BY DEF PortConn, Seen

(* What is seen of an open handler and of a closed one.                     *)
LEMMA SeenOf ==
  /\ \A n : n.pc = "closed" => Seen(n) = Port!NotOpen
  /\ \A n : n.pc # "closed" =>
       /\ Seen(n) = [h |-> n.h, told |-> n.told, got |-> n.got]
       /\ Seen(n).h = n.h /\ Seen(n).told = n.told /\ Seen(n).got = n.got
  /\ Port!NotOpen.told = "closed"
BY DEF Seen, Port!NotOpen

(* The abstract connection is open when the handler is.                     *)
LEMMA SeenOpen ==
  ASSUME TypeOK, NEW i \in Conns
  PROVE  /\ PortConn[i] = Seen(handler[i])
         /\ PortConn[i].told # "closed" <=> handler[i].pc # "closed"
<1>1. PortConn[i] = Seen(handler[i])
  BY DEF PortConn
<1>2. CASE handler[i].pc = "closed"
  BY <1>1, <1>2, SeenOf
<1>3. CASE handler[i].pc # "closed"
  <2>1. handler[i].told # "closed"
    BY <1>3, OpenHandler DEF Handler
  <2>2. QED
    BY <1>1, <1>3, <2>1, SeenOf
<1>4. QED
  BY <1>1, <1>2, <1>3

(* A connection that comes is one the abstract port knows nothing of.       *)
LEMMA ComesNew ==
  ASSUME BulkInv, NEW i \in Conns, Unused(i)
  PROVE  ~Port!IsOpen(i) /\ ~Port!Streaming(i)
<1>1. ~Port!IsOpen(i)
  BY SeenOpen DEF BulkInv, Unused, PortConn, Port!IsOpen
<1>2. \A p \in pipes : i \notin {Stream(p).sender, Stream(p).receiver}
  BY DEF Unused, InPipe, Stream
<1>3. QED
  BY <1>1, <1>2 DEF Port!Streaming

(* A refusal: the key was used, too many wait, or the two do not fit.       *)
LEMMA RefuseMaps ==
  ASSUME BulkInv, NEW i \in Conns, NEW h \in Headers,
         ConnectUsed(i, h) \/ ConnectTooMany(i, h) \/ ConnectMismatch(i, h)
  PROVE  Port!Next
<1> DEFINE m == IF h.key \in consumed THEN "used" ELSE "refused"
<1>1. /\ Unused(i) /\ Opened(i, h, "refusing", m) /\ m \in {"used", "refused"}
      /\ UNCHANGED <<pending, consumed, pipes>>
  BY DEF ConnectUsed, ConnectTooMany, ConnectMismatch
<1> HIDE DEF m
<1>2. /\ handler'[i].pc = "refusing" /\ handler'[i].h = h
      /\ handler'[i].told = m /\ handler'[i].got = 0
      /\ \A j \in Conns : j # i => handler'[j] = handler[j]
  BY <1>1, OpenedHandler DEF BulkInv
<1>3. Seen(handler'[i]) = Port!Opened(h, m)
  BY <1>2, SeenOf DEF Port!Opened
<1>4. PortConn' = [PortConn EXCEPT ![i] = Port!Opened(h, m)]
  BY <1>2, <1>3, OneSeen
<1>5. PortLooking' = PortLooking /\ PortStreams' = PortStreams
  BY <1>1 DEF PortLooking, PortStreams
<1>6. Port!Refuse(i, h)
  BY <1>1, <1>4, <1>5 DEF m, PortConn, PortLooking, PortStreams, Port!Refuse
<1>7. Port!Connect(i)
  BY <1>1, <1>6, ComesNew DEF PortConn, Port!Connect
<1>8. QED
  BY <1>7 DEF Port!Next

(* Who waits under a key looks for the partner of its transfer alone.       *)
LEMMA LookersOf ==
  ASSUME BulkInv
  PROVE  /\ \A k \in Keys : pending[k] # None =>
              pending[k] \in PortLooking /\ handler[pending[k]].h.key = k
         /\ \A j \in PortLooking :
              /\ j \in Conns /\ handler[j].pc # "closed"
              /\ \A k \in Keys : pending[k] = j <=> handler[j].h.key = k
<1>1. /\ pending \in [Keys -> Conns \cup {None}] /\ None \notin Conns
      /\ \A k \in Keys : pending[k] # None =>
           /\ pending[k] \in Conns
           /\ handler[pending[k]].pc # "closed" /\ handler[pending[k]].h.key = k
  BY BulkAssumption DEF BulkInv, TypeOK, PendingIsOpen
<1>2. QED
  BY <1>1 DEF PortLooking

(* The first of a transfer.                                                 *)
LEMMA LookMaps ==
  ASSUME BulkInv, NEW i \in Conns, NEW h \in Headers, ConnectFirst(i, h)
  PROVE  Port!Next
<1>1. /\ Unused(i) /\ Opened(i, h, "waiting", "none") /\ h.key \notin consumed
      /\ pending[h.key] = None /\ pending' = [pending EXCEPT ![h.key] = i]
      /\ UNCHANGED <<consumed, pipes>>
      /\ pending \in [Keys -> Conns \cup {None}] /\ None \notin Conns /\ h.key \in Keys
  BY BulkAssumption DEF ConnectFirst, BulkInv, TypeOK, Headers
<1>2. /\ handler'[i].pc = "waiting" /\ handler'[i].h = h
      /\ handler'[i].told = "none" /\ handler'[i].got = 0
      /\ \A j \in Conns : j # i => handler'[j] = handler[j]
  BY <1>1, OpenedHandler DEF BulkInv
<1>3. Seen(handler'[i]) = Port!Opened(h, "none")
  BY <1>2, SeenOf DEF Port!Opened
<1>4. PortConn' = [PortConn EXCEPT ![i] = Port!Opened(h, "none")]
  BY <1>2, <1>3, OneSeen
<1>5. PortLooking' = PortLooking \cup {i} /\ PortStreams' = PortStreams
  BY <1>1 DEF PortLooking, PortStreams
<1>6. \A j \in PortLooking : PortConn[j].h.key # h.key
  <2>1. ASSUME NEW j \in PortLooking
        PROVE  j \in Conns /\ handler[j].pc # "closed" /\ handler[j].h.key # h.key
    BY <1>1, LookersOf
  <2>2. QED
    BY <2>1, SeenOf DEF PortConn
<1>7. Port!Look(i, h)
  BY <1>1, <1>4, <1>5, <1>6 DEF PortConn, PortLooking, PortStreams, Port!Look
<1>8. Port!Connect(i)
  BY <1>1, <1>7, ComesNew DEF PortConn, Port!Connect
<1>9. QED
  BY <1>8 DEF Port!Next

(* The second, with the connection it finds pending.                        *)
LEMMA MeetMaps ==
  ASSUME BulkInv, NEW i \in Conns, NEW h \in Headers, ConnectPair(i, h)
  PROVE  Port!Next
<1>1. PICK w : w = pending[h.key]
  OBVIOUS
<1> DEFINE s == [rest |-> h.length,
                 sender   |-> IF h.role = "sender" THEN i ELSE w,
                 receiver |-> IF h.role = "receiver" THEN i ELSE w]
<1>2. /\ Unused(i) /\ Opened(i, h, "joined", "none") /\ h.key \notin consumed
      /\ w # None /\ Matches(handler[w].h, h)
      /\ pending' = [pending EXCEPT ![h.key] = None]
      /\ consumed' = consumed \cup {h.key}
      /\ pending \in [Keys -> Conns \cup {None}] /\ None \notin Conns /\ h.key \in Keys
      /\ h.length \in Nat
  BY <1>1, BulkAssumption DEF ConnectPair, BulkInv, TypeOK, Headers
<1>3. /\ handler'[i].pc = "joined" /\ handler'[i].h = h
      /\ handler'[i].told = "none" /\ handler'[i].got = 0
      /\ \A j \in Conns : j # i => handler'[j] = handler[j]
  BY <1>2, OpenedHandler DEF BulkInv
<1>4. Seen(handler'[i]) = Port!Opened(h, "none")
  BY <1>3, SeenOf DEF Port!Opened
<1>5. PortConn' = [PortConn EXCEPT ![i] = Port!Opened(h, "none")]
  BY <1>3, <1>4, OneSeen
<1>6. PortLooking' = PortLooking \ {w}
  <2>1. \A k \in Keys : pending'[k] = IF k = h.key THEN None ELSE pending[k]
    BY <1>2
  <2>2. \A k \in Keys : pending[k] = w => k = h.key
    BY <1>1, <1>2, LookersOf
  <2>3. QED
    BY <1>1, <1>2, <2>1, <2>2 DEF PortLooking
<1>7. PortStreams' = PortStreams \cup {s}
  <2> DEFINE p == [pc |-> "created", remaining |-> h.length,
                   sender   |-> IF h.role = "sender" THEN i ELSE w,
                   receiver |-> IF h.role = "receiver" THEN i ELSE w]
  <2>1. pipes' = pipes \cup {p}
    BY <1>1 DEF ConnectPair
  <2>2. Stream(p) = s
    BY DEF Stream
  <2> HIDE DEF p, s
  <2>3. QED
    BY <2>1, <2>2 DEF PortStreams
<1>8. w \in PortLooking /\ Port!Fit(PortConn[w].h, h)
  <2>1. w \in PortLooking /\ w \in Conns /\ handler[w].pc # "closed" /\ handler[w].h.key = h.key
    BY <1>1, <1>2, LookersOf
  <2>2. PortConn[w].h = handler[w].h
    BY <2>1, SeenOf DEF PortConn
  <2>3. QED
    BY <1>2, <2>1, <2>2 DEF Port!Fit, Matches
<1>9. Port!Meet(i, h, w)
  BY <1>2, <1>5, <1>6, <1>7, <1>8 DEF PortConn, PortLooking, PortStreams, Port!Meet
<1>10. Port!Connect(i)
  <2>1. \E v \in PortLooking : Port!Meet(i, h, v)
    BY <1>8, <1>9
  <2> HIDE DEF s
  <2>2. QED
    BY <1>2, <2>1, ComesNew DEF PortConn, PortLooking, Port!Connect
<1>11. QED
  BY <1>10 DEF Port!Next

(* The finally of a handler, with its entry if it still has one.            *)
LEMMA CloseMaps ==
  ASSUME BulkInv, NEW i \in Conns, Cleanup(i)
  PROVE  Port!Next
<1>1. /\ handler[i].pc = "ending" /\ handler' = [handler EXCEPT ![i] = Closed]
      /\ pending' = [k \in Keys |-> IF pending[k] = i THEN None ELSE pending[k]]
      /\ UNCHANGED <<consumed, pipes>> /\ None \notin Conns
      /\ handler \in [Conns -> Handler \cup {Closed}]
  BY BulkAssumption DEF Cleanup, BulkInv, TypeOK
<1>2. handler'[i].pc = "closed" /\ \A j \in Conns : j # i => handler'[j] = handler[j]
  BY <1>1 DEF Closed
<1>3. PortConn' = [PortConn EXCEPT ![i] = Port!NotOpen]
  BY <1>2, SeenOf, OneSeen
<1>4. PortLooking' = PortLooking \ {i} /\ PortStreams' = PortStreams
  BY <1>1 DEF PortLooking, PortStreams
<1>5. Port!IsOpen(i)
  BY <1>1, SeenOpen DEF BulkInv, PortConn, Port!IsOpen
<1>6. Port!Close(i)
  BY <1>1, <1>3, <1>4, <1>5 DEF PortConn, PortLooking, PortStreams, Port!Close
<1>7. QED
  BY <1>6 DEF Port!Next

(* No two pipes are the same stream.                                        *)
LEMMA StreamsApart ==
  ASSUME BulkInv, NEW p \in pipes
  PROVE  /\ Stream(p) \in PortStreams /\ Stream(p).rest = p.remaining
         /\ Stream(p).sender = p.sender /\ Stream(p).receiver = p.receiver
         /\ \A u \in pipes : u # p => Stream(u) # Stream(p)
<1>1. \A u : Stream(u).rest = u.remaining /\ Stream(u).sender = u.sender
               /\ Stream(u).receiver = u.receiver
  BY DEF Stream
<1>2. \A u \in pipes : u # p => u.sender # p.sender
  BY DEF BulkInv, PipesApart, Ends
<1>3. QED
  BY <1>1, <1>2 DEF PortStreams

(* What is seen of a handler that is written to.                            *)
LEMMA SeenGets ==
  ASSUME NEW h, NEW a, NEW g, NEW r, r = [h |-> h, told |-> a, got |-> g]
  PROVE  /\ \A m : [r EXCEPT !.told = m] = [h |-> h, told |-> m, got |-> g]
         /\ \A n : [r EXCEPT !.got = @ + n] = [h |-> h, told |-> a, got |-> g + n]
OBVIOUS

(* A message to an end that is still open, in its turn.                     *)
LEMMA TellMaps ==
  ASSUME BulkInv, ToldInStep, NEW p \in pipes, PipeSend(p)
  PROVE  Port!Next \/ UNCHANGED Port!vars
<1>1. /\ TypeOK /\ p \in Pipe /\ p.sender \in Conns /\ p.receiver \in Conns
      /\ UNCHANGED <<pending, consumed>>
  BY PipeGoesOn DEF BulkInv, TypeOK, PipeSend
<1>2. PICK q \in Pipe :
        /\ q.sender = p.sender /\ q.receiver = p.receiver /\ q.remaining = p.remaining
        /\ pipes' = (pipes \ {p}) \cup {q}
        /\ \/ handler' = handler
           \/ \E i \in {p.sender, p.receiver}, a, m \in {"none", "ready", "complete"} :
                /\ handler' = Told(handler, i, m)
                /\ handler[i].pc # "closed" => handler[i].told = a
                /\ \/ a = "none" /\ m = "ready"
                   \/ a = "ready" /\ m = "complete" /\ p.remaining = 0
  <2>1. /\ handler[p.sender].pc # "closed" => handler[p.sender].told = SenderTold(p.pc)
        /\ handler[p.receiver].pc # "closed" => handler[p.receiver].told = ReceiverTold(p.pc)
    BY DEF ToldInStep
  <2>2. QED
    BY <2>1, PipeSendTells
<1>3. PortStreams' = PortStreams
  <2>1. Stream(q) = Stream(p)
    BY <1>2 DEF Stream
  <2>2. QED
    BY <1>2, <2>1 DEF PortStreams
<1>4. PortLooking' = PortLooking
  BY <1>1 DEF PortLooking
<1>5. CASE handler' = handler
  <2>1. PortConn' = PortConn
    BY <1>5 DEF PortConn
  <2>2. QED
    BY <1>1, <1>3, <1>4, <2>1 DEF PortConn, PortLooking, PortStreams, Port!vars
<1>6. ASSUME NEW i \in {p.sender, p.receiver}, NEW a, NEW m \in {"ready", "complete"},
             handler' = Told(handler, i, m),
             handler[i].pc # "closed" => handler[i].told = a,
             \/ a = "none" /\ m = "ready"
             \/ a = "ready" /\ m = "complete" /\ p.remaining = 0,
             handler[i].pc # "closed"
      PROVE  Port!Next
  <2>1. /\ i \in Conns /\ handler'[i].pc # "closed" /\ handler'[i].h = handler[i].h
        /\ handler'[i].told = m /\ handler'[i].got = handler[i].got
        /\ \A j \in Conns : j # i => handler'[j] = handler[j]
    BY <1>1, <1>6, ToldHandler
  <2>2. /\ Seen(handler[i]) = [h |-> handler[i].h, told |-> a, got |-> handler[i].got]
        /\ Seen(handler'[i]) = [h |-> handler[i].h, told |-> m, got |-> handler[i].got]
    BY <1>6, <2>1, SeenOf
  <2>3. Seen(handler'[i]) = [Seen(handler[i]) EXCEPT !.told = m]
    BY <2>2, SeenGets
  <2>4. PortConn' = [PortConn EXCEPT ![i] = [Seen(handler[i]) EXCEPT !.told = m]]
    BY <2>1, <2>3, OneSeen
  <2>5. PortConn[i] = Seen(handler[i])
    BY <2>1 DEF PortConn
  <2>6. PortConn' = [PortConn EXCEPT ![i].told = m]
    BY <2>4, <2>5
  <2>7. Port!IsOpen(i) /\ PortConn[i].told = a
    BY <1>1, <1>6, <2>1, <2>2, <2>5, SeenOpen DEF PortConn, Port!IsOpen
  <2>8. Port!Tell(Stream(p), i, m)
    BY <1>1, <1>3, <1>4, <1>6, <2>6, <2>7, StreamsApart
    DEF PortConn, PortLooking, PortStreams, Port!Tell
  <2>9. Stream(p) \in PortStreams /\ i \in Conns
    BY <2>1, StreamsApart
  <2>10. QED
    BY <2>8, <2>9 DEF PortStreams, Port!Next
<1>7. QED
  BY <1>2, <1>5, <1>6 DEF Told

(* A turn of the copy loop, for a receiver that was told "ready".           *)
LEMMA CopyMaps ==
  ASSUME BulkInv, ToldInStep, NEW p \in pipes, PipeCopy(p)
  PROVE  Port!Next
<1> DEFINE i == p.receiver
<1>1. /\ i \in Conns /\ UNCHANGED <<pending, consumed>>
      /\ handler[i].pc # "closed" => handler[i].told = "ready"
  BY PipeGoesOn DEF BulkInv, TypeOK, PipeCopy, ToldInStep, ReceiverTold
<1>2. PICK n \in 1..p.remaining, q \in Pipe :
        /\ q.pc = p.pc /\ q.sender = p.sender /\ q.receiver = p.receiver
        /\ q.remaining = p.remaining - n
        /\ pipes' = (pipes \ {p}) \cup {q}
        /\ \A j \in Conns : handler[j].pc = "closed" \/ j # i => handler'[j] = handler[j]
        /\ handler[i].pc # "closed" =>
             /\ handler'[i].pc = handler[i].pc /\ handler'[i].h = handler[i].h
             /\ handler'[i].told = handler[i].told /\ handler'[i].got = handler[i].got + n
  BY CopyTurn
<1>3. PortLooking' = PortLooking
  BY <1>1 DEF PortLooking
<1>4. PortStreams' = (PortStreams \ {Stream(p)}) \cup {[Stream(p) EXCEPT !.rest = @ - n]}
  <2>1. Stream(q) = [Stream(p) EXCEPT !.rest = @ - n]
    BY <1>2 DEF Stream
  <2>2. \A u \in pipes : u # p => Stream(u) # Stream(p)
    BY StreamsApart
  <2>3. PortStreams' = (PortStreams \ {Stream(p)}) \cup {Stream(q)}
    BY <1>2, <2>2 DEF PortStreams
  <2>4. QED
    BY <2>1, <2>3
<1>5. PortConn[i] = Seen(handler[i]) /\ (Port!IsOpen(i) <=> handler[i].pc # "closed")
  BY <1>1, SeenOpen DEF BulkInv, PortConn, Port!IsOpen
<1>6. Port!IsOpen(i) => PortConn[i].told = "ready"
  BY <1>1, <1>5, SeenOf
<1>7. PortConn' = IF Port!IsOpen(i) THEN [PortConn EXCEPT ![i].got = @ + n] ELSE PortConn
  <2>1. CASE handler[i].pc = "closed"
    <3>1. PortConn' = PortConn
      BY <1>2, <2>1, NoneSeen
    <3>2. QED
      BY <1>5, <2>1, <3>1
  <2>2. CASE handler[i].pc # "closed"
    <3>1. /\ Seen(handler[i]) = [h |-> handler[i].h,
                                 told |-> handler[i].told, got |-> handler[i].got]
          /\ Seen(handler'[i]) = [h |-> handler[i].h,
                                  told |-> handler[i].told, got |-> handler[i].got + n]
      BY <1>2, <2>2, SeenOf
    <3>2. Seen(handler'[i]) = [Seen(handler[i]) EXCEPT !.got = @ + n]
      BY <3>1, SeenGets
    <3>3. PortConn' = [PortConn EXCEPT ![i] = [Seen(handler[i]) EXCEPT !.got = @ + n]]
      BY <1>1, <1>2, <3>2, OneSeen
    <3>4. QED
      BY <1>5, <2>2, <3>3
  <2>3. QED
    BY <2>1, <2>2
<1>8. Port!Copy(Stream(p), n)
  BY <1>1, <1>2, <1>3, <1>4, <1>6, <1>7, StreamsApart
  DEF PortConn, PortLooking, PortStreams, Port!Copy
<1>9. Stream(p) \in PortStreams /\ n \in 1..Stream(p).rest
  BY <1>2, StreamsApart
<1>10. QED
  BY <1>8, <1>9 DEF PortStreams, Port!Next

(* A pipe that is over, complete or not.                                    *)
LEMMA EndMaps ==
  ASSUME BulkInv, NEW p \in pipes, Over(p)
  PROVE  Port!Next
<1>1. pipes' = pipes \ {p} /\ UNCHANGED <<pending, consumed>>
  BY DEF Over
<1>2. PortConn' = PortConn
  <2>1. \A j \in Conns : /\ handler'[j].pc = "closed" <=> handler[j].pc = "closed"
                         /\ handler'[j].h = handler[j].h /\ handler'[j].told = handler[j].told
                         /\ handler'[j].got = handler[j].got
    BY OverHandlers
  <2>2. \A j \in Conns : Seen(handler'[j]) = Seen(handler[j])
    BY <2>1 DEF Seen
  <2>3. QED
    BY <2>2, NoneSeen
<1>3. PortStreams' = PortStreams \ {Stream(p)}
  BY <1>1, StreamsApart DEF PortStreams
<1>4. PortLooking' = PortLooking
  BY <1>1 DEF PortLooking
<1>5. Port!End(Stream(p))
  BY <1>1, <1>2, <1>3, <1>4 DEF PortConn, PortLooking, PortStreams, Port!End
<1>6. Stream(p) \in PortStreams
  BY StreamsApart
<1>7. QED
  BY <1>5, <1>6 DEF PortStreams, Port!Next

(* What handlers do among themselves, and links, the abstract port does not *)
(* show.                                                                    *)
LEMMA RestMaps ==
  ASSUME BulkInv, UNCHANGED <<pending, pipes>>,
         \/ UNCHANGED handler
         \/ \E i \in Conns : Refused(i) \/ Resume(i) \/ WaitTimeout(i)
  PROVE  /\ UNCHANGED consumed => UNCHANGED Port!vars
         /\ \A k \in Keys : consumed' = consumed \ {k} => Port!Next
<1>1. PortConn' = PortConn
  <2>1. CASE UNCHANGED handler
    BY <2>1 DEF PortConn
  <2>2. ASSUME NEW i \in Conns, Refused(i) \/ Resume(i) \/ WaitTimeout(i)
        PROVE  PortConn' = PortConn
    <3>1. PICK c \in {"joined", "ending"} :
            handler[i].pc \in {"refusing", "waiting"} /\ handler' = [handler EXCEPT ![i].pc = c]
      BY <2>2 DEF Refused, Resume, WaitTimeout
    <3>2. handler[i] \in Handler /\ handler \in [Conns -> Handler \cup {Closed}]
      BY <3>1, OpenHandler DEF BulkInv, TypeOK
    <3>3. /\ handler'[i] = [handler[i] EXCEPT !.pc = c]
          /\ \A j \in Conns : j # i => handler'[j] = handler[j]
      BY <3>1, <3>2
    <3>4. /\ handler'[i].pc = c /\ handler'[i].h = handler[i].h
          /\ handler'[i].told = handler[i].told /\ handler'[i].got = handler[i].got
      BY <3>2, <3>3, HandlerGoesOn
    <3>5. Seen(handler'[i]) = Seen(handler[i])
      BY <3>1, <3>4 DEF Seen
    <3>6. QED
      BY <3>3, <3>5, NoneSeen
  <2>3. QED
    BY <2>1, <2>2
<1>2. PortLooking' = PortLooking /\ PortStreams' = PortStreams
  BY DEF PortLooking, PortStreams
<1>3. UNCHANGED consumed => UNCHANGED Port!vars
  BY <1>1, <1>2 DEF PortConn, PortLooking, PortStreams, Port!vars
<1>4. ASSUME NEW k \in Keys, consumed' = consumed \ {k}
      PROVE  Port!Next
  <2>1. Port!Forget(k)
    BY <1>1, <1>2, <1>4 DEF PortConn, PortLooking, PortStreams, Port!Forget
  <2>2. QED
    BY <2>1 DEF Port!Next
<1>5. QED
  BY <1>3, <1>4

(* The bulk port, with its tables, its lock, its tasks and its time-outs,   *)
(* implements BulkTransfer.                                                 *)
THEOREM PortIsKept == Spec => KeepsPort
<1>1. Init => Port!Init
  BY BulkAssumption DEF Init, Seen, Stream, Closed, Port!Init, Port!NotOpen
<1>2. BulkInv /\ ToldInStep /\ [Next]_vars => [Port!Next]_(Port!vars)
  <2> SUFFICES ASSUME BulkInv, ToldInStep, [Next]_vars
               PROVE  Port!Next \/ UNCHANGED Port!vars
    OBVIOUS
  <2>1. ASSUME NEW i \in Conns, NEW h \in Headers,
               \/ ConnectUsed(i, h) \/ ConnectTooMany(i, h)
               \/ ConnectFirst(i, h) \/ ConnectMismatch(i, h) \/ ConnectPair(i, h)
        PROVE  Port!Next
    BY <2>1, RefuseMaps, LookMaps, MeetMaps
  <2>2. ASSUME NEW i \in Conns, Refused(i) \/ Resume(i) \/ WaitTimeout(i)
        PROVE  UNCHANGED Port!vars
    <3>1. UNCHANGED <<pending, pipes, consumed>>
      BY <2>2 DEF Refused, Resume, WaitTimeout
    <3>2. QED
      BY <2>2, <3>1, RestMaps
  <2>3. ASSUME NEW i \in Conns, Cleanup(i)
        PROVE  Port!Next
    BY <2>3, CloseMaps
  <2>4. ASSUME NEW p \in pipes, PipeSend(p) \/ PipeCopy(p) \/ PipeComplete(p) \/ PipeFail(p)
        PROVE  Port!Next \/ UNCHANGED Port!vars
    BY <2>4, TellMaps, CopyMaps, EndMaps DEF PipeComplete, PipeFail
  <2>5. ASSUME NEW k \in Keys, Expire(k)
        PROVE  Port!Next
    <3>1. UNCHANGED <<handler, pending, pipes>> /\ consumed' = consumed \ {k}
      BY <2>5 DEF Expire
    <3>2. QED
      BY <3>1, RestMaps
  <2>6. CASE UNCHANGED <<handler, pending, pipes, consumed>>
    BY <2>6, RestMaps
  <2>7. QED
    BY <2>1, <2>2, <2>3, <2>4, <2>5, <2>6 DEF Next, LoseLink, vars
<1>3. QED
  BY <1>1, <1>2, Invariance, ToldInOrder, PTL DEF Spec, KeepsPort, Port!Spec
=============================================================================
