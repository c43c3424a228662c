----------------------------- MODULE BulkRelay -----------------------------
(***************************************************************************)
(* The bulk port of server/appserve_server/service.py: handle_bulk pairs a  *)
(* sender's and a receiver's connection that name the same session and      *)
(* transfer, _pipe_bulk and _copy_bulk_ciphertext copy the declared bytes.  *)
(*                                                                          *)
(* bulk_lock is held across an await only while a refusal is being sent, by *)
(* a handler that has put the tables back.  A handler leaves through the    *)
(* lock as well: one whose wait timed out can find itself paired before it  *)
(* is its turn.  Times (30 s to be paired, 10 min to copy, 10 min of a used *)
(* key) are events that may happen at any moment they are running.          *)
(***************************************************************************)
EXTENDS Naturals, FiniteSets

CONSTANTS
  Keys,        \* "session_id:transfer_id"
  Endpoints,   \* endpoint identifiers
  Files,       \* the files of a transfer; no message of the bulk port has it
  Lengths,     \* declared ciphertext lengths
  Chunk,       \* bytes read at once (256 KiB)
  MaxPending,  \* MAX_PENDING_BULK
  Conns,       \* bulk connections
  None

ASSUME BulkAssumption ==
  /\ Lengths \subseteq Nat \ {0}
  /\ Chunk \in Nat \ {0}
  /\ MaxPending \in Nat
  /\ None \notin Conns \cup Files

VARIABLES
  handler,   \* the handlers of bulk connections
  pending,   \* pending_bulk: the connection waiting under each key
  consumed,  \* consumed_bulk: keys paired in the last 10 minutes
  pipes,     \* the running _pipe_bulk tasks
  gone,      \* connections that broke or were closed
  usedBy     \* history: the file each consumed key was last paired for

vars == <<handler, pending, consumed, pipes, gone, usedBy>>

\* bulk_connect as _BulkConnection keeps it: me is the header's "sender"
Headers == {h \in [key : Keys, role : {"sender", "receiver"}, me : Endpoints,
                   peer : Endpoints, length : Lengths, file : Files] : h.me # h.peer}

\* The await a handler stands at: sending a refusal with the lock held, for a
\* partner, for the task, for the lock in its finally.  told and got: the
\* message last sent to it and the bytes copied to it.
Handler == [pc : {"refusing", "waiting", "joined", "ending"}, h : Headers,
            told : {"none", "ready", "complete", "used", "refused"}, got : Nat]

Closed == [pc |-> "closed"]

\* A pipe: the await the task stands at
PipePcs == {"created", "ready_sender", "ready_receiver", "copying",
            "complete_sender", "complete_receiver"}

Pipe == [pc : PipePcs, sender : Conns, receiver : Conns, remaining : Nat]

TypeOK ==
  /\ handler \in [Conns -> Handler \cup {Closed}]
  /\ pending \in [Keys -> Conns \cup {None}]
  /\ consumed \in SUBSET Keys
  /\ pipes \in SUBSET Pipe
  /\ gone \in SUBSET Conns
  /\ usedBy \in [Keys -> Files \cup {None}]

Init ==
  /\ handler = [i \in Conns |-> Closed]
  /\ pending = [k \in Keys |-> None]
  /\ consumed = {}
  /\ pipes = {}
  /\ gone = {}
  /\ usedBy = [k \in Keys |-> None]

-----------------------------------------------------------------------------
(* handle_bulk                                                              *)

Locked == \E i \in Conns : handler[i].pc = "refusing"

InPipe(i) == \E p \in pipes : i \in {p.sender, p.receiver}

Opened(i, h, pc, told) ==
  handler' = [handler EXCEPT ![i] = [pc |-> pc, h |-> h, told |-> told, got |-> 0]]

\* A faulty comparison, for a mutation of Matches: the length is not compared
MatchesAnyLength(w, h) == w.role # h.role /\ w.me = h.peer /\ w.peer = h.me

\* The comparison of the waiting connection with the one that came
Matches(w, h) ==
  /\ w.role # h.role
  /\ w.me = h.peer
  /\ w.peer = h.me
  /\ w.length = h.length

\* What handle_bulk does under the lock with a well-formed header
Unused(i) == handler[i].pc = "closed" /\ ~InPipe(i) /\ ~Locked

ConnectUsed(i, h) ==
  /\ Unused(i)
  /\ h.key \in consumed
  /\ Opened(i, h, "refusing", "used")
  /\ gone' = gone \ {i}
  /\ UNCHANGED <<pending, consumed, pipes, usedBy>>

ConnectTooMany(i, h) ==
  /\ Unused(i)
  /\ h.key \notin consumed
  /\ pending[h.key] = None
  /\ Cardinality({k \in Keys : pending[k] # None}) >= MaxPending
  /\ Opened(i, h, "refusing", "refused")
  /\ gone' = gone \ {i}
  /\ UNCHANGED <<pending, consumed, pipes, usedBy>>

ConnectFirst(i, h) ==
  /\ Unused(i)
  /\ h.key \notin consumed
  /\ pending[h.key] = None
  /\ Cardinality({k \in Keys : pending[k] # None}) < MaxPending
  /\ pending' = [pending EXCEPT ![h.key] = i]
  /\ Opened(i, h, "waiting", "none")
  /\ gone' = gone \ {i}
  /\ UNCHANGED <<consumed, pipes, usedBy>>

\* A faulty refusal, for a mutation of ConnectMismatch: the entry popped to be
\* compared is not put back
ConnectMismatchEvicts(i, h) ==
  /\ Unused(i)
  /\ h.key \notin consumed
  /\ pending[h.key] # None
  /\ ~Matches(handler[pending[h.key]].h, h)
  /\ Opened(i, h, "refusing", "refused")
  /\ pending' = [pending EXCEPT ![h.key] = None]
  /\ gone' = gone \ {i}
  /\ UNCHANGED <<consumed, pipes, usedBy>>

\* The entry popped is put back before the refusal is sent
ConnectMismatch(i, h) ==
  /\ Unused(i)
  /\ h.key \notin consumed
  /\ pending[h.key] # None
  /\ ~Matches(handler[pending[h.key]].h, h)
  /\ Opened(i, h, "refusing", "refused")
  /\ gone' = gone \ {i}
  /\ UNCHANGED <<pending, consumed, pipes, usedBy>>

ConnectPair(i, h) ==
  LET w == pending[h.key] IN
  /\ Unused(i)
  /\ h.key \notin consumed
  /\ w # None
  /\ Matches(handler[w].h, h)
  /\ pending' = [pending EXCEPT ![h.key] = None]
  /\ consumed' = consumed \cup {h.key}
  /\ usedBy' = [usedBy EXCEPT ![h.key] = h.file]
  /\ pipes' = pipes \cup {[pc |-> "created", remaining |-> h.length,
                           sender   |-> IF h.role = "sender" THEN i ELSE w,
                           receiver |-> IF h.role = "receiver" THEN i ELSE w]}
  /\ Opened(i, h, "joined", "none")
  /\ gone' = gone \ {i}

\* The refusal is sent and the lock released
Refused(i) ==
  /\ handler[i].pc = "refusing"
  /\ handler' = [handler EXCEPT ![i].pc = "ending"]
  /\ UNCHANGED <<pending, consumed, pipes, gone, usedBy>>

\* connection.paired is set when the task has started
Resume(i) ==
  /\ handler[i].pc = "waiting"
  /\ \E p \in pipes : i \in {p.sender, p.receiver} /\ p.pc # "created"
  /\ handler' = [handler EXCEPT ![i].pc = "joined"]
  /\ UNCHANGED <<pending, consumed, pipes, gone, usedBy>>

\* A faulty wait, for a mutation of WaitTimeout: without a timeout, only a
\* connection that broke gives up
WaitForever(i) ==
  /\ handler[i].pc = "waiting"
  /\ i \in gone
  /\ handler' = [handler EXCEPT ![i].pc = "ending"]
  /\ UNCHANGED <<pending, consumed, pipes, gone, usedBy>>

\* asyncio.wait_for gives up after 30 s, paired in the meantime or not
WaitTimeout(i) ==
  /\ handler[i].pc = "waiting"
  /\ handler' = [handler EXCEPT ![i].pc = "ending"]
  /\ UNCHANGED <<pending, consumed, pipes, gone, usedBy>>

\* A faulty finally, for a mutation of Cleanup: the connection stays pending
CleanupKeeps(i) ==
  /\ handler[i].pc = "ending"
  /\ ~Locked
  /\ handler' = [handler EXCEPT ![i] = Closed]
  /\ gone' = gone \cup {i}
  /\ UNCHANGED <<pending, consumed, pipes, usedBy>>

\* The finally: under the lock, the connection leaves pending_bulk; it closes
Cleanup(i) ==
  /\ handler[i].pc = "ending"
  /\ ~Locked
  /\ pending' = [k \in Keys |-> IF pending[k] = i THEN None ELSE pending[k]]
  /\ handler' = [handler EXCEPT ![i] = Closed]
  /\ gone' = gone \cup {i}
  /\ UNCHANGED <<consumed, pipes, usedBy>>

-----------------------------------------------------------------------------
(* _pipe_bulk and _copy_bulk_ciphertext                                     *)

\* The message written to connection i, unless it has been closed
Told(hs, i, what) == IF hs[i].pc = "closed" THEN hs ELSE [hs EXCEPT ![i].told = what]

Moved(p, pc) == pipes' = (pipes \ {p}) \cup {[p EXCEPT !.pc = pc]}

\* bulk_ready and bulk_complete, to the sender and then to the receiver
PipeSend(p) ==
  /\ \/ /\ p.pc = "created"
        /\ Moved(p, "ready_sender")
        /\ handler' = Told(handler, p.sender, "ready")
     \/ /\ p.pc = "ready_sender"
        /\ Moved(p, "ready_receiver")
        /\ handler' = Told(handler, p.receiver, "ready")
     \/ /\ p.pc = "ready_receiver"
        /\ Moved(p, "copying")
        /\ handler' = handler
     \/ /\ p.pc = "copying"
        /\ p.remaining = 0
        /\ Moved(p, "complete_sender")
        /\ handler' = Told(handler, p.sender, "complete")
     \/ /\ p.pc = "complete_sender"
        /\ Moved(p, "complete_receiver")
        /\ handler' = Told(handler, p.receiver, "complete")
  /\ UNCHANGED <<pending, consumed, gone, usedBy>>

\* A faulty turn of the loop, for mutations of PipeCopy: whole chunks are
\* copied, or taken off what remains, at the end too
PipeCopyWhole(p) ==
  /\ p.pc = "copying"
  /\ p.remaining > 0
  /\ pipes' = (pipes \ {p}) \cup
       {[p EXCEPT !.remaining = IF @ < Chunk THEN 0 ELSE @ - Chunk]}
  /\ handler' = IF handler[p.receiver].pc = "closed" THEN handler
                ELSE [handler EXCEPT ![p.receiver].got = @ + Chunk]
  /\ UNCHANGED <<pending, consumed, gone, usedBy>>

PipeCopyBelow(p) ==
  /\ p.pc = "copying"
  /\ p.remaining > 0
  /\ pipes' = (pipes \ {p}) \cup {[p EXCEPT !.remaining = @ - Chunk]}
  /\ UNCHANGED <<handler, pending, consumed, gone, usedBy>>

\* One turn of the copy loop
PipeCopy(p) ==
  LET n == IF p.remaining < Chunk THEN p.remaining ELSE Chunk IN
  /\ p.pc = "copying"
  /\ p.remaining > 0
  /\ pipes' = (pipes \ {p}) \cup {[p EXCEPT !.remaining = @ - n]}
  /\ handler' = IF handler[p.receiver].pc = "closed" THEN handler
                ELSE [handler EXCEPT ![p.receiver].got = @ + n]
  /\ UNCHANGED <<pending, consumed, gone, usedBy>>

\* The task is over, and with it the wait of the handlers that await it
Over(p) ==
  /\ pipes' = pipes \ {p}
  /\ handler' = [i \in Conns |->
       IF i \in {p.sender, p.receiver} /\ handler[i].pc \in {"waiting", "joined"}
       THEN [handler[i] EXCEPT !.pc = "ending"] ELSE handler[i]]
  /\ UNCHANGED <<pending, consumed, gone, usedBy>>

PipeComplete(p) == p.pc = "complete_receiver" /\ Over(p)

\* The copy times out or its source ends, or a write to a broken connection
\* raises
PipeFail(p) ==
  /\ p.pc # "created"
  /\ p.pc = "copying" \/ p.sender \in gone \/ p.receiver \in gone
  /\ Over(p)

-----------------------------------------------------------------------------
LoseLink(i) ==
  /\ handler[i].pc # "closed"
  /\ i \notin gone
  /\ gone' = gone \cup {i}
  /\ UNCHANGED <<handler, pending, consumed, pipes, usedBy>>

\* The 10 minutes of a used key end
Expire(k) ==
  /\ k \in consumed
  /\ consumed' = consumed \ {k}
  /\ usedBy' = [usedBy EXCEPT ![k] = None]
  /\ UNCHANGED <<handler, pending, pipes, gone>>

Next ==
  \/ \E i \in Conns :
       \/ \E h \in Headers :
            \/ ConnectUsed(i, h)
            \/ ConnectTooMany(i, h)
            \/ ConnectFirst(i, h)
            \/ ConnectMismatch(i, h)
            \/ ConnectPair(i, h)
       \/ Refused(i)
       \/ Resume(i)
       \/ WaitTimeout(i)
       \/ Cleanup(i)
       \/ LoseLink(i)
  \/ \E p \in pipes : PipeSend(p) \/ PipeCopy(p) \/ PipeComplete(p) \/ PipeFail(p)
  \/ \E k \in Keys : Expire(k)

Spec == Init /\ [][Next]_vars

(* Handlers and tasks run, the timers fire, and asyncio.Lock serves those   *)
(* who wait for it in turn, hence strong fairness of what needs it.         *)
FairSpec ==
  /\ Spec
  /\ \A i \in Conns :
       /\ WF_vars(Refused(i))
       /\ WF_vars(Resume(i) \/ WaitTimeout(i))
       /\ SF_vars(Cleanup(i))
       /\ WF_vars(\E p \in pipes : i = p.sender
                    /\ (PipeSend(p) \/ PipeCopy(p) \/ PipeComplete(p) \/ PipeFail(p)))

-----------------------------------------------------------------------------
(* Properties                                                               *)

(* Two ends of a pipe that are still open are a sender and a receiver that  *)
(* named each other, the same transfer and the same length, in whatever     *)
(* order they and others came, waited, timed out and were paired.           *)
PairSound ==
  \A p \in pipes :
    /\ p.sender # p.receiver
    /\ handler[p.sender].pc # "closed" => handler[p.sender].h.role = "sender"
    /\ handler[p.receiver].pc # "closed" => handler[p.receiver].h.role = "receiver"
    /\ handler[p.sender].pc # "closed" /\ handler[p.receiver].pc # "closed" =>
         LET s == handler[p.sender].h
             r == handler[p.receiver].h
         IN s.key = r.key /\ s.me = r.peer /\ s.peer = r.me /\ s.length = r.length

(* A connection waits where its partner will find it, or has a pipe: a      *)
(* latecomer that does not match and another's clean-up leave the entry.    *)
WaiterFindable ==
  \A i \in Conns : handler[i].pc = "waiting" =>
    (pending[handler[i].h.key] = i) # InPipe(i)

(* A pending connection's handler still runs and is in no pipe, so that     *)
(* nobody is paired with a connection that closed or has a partner.         *)
PendingIsOpen ==
  \A k \in Keys : pending[k] # None =>
    /\ handler[pending[k]].pc \in {"waiting", "ending"}
    /\ handler[pending[k]].h.key = k
    /\ ~InPipe(pending[k])

(* A receiver is told the transfer is complete only when the bytes copied   *)
(* to it are as many as it declared.                                        *)
ExactCopy ==
  \A i \in Conns : LET n == handler[i] IN
    n.pc # "closed" => /\ n.h.role = "sender" => n.got = 0
                       /\ n.h.role = "receiver" /\ n.told = "complete" => n.got = n.h.length

\* What the two ends of a transfer see of a handler and of a pipe
Seen(n) == IF n.pc = "closed" THEN [told |-> "closed"]
           ELSE [h |-> n.h, told |-> n.told, got |-> n.got]

Stream(p) == [rest |-> p.remaining, sender |-> p.sender, receiver |-> p.receiver]

Port == INSTANCE BulkTransfer WITH
  Requests <- Headers,
  conn     <- [i \in Conns |-> Seen(handler[i])],
  looking  <- {i \in Conns : \E k \in Keys : pending[k] = i},
  streams  <- {Stream(p) : p \in pipes},
  used     <- consumed

(* The bulk port keeps the promise of BulkTransfer, whoever times out, is   *)
(* refused or closes meanwhile: a connection that was refused, closed or    *)
(* had its partner is never paired, and nobody is told or sent anything but *)
(* by its own stream, in order.                                             *)
KeepsPort == Port!Spec

(* Every bulk connection ends: no wait for a partner, a pipe or the lock is *)
(* for ever.                                                                *)
HandlersEnd == \A i \in Conns : handler[i].pc # "closed" ~> handler[i].pc = "closed"

(* "Each file uses a dedicated TCP connection ... paired by a bounded       *)
(* one-time ticket from the encrypted manifest": a connection is refused as *)
(* used only when its own file was paired before.                           *)
UsedMeansThisFile ==
  \A i \in Conns : handler[i].pc = "refusing" /\ handler[i].told = "used" =>
    usedBy[handler[i].h.key] \in {None, handler[i].h.file}
=============================================================================
