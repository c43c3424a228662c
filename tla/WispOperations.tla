--------------------------- MODULE WispOperations ---------------------------
(***************************************************************************)
(* Operations of the Python Wisp runtime, appserve/client.py: what          *)
(* _event_loop and _dispatch_session_body do with a peer's requests, the    *)
(* tasks that receive file transfers, the retained outcomes, and the relay  *)
(* connection they are answered over.                                       *)
(*                                                                          *)
(* One peer.  Its requests may come in any order and any number of times:   *)
(* it retries and resumes after reconnections.  The event loop dispatches   *)
(* one request at a time, callbacks included; only transfer tasks run       *)
(* beside it.  Everything is in memory and ends with the process.           *)
(***************************************************************************)
EXTENDS Naturals, FiniteSets

CONSTANTS
  Actions,    \* operation_ids of actions without files
  Transfers,  \* transfer_ids of file actions, their operation_ids
  MaxActive,  \* MAX_ACTIVE_TRANSFERS_PER_SENDER
  MaxRuns     \* bound of the model: starts of a callback are counted up to it

ASSUME OperationsAssumption ==
  Actions \cap Transfers = {} /\ MaxActive \in Nat /\ MaxRuns \in Nat

Ops == Actions \cup Transfers

Requests == [kind : {"action"}, op : Actions]
       \cup [kind : {"file_begin"}, op : Transfers]
       \cup [kind : {"operation_resume"}, op : Ops]
       \cup [kind : {"state_request"}]

VARIABLES
  link,       \* the event loop runs on a relay connection (_relay_ready)
  loop,       \* where the event loop stands
  completed,  \* _completed_operations: the retained outcomes
  transfer,   \* _transfers, with the await their task stands at
  old,        \* transfers begun more than FILE_TRANSFER_TIMEOUT_SECONDS ago
  runs,       \* history: how often each operation's callback was started
  forgotten,  \* history: outcomes dropped after COMPLETED_OPERATION_TTL_SECONDS
  assets      \* history: actions whose callback returned assets

vars == <<link, loop, completed, transfer, old, runs, forgotten, assets>>

\* "indeterminate" and "error" are outcomes without a response
Outcomes == {"response", "indeterminate", "error"}
Answers == Outcomes \cup {"running", "expired", "ready"}

\* The loop waits for a line; for cancelled transfer tasks, with a request at
\* hand; for an action's callback; for a message to be sent; for the state
\* callback and its answer.
Loop == [pc : {"idle"}]
   \cup [pc : {"expiring"}, req : Requests]
   \cup [pc : {"callback"}, op : Actions]
   \cup [pc : {"sending"}, op : Ops, answer : Answers]
   \cup [pc : {"state"}]

Idle == [pc |-> "idle"]
Sending(o, a) == [pc |-> "sending", op |-> o, answer |-> a]

\* "accepted": in _transfers without a task.  "cancelled": the task has been
\* cancelled and its finally is still to run.
TransferPcs == {"none", "accepted", "receiving", "callback", "sending", "cancelled"}

TypeOK ==
  /\ link \in BOOLEAN
  /\ loop \in Loop
  /\ completed \in [Ops -> Outcomes \cup {"none"}]
  /\ transfer \in [Transfers -> TransferPcs]
  /\ old \in SUBSET Transfers
  /\ runs \in [Ops -> 0..MaxRuns]
  /\ forgotten \in SUBSET Ops
  /\ assets \in SUBSET Actions

Init ==
  /\ link = FALSE
  /\ loop = Idle
  /\ completed = [o \in Ops |-> "none"]
  /\ transfer = [t \in Transfers |-> "none"]
  /\ old = {}
  /\ runs = [o \in Ops |-> 0]
  /\ forgotten = {}
  /\ assets = {}

\* The callback of o is started once more
Started(o) == [runs EXCEPT ![o] = IF @ < MaxRuns THEN @ + 1 ELSE @]

HasTask(t) == transfer[t] \in {"receiving", "callback", "sending"}

-----------------------------------------------------------------------------
(* serve and _serve_once: the connection is made again after every failure. *)
(* Transfers, outcomes and peer sessions outlive it.                        *)

Connect ==
  /\ ~link
  /\ link' = TRUE
  /\ UNCHANGED <<loop, completed, transfer, old, runs, forgotten, assets>>

Disconnect ==
  /\ link
  /\ loop.pc = "idle"
  /\ link' = FALSE
  /\ UNCHANGED <<loop, completed, transfer, old, runs, forgotten, assets>>

-----------------------------------------------------------------------------
(* _dispatch_session_body                                                   *)

\* _expire_file_transfers first, and what it remembers and drops
Expired == {t \in old : transfer[t] # "none"}

\* Faulty expiries, for mutations of Remembered: nothing is retained; or every
\* transfer counts as too old
RememberedNothing == completed
RememberedForAll ==
  [o \in Ops |-> IF o \in Transfers /\ transfer[o] # "none"
                 THEN "indeterminate" ELSE completed[o]]

Remembered == [o \in Ops |-> IF o \in Expired THEN "indeterminate" ELSE completed[o]]

\* It cancels tasks and waits for them
ReceiveExpiring(req) ==
  /\ link
  /\ loop.pc = "idle"
  /\ \E t \in Expired : HasTask(t)
  /\ completed' = Remembered
  /\ transfer' = [t \in Transfers |->
       IF t \notin Expired THEN transfer[t]
       ELSE IF HasTask(t) THEN "cancelled" ELSE "none"]
  /\ old' = old \ {t \in Expired : ~HasTask(t)}
  /\ loop' = [pc |-> "expiring", req |-> req]
  /\ UNCHANGED <<link, runs, forgotten, assets>>

\* _begin_file_action accepts; or it raises, for a limit or a manifest, which
\* is answered, or for the disk, which ends the event loop.  No directory is
\* left behind by a refusal.
BeginFileAction(o, tr) ==
  \/ /\ Cardinality({t \in Transfers : tr[t] # "none"}) < MaxActive
     /\ transfer' = [tr EXCEPT ![o] = "accepted"]
     /\ loop' = Sending(o, "ready")
     /\ UNCHANGED link
  \/ /\ transfer' = tr
     /\ \/ loop' = Sending(o, "error") /\ link' = link
        \/ loop' = Idle /\ link' = FALSE

\* The rest: _expire_completed_operations drops outcomes, then the request,
\* given the retained outcomes c and the transfers tr
Handle(req, c, tr) ==
  LET o == req.op IN
  \/ /\ req.kind = "state_request"
     /\ loop' = [pc |-> "state"]
     /\ transfer' = tr
     /\ UNCHANGED <<link, runs>>
  \/ /\ req.kind = "operation_resume"
     /\ loop' = Sending(o, IF c[o] # "none" THEN c[o]
                           ELSE IF o \in Transfers /\ tr[o] # "none" THEN "running"
                           ELSE "expired")
     /\ transfer' = tr
     /\ UNCHANGED <<link, runs>>
  \/ /\ req.kind \in {"action", "file_begin"}
     /\ c[o] # "none"
     /\ loop' = Sending(o, c[o])
     /\ transfer' = tr
     /\ UNCHANGED <<link, runs>>
  \/ /\ req.kind = "action"
     /\ c[o] = "none"
     /\ runs' = Started(o)
     /\ loop' = [pc |-> "callback", op |-> o]
     /\ transfer' = tr
     /\ UNCHANGED link
  \/ /\ req.kind = "file_begin"
     /\ c[o] = "none" /\ tr[o] # "none"
     /\ loop' = Sending(o, "running")
     /\ transfer' = tr
     /\ UNCHANGED <<link, runs>>
  \/ /\ req.kind = "file_begin"
     /\ c[o] = "none" /\ tr[o] = "none"
     /\ BeginFileAction(o, tr)
     /\ UNCHANGED runs

Dropping(c, fresh) ==
  \E lost \in SUBSET {o \in Ops : c[o] # "none" /\ o \notin fresh} :
    /\ completed' = [o \in Ops |-> IF o \in lost THEN "none" ELSE c[o]]
    /\ forgotten' = forgotten \cup lost

\* No task to wait for
Receive(req) ==
  /\ link
  /\ loop.pc = "idle"
  /\ ~ \E t \in Expired : HasTask(t)
  /\ Dropping(Remembered, Expired)
  /\ old' = old \ Expired
  /\ Handle(req, completed', [t \in Transfers |-> IF t \in Expired THEN "none" ELSE transfer[t]])
  /\ UNCHANGED assets

\* The cancelled tasks are through
Expire ==
  /\ loop.pc = "expiring"
  /\ \A t \in Transfers : transfer[t] # "cancelled"
  /\ Dropping(completed, old)
  /\ old' = {t \in old : transfer[t] # "none"}
  /\ Handle(loop.req, completed', transfer)
  /\ UNCHANGED assets

\* _send_wisp_response of a response with assets sends nothing.
\* _prepare_outbound_assets raises a ValueError, which _event_loop survives, or
\* the `ticket' its result does not have raises an AttributeError, which ends it.
AssetsRaise ==
  /\ loop' = Idle
  /\ link' \in BOOLEAN

\* A faulty end of an action, for a mutation of CallbackReturns: a response is
\* retained with its assets
CallbackReturnsAll ==
  /\ loop.pc = "callback"
  /\ \E r \in {"response", "assets"} :
       /\ completed' = [completed EXCEPT ![loop.op] = r]
       /\ loop' = Idle
  /\ UNCHANGED <<link, transfer, old, runs, forgotten, assets>>

\* The action's callback returns a response, which is retained, or one with
\* assets, which is not
CallbackReturns ==
  LET o == loop.op IN
  /\ loop.pc = "callback"
  /\ \/ /\ completed' = [completed EXCEPT ![o] = "response"]
        /\ loop' = Sending(o, "response")
        /\ UNCHANGED <<link, assets>>
     \/ /\ AssetsRaise
        /\ assets' = assets \cup {o}
        /\ UNCHANGED completed
  /\ UNCHANGED <<transfer, old, runs, forgotten>>

\* A faulty except clause, for a mutation of CallbackRaises: nothing is retained
CallbackRaisesForgets ==
  /\ loop.pc = "callback"
  /\ loop' = Idle
  /\ link' \in BOOLEAN
  /\ UNCHANGED <<completed, transfer, old, runs, forgotten, assets>>

\* It raises: retained, not answered.  _event_loop survives a ValueError only.
CallbackRaises ==
  /\ loop.pc = "callback"
  /\ completed' = [completed EXCEPT ![loop.op] = "indeterminate"]
  /\ loop' = Idle
  /\ link' \in BOOLEAN
  /\ UNCHANGED <<transfer, old, runs, forgotten, assets>>

\* The state callback returns and is answered, or one of the two raises
StateDone ==
  /\ loop.pc = "state"
  /\ loop' = Idle
  /\ link' \in BOOLEAN
  /\ UNCHANGED <<completed, transfer, old, runs, forgotten, assets>>

\* _send_session returns; after `ready' the task is made
Sent ==
  /\ loop.pc = "sending"
  /\ transfer' = IF loop.answer = "ready"
                 THEN [transfer EXCEPT ![loop.op] = "receiving"] ELSE transfer
  /\ loop' = Idle
  /\ UNCHANGED <<link, completed, old, runs, forgotten, assets>>

\* _send_session raises: for the session (a ValueError) or for the connection
SendFails ==
  /\ loop.pc = "sending"
  /\ loop' = Idle
  /\ link' \in BOOLEAN
  /\ UNCHANGED <<completed, transfer, old, runs, forgotten, assets>>

-----------------------------------------------------------------------------
(* _receive_bulk_transfer, the task of a transfer                           *)

\* The files are there and the callback starts
Received(t) ==
  /\ transfer[t] = "receiving"
  /\ runs' = Started(t)
  /\ transfer' = [transfer EXCEPT ![t] = "callback"]
  /\ UNCHANGED <<link, loop, completed, old, forgotten, assets>>

\* A faulty except clause, for a mutation of TaskFails: the error is sent and
\* not retained
TaskFailsForgets(t) ==
  /\ transfer[t] \in {"receiving", "callback"}
  /\ transfer' = [transfer EXCEPT ![t] = "sending"]
  /\ UNCHANGED <<link, loop, completed, old, runs, forgotten, assets>>

\* A file could not be received, or the callback raised
TaskFails(t) ==
  /\ transfer[t] \in {"receiving", "callback"}
  /\ completed' = [completed EXCEPT ![t] = "error"]
  /\ transfer' = [transfer EXCEPT ![t] = "sending"]
  /\ UNCHANGED <<link, loop, old, runs, forgotten, assets>>

\* The callback returned a response; or one with assets, whose AttributeError
\* ends the task with nothing sent
TaskReturns(t) ==
  /\ transfer[t] = "callback"
  /\ \/ /\ completed' = [completed EXCEPT ![t] = "response"]
        /\ transfer' = [transfer EXCEPT ![t] = "sending"]
        /\ UNCHANGED old
     \/ /\ completed' = [completed EXCEPT ![t] = "indeterminate"]
        /\ transfer' = [transfer EXCEPT ![t] = "none"]
        /\ old' = old \ {t}
  /\ UNCHANGED <<link, loop, runs, forgotten, assets>>

\* The message was sent or failed, once there is a connection to try it on
TaskSent(t) ==
  /\ transfer[t] = "sending"
  /\ link
  /\ transfer' = [transfer EXCEPT ![t] = "none"]
  /\ old' = old \ {t}
  /\ UNCHANGED <<link, loop, completed, runs, forgotten, assets>>

\* The finally of a cancelled task (old is cleared by Expire)
TaskCancelled(t) ==
  /\ transfer[t] = "cancelled"
  /\ transfer' = [transfer EXCEPT ![t] = "none"]
  /\ UNCHANGED <<link, loop, completed, old, runs, forgotten, assets>>

\* 10 minutes have passed since file_begin
Age(t) ==
  /\ transfer[t] \notin {"none", "cancelled"}
  /\ t \notin old
  /\ old' = old \cup {t}
  /\ UNCHANGED <<link, loop, completed, transfer, runs, forgotten, assets>>

Next ==
  \/ Connect
  \/ Disconnect
  \/ \E req \in Requests : ReceiveExpiring(req) \/ Receive(req)
  \/ Expire
  \/ CallbackReturns
  \/ CallbackRaises
  \/ StateDone
  \/ Sent
  \/ SendFails
  \/ \E t \in Transfers :
       \/ Received(t)
       \/ TaskFails(t)
       \/ TaskReturns(t)
       \/ TaskSent(t)
       \/ TaskCancelled(t)
       \/ Age(t)

Spec == Init /\ [][Next]_vars

-----------------------------------------------------------------------------
(* Properties                                                               *)

\* The callback of o is running
Executing(o) ==
  \/ loop.pc = "callback" /\ loop.op = o
  \/ o \in Transfers /\ transfer[o] = "callback"

(* No operation runs twice while its outcome is retained, however often the *)
(* peer repeats or resumes it, and whatever times out, fails or reconnects  *)
(* in between.  A response with assets is not retained: such an action that *)
(* is repeated runs again.                                                  *)
AtMostOnce == \A o \in Ops \ (forgotten \cup assets) : runs[o] <= 1

(* What was started has an outcome to resume once it no longer runs: a task *)
(* that is cancelled or fails and a callback that raises leave one too.     *)
OutcomeKept ==
  \A o \in Ops \ (forgotten \cup assets) :
    runs[o] > 0 /\ ~Executing(o) => completed[o] # "none"

(* The peer is told "expired" only of an operation that never started or    *)
(* whose outcome was dropped for its age.                                   *)
ExpiredIsTrue ==
  loop.pc = "sending" /\ loop.answer = "expired" =>
    runs[loop.op] = 0 \/ loop.op \in forgotten \cup assets

(* What a peer was or will be told of an operation does not change: a       *)
(* retained outcome is only dropped for its age, or becomes "indeterminate" *)
(* when the transfer is too old and its task still waits to send it (the    *)
(* overwriting in _expire_file_transfers).                                  *)
OutcomeStable ==
  [][\A o \in Ops :
       completed[o] # "none" /\ completed'[o] # completed[o] =>
         \/ completed'[o] = "none" /\ o \in forgotten'
         \/ completed'[o] = "indeterminate" /\ o \in old /\ transfer[o] = "sending"]_vars

(* docs/protocol/operations.md:5: "The runtime must not execute a completed *)
(* operation twice."  It does when the response had assets.                 *)
CompletedOnce == \A o \in Ops \ forgotten : runs[o] <= 1
=============================================================================
