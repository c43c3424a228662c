------------------------ MODULE WispOperationsProofs ------------------------
(***************************************************************************)
(* Proofs about WispOperations, for every set of operations, every number   *)
(* of transfers and every bound on the counting of runs.                    *)
(***************************************************************************)
EXTENDS WispOperations, TLAPS

-----------------------------------------------------------------------------
(* The inductive invariant.  The three properties about outcomes rest on    *)
(* where an operation stands: a transfer that is accepted and has not run   *)
(* its callback yet was not run before, unless its outcome was dropped; the *)
(* outcome of what is under way is not there yet, except that of a task     *)
(* that waits to send it.                                                   *)

\* What the loop is about to do still fits the transfers
LoopInStep ==
  /\ loop.pc = "callback" => completed[loop.op] = "none"
  /\ loop.pc = "sending" /\ loop.answer = "ready" =>
       loop.op \in Transfers /\ transfer[loop.op] = "accepted"
  /\ loop.pc = "sending" /\ loop.answer = "expired" /\ loop.op \in Transfers =>
       transfer[loop.op] = "none"

\* Tasks are cancelled only for _expire_file_transfers, which waits for them
CancelledForExpiry == \A t \in Transfers : transfer[t] = "cancelled" => loop.pc = "expiring"

\* The same facts of any retained outcomes c, transfers tr and dropped f
NoOutcomeYet(c, tr) ==
  \A t \in Transfers : tr[t] \in {"accepted", "receiving", "callback"} => c[t] = "none"

NotRunYet(tr, f) ==
  \A t \in Transfers : tr[t] \in {"accepted", "receiving"} => runs[t] = 0 \/ t \in f

OperationsInv ==
  /\ TypeOK
  /\ LoopInStep
  /\ CancelledForExpiry
  /\ NoOutcomeYet(completed, transfer)
  /\ NotRunYet(transfer, forgotten)
  /\ AtMostOnce
  /\ OutcomeKept
  /\ ExpiredIsTrue

-----------------------------------------------------------------------------
(* The data                                                                 *)

(* A request names an operation of its kind.                                *)
LEMMA RequestOp ==
  ASSUME NEW req \in Requests
  PROVE  /\ req.kind = "action" => req.op \in Actions
         /\ req.kind = "file_begin" => req.op \in Transfers
         /\ req.kind = "operation_resume" => req.op \in Ops
BY DEF Requests

(* Where the loop stands names an operation.                                *)
LEMMA LoopOp ==
  ASSUME TypeOK
  PROVE  /\ loop.pc = "callback" => loop.op \in Actions
         /\ loop.pc = "sending" => loop.op \in Ops
         /\ loop.pc = "expiring" => loop.req \in Requests
BY DEF TypeOK, Loop

(* Every place the loop goes to is one.                                     *)
LEMMA LoopPlaces ==
  /\ Idle \in Loop /\ Idle.pc = "idle"
  /\ [pc |-> "state"] \in Loop
  /\ \A req \in Requests : [pc |-> "expiring", req |-> req] \in Loop
  /\ \A o \in Actions : [pc |-> "callback", op |-> o] \in Loop
  /\ \A o \in Ops, a \in Answers : Sending(o, a) \in Loop
BY DEF Loop, Idle, Sending

(* A callback that starts is counted, once.                                 *)
LEMMA StartedOnce ==
  ASSUME TypeOK, NEW o \in Ops
  PROVE  /\ Started(o) \in [Ops -> 0..MaxRuns]
         /\ Started(o)[o] <= runs[o] + 1
         /\ \A p \in Ops : p # o => Started(o)[p] = runs[p]
         /\ \A p \in Ops : runs[p] \in Nat
BY OperationsAssumption DEF TypeOK, Started

(* _expire_completed_operations changes an outcome by dropping it, and      *)
(* spares those _expire_file_transfers has just written.                    *)
LEMMA DroppingForgets ==
  ASSUME TypeOK, NEW c \in [Ops -> Outcomes \cup {"none"}], NEW fresh, Dropping(c, fresh)
  PROVE  /\ completed' \in [Ops -> Outcomes \cup {"none"}]
         /\ forgotten' \in SUBSET Ops /\ forgotten \subseteq forgotten'
         /\ \A o \in Ops : completed'[o] = c[o] \/ (completed'[o] = "none" /\ o \in forgotten')
         /\ \A o \in fresh : o \in Ops => completed'[o] = c[o]
BY DEF TypeOK, Dropping

-----------------------------------------------------------------------------
(* A request                                                                *)

\* No task is cancelled, and what OperationsInv says of operations holds of the
\* outcomes c, the transfers tr and the dropped operations f
Settled(c, tr, f) ==
  /\ c \in [Ops -> Outcomes \cup {"none"}]
  /\ tr \in [Transfers -> TransferPcs] /\ f \in SUBSET Ops
  /\ \A t \in Transfers : tr[t] # "cancelled"
  /\ NoOutcomeYet(c, tr)
  /\ NotRunYet(tr, f)
  /\ \A o \in Ops \ (f \cup assets) :
       /\ runs[o] <= 1
       /\ runs[o] > 0 => \/ c[o] # "none"
                         \/ o \in Transfers /\ tr[o] = "callback"

(* Whatever the request asks for, it is answered, runs or is accepted in    *)
(* keeping with the outcomes and transfers it meets.                        *)
LEMMA HandleInv ==
  ASSUME TypeOK, NEW req \in Requests, NEW c, NEW tr, NEW f, Settled(c, tr, f),
         Handle(req, c, tr), completed' = c, forgotten' = f, assets' = assets,
         old' \in SUBSET Transfers
  PROVE  OperationsInv'
<1> DEFINE o == req.op
<1>1. /\ c \in [Ops -> Outcomes \cup {"none"}]
      /\ tr \in [Transfers -> TransferPcs] /\ f \in SUBSET Ops
      /\ \A t \in Transfers : tr[t] # "cancelled"
      /\ NoOutcomeYet(c, tr)
      /\ NotRunYet(tr, f)
  BY DEF Settled
<1>2. \A p \in Ops \ (f \cup assets) :
        /\ runs[p] <= 1
        /\ runs[p] > 0 => \/ c[p] # "none"
                          \/ p \in Transfers /\ tr[p] = "callback"
  BY DEF Settled
<1>3. /\ link \in BOOLEAN /\ runs \in [Ops -> 0..MaxRuns] /\ assets \in SUBSET Actions
      /\ Actions \cap Transfers = {} /\ \A p \in Ops : runs[p] \in Nat
  BY StartedOnce, OperationsAssumption DEF TypeOK
<1>4. ASSUME transfer' = tr, UNCHANGED <<link, runs>>, loop' \in Loop,
             loop'.pc # "callback",
             loop'.pc = "sending" => loop'.answer # "ready",
             loop'.pc = "sending" /\ loop'.answer = "expired" =>
               /\ loop'.op = o /\ o \in Ops /\ c[o] = "none"
               /\ o \in Transfers => tr[o] = "none"
      PROVE  OperationsInv'
  <2>1. TypeOK'
    BY <1>1, <1>3, <1>4 DEF TypeOK
  <2>2. LoopInStep' /\ CancelledForExpiry'
    BY <1>1, <1>4 DEF LoopInStep, CancelledForExpiry
  <2>3. (NoOutcomeYet(completed, transfer))' /\ (NotRunYet(transfer, forgotten))'
    BY <1>1, <1>4 DEF NoOutcomeYet, NotRunYet
  <2>4. AtMostOnce' /\ OutcomeKept'
    BY <1>2, <1>4 DEF AtMostOnce, OutcomeKept, Executing
  <2>5. ExpiredIsTrue'
    BY <1>2, <1>3, <1>4 DEF ExpiredIsTrue
  <2>6. QED
    BY <2>1, <2>2, <2>3, <2>4, <2>5 DEF OperationsInv
<1>5. CASE req.kind = "state_request" /\ loop' = [pc |-> "state"]
           /\ transfer' = tr /\ UNCHANGED <<link, runs>>
  BY <1>4, <1>5, LoopPlaces
<1>6. CASE /\ req.kind = "operation_resume"
           /\ loop' = Sending(o, IF c[o] # "none" THEN c[o]
                                 ELSE IF o \in Transfers /\ tr[o] # "none" THEN "running"
                                 ELSE "expired")
           /\ transfer' = tr /\ UNCHANGED <<link, runs>>
  <2> DEFINE a == IF c[o] # "none" THEN c[o]
                  ELSE IF o \in Transfers /\ tr[o] # "none" THEN "running"
                  ELSE "expired"
  <2>1. o \in Ops /\ a \in Answers
    BY <1>1, <1>6, RequestOp DEF Answers, Outcomes
  <2>2. /\ loop' \in Loop /\ loop'.pc = "sending" /\ loop'.op = o /\ loop'.answer = a
    BY <1>6, <2>1, LoopPlaces DEF Sending
  <2>3. /\ a # "ready"
        /\ a = "expired" => c[o] = "none" /\ (o \in Transfers => tr[o] = "none")
    BY <1>1, <2>1 DEF Outcomes
  <2>4. QED
    BY <1>4, <1>6, <2>1, <2>2, <2>3
<1>7. CASE /\ req.kind \in {"action", "file_begin"} /\ c[o] # "none"
           /\ loop' = Sending(o, c[o])
           /\ transfer' = tr /\ UNCHANGED <<link, runs>>
  <2>1. o \in Ops /\ c[o] \in Outcomes
    BY <1>1, <1>7, RequestOp DEF Ops
  <2>2. /\ loop' \in Loop /\ loop'.pc = "sending" /\ loop'.answer \in Outcomes
    BY <1>7, <2>1, LoopPlaces DEF Sending, Answers
  <2>3. QED
    BY <1>4, <1>7, <2>2 DEF Outcomes
<1>8. CASE /\ req.kind = "action" /\ c[o] = "none"
           /\ runs' = Started(o) /\ loop' = [pc |-> "callback", op |-> o]
           /\ transfer' = tr /\ UNCHANGED link
  <2>1. o \in Actions /\ o \in Ops /\ o \notin Transfers
    BY <1>3, <1>8, RequestOp DEF Ops
  <2>2. loop' \in Loop /\ loop'.pc = "callback" /\ loop'.op = o
    BY <1>8, <2>1, LoopPlaces
  <2>3. /\ runs' \in [Ops -> 0..MaxRuns] /\ runs'[o] <= runs[o] + 1
        /\ \A p \in Ops : p # o => runs'[p] = runs[p]
    BY <1>8, <2>1, StartedOnce
  <2>4. TypeOK'
    BY <1>1, <1>3, <1>8, <2>2, <2>3 DEF TypeOK
  <2>5. LoopInStep' /\ CancelledForExpiry'
    BY <1>1, <1>8, <2>2 DEF LoopInStep, CancelledForExpiry
  <2>6. (NoOutcomeYet(completed, transfer))'
    BY <1>1, <1>8 DEF NoOutcomeYet
  <2>7. (NotRunYet(transfer, forgotten))'
    BY <1>1, <1>8, <2>1, <2>3 DEF NotRunYet, Ops
  <2>8. o \notin f \cup assets => runs[o] = 0
    BY <1>2, <1>3, <1>8, <2>1
  <2>9. AtMostOnce'
    BY <1>2, <1>3, <2>1, <2>3, <2>8 DEF AtMostOnce
  <2>10. OutcomeKept'
    BY <1>2, <1>8, <2>2, <2>3 DEF OutcomeKept, Executing
  <2>11. ExpiredIsTrue'
    BY <2>2 DEF ExpiredIsTrue
  <2>12. QED
    BY <2>4, <2>5, <2>6, <2>7, <2>9, <2>10, <2>11 DEF OperationsInv
<1>9. CASE /\ req.kind = "file_begin" /\ c[o] = "none" /\ tr[o] # "none"
           /\ loop' = Sending(o, "running")
           /\ transfer' = tr /\ UNCHANGED <<link, runs>>
  <2>1. o \in Ops /\ "running" \in Answers
    BY <1>9, RequestOp DEF Ops, Answers
  <2>2. /\ loop' \in Loop /\ loop'.pc = "sending" /\ loop'.answer = "running"
    BY <1>9, <2>1, LoopPlaces DEF Sending
  <2>3. QED
    BY <1>4, <1>9, <2>2
<1>10. CASE /\ req.kind = "file_begin" /\ c[o] = "none" /\ tr[o] = "none"
            /\ BeginFileAction(o, tr) /\ UNCHANGED runs
  <2>1. o \in Transfers /\ o \in Ops /\ {"ready", "error"} \subseteq Answers
    BY <1>10, RequestOp DEF Ops, Answers, Outcomes
  <2>2. CASE transfer' = tr /\ loop' = Sending(o, "error") /\ link' = link
    <3>1. loop' \in Loop /\ loop'.pc = "sending" /\ loop'.answer = "error"
      BY <2>1, <2>2, LoopPlaces DEF Sending
    <3>2. QED
      BY <1>4, <1>10, <2>2, <3>1
  <2>3. CASE transfer' = tr /\ loop' = Idle /\ link' = FALSE
    <3>1. loop' \in Loop /\ loop'.pc = "idle" /\ link' \in BOOLEAN /\ runs' = runs
      BY <1>10, <2>3, LoopPlaces
    <3>2. TypeOK'
      BY <1>1, <1>3, <2>3, <3>1 DEF TypeOK
    <3>3. LoopInStep' /\ CancelledForExpiry' /\ ExpiredIsTrue'
      BY <1>1, <2>3, <3>1 DEF LoopInStep, CancelledForExpiry, ExpiredIsTrue
    <3>4. (NoOutcomeYet(completed, transfer))' /\ (NotRunYet(transfer, forgotten))'
      BY <1>1, <2>3, <3>1 DEF NoOutcomeYet, NotRunYet
    <3>5. AtMostOnce' /\ OutcomeKept'
      BY <1>2, <2>3, <3>1 DEF AtMostOnce, OutcomeKept, Executing
    <3>6. QED
      BY <3>2, <3>3, <3>4, <3>5 DEF OperationsInv
  <2>4. CASE transfer' = [tr EXCEPT ![o] = "accepted"] /\ loop' = Sending(o, "ready")
             /\ UNCHANGED link
    <3>1. /\ loop' \in Loop /\ loop'.pc = "sending" /\ loop'.answer = "ready" /\ loop'.op = o
      BY <2>1, <2>4, LoopPlaces DEF Sending
    <3>2. /\ transfer' \in [Transfers -> TransferPcs] /\ transfer'[o] = "accepted"
          /\ \A t \in Transfers : t # o => transfer'[t] = tr[t]
          /\ runs' = runs
      BY <1>1, <1>10, <2>1, <2>4 DEF TransferPcs
    <3>3. TypeOK'
      BY <1>1, <1>3, <2>4, <3>1, <3>2 DEF TypeOK
    <3>4. LoopInStep' /\ CancelledForExpiry' /\ ExpiredIsTrue'
      BY <1>1, <2>1, <3>1, <3>2 DEF LoopInStep, CancelledForExpiry, ExpiredIsTrue
    <3>5. (NoOutcomeYet(completed, transfer))'
      BY <1>1, <1>10, <3>2 DEF NoOutcomeYet
    <3>6. (NotRunYet(transfer, forgotten))'
      <4>1. o \notin f => runs[o] = 0
        BY <1>2, <1>3, <1>10, <2>1
      <4>2. QED
        BY <1>1, <3>2, <4>1 DEF NotRunYet
    <3>7. AtMostOnce' /\ OutcomeKept'
      BY <1>2, <1>10, <3>1, <3>2 DEF AtMostOnce, OutcomeKept, Executing
    <3>8. QED
      BY <3>3, <3>4, <3>5, <3>6, <3>7 DEF OperationsInv
  <2>5. QED
    BY <1>10, <2>2, <2>3, <2>4 DEF BeginFileAction
<1>11. QED
  BY <1>5, <1>6, <1>7, <1>8, <1>9, <1>10 DEF Handle

(* _expire_file_transfers has tasks to wait for: an outcome is there for    *)
(* every operation it ends.                                                 *)
LEMMA ReceiveExpiringInv ==
  ASSUME OperationsInv, NEW req \in Requests, ReceiveExpiring(req)
  PROVE  OperationsInv'
<1>1. /\ loop' = [pc |-> "expiring", req |-> req] /\ loop' \in Loop /\ loop'.pc = "expiring"
      /\ loop.pc = "idle"
      /\ UNCHANGED <<link, runs, forgotten, assets>>
  BY LoopPlaces DEF ReceiveExpiring
<1>2. /\ completed \in [Ops -> Outcomes \cup {"none"}]
      /\ transfer \in [Transfers -> TransferPcs] /\ Transfers \subseteq Ops
      /\ old \in SUBSET Transfers
  BY DEF OperationsInv, TypeOK, Ops
<1>3. /\ completed' \in [Ops -> Outcomes \cup {"none"}]
      /\ \A o \in Ops : completed'[o] = IF o \in Expired THEN "indeterminate" ELSE completed[o]
  BY <1>2 DEF ReceiveExpiring, Remembered, Outcomes
<1>4. /\ transfer' \in [Transfers -> TransferPcs]
      /\ \A t \in Transfers \ Expired : transfer'[t] = transfer[t]
      /\ \A t \in Expired : t \in Transfers /\ transfer'[t] \in {"cancelled", "none"}
  BY <1>2 DEF ReceiveExpiring, TransferPcs, Expired
<1>5. old' \in SUBSET Transfers
  BY <1>2 DEF ReceiveExpiring
<1>6. TypeOK'
  BY <1>1, <1>3, <1>4, <1>5 DEF OperationsInv, TypeOK
<1>7. LoopInStep' /\ CancelledForExpiry' /\ ExpiredIsTrue'
  BY <1>1 DEF LoopInStep, CancelledForExpiry, ExpiredIsTrue
<1>8. (NoOutcomeYet(completed, transfer))' /\ (NotRunYet(transfer, forgotten))'
  BY <1>1, <1>2, <1>3, <1>4 DEF OperationsInv, NoOutcomeYet, NotRunYet
<1>9. AtMostOnce'
  BY <1>1 DEF OperationsInv, AtMostOnce
<1>10. OutcomeKept'
  BY <1>1, <1>2, <1>3, <1>4 DEF OperationsInv, OutcomeKept, Executing
<1>11. QED
  BY <1>6, <1>7, <1>8, <1>9, <1>10 DEF OperationsInv

(* A request with no task to wait for: the old transfers are gone, with an  *)
(* outcome that is not dropped at once.                                     *)
LEMMA ReceiveInv ==
  ASSUME OperationsInv, NEW req \in Requests, Receive(req)
  PROVE  OperationsInv'
<1> DEFINE tr == [t \in Transfers |-> IF t \in Expired THEN "none" ELSE transfer[t]]
<1>1. /\ Dropping(Remembered, Expired) /\ old' = old \ Expired
      /\ Handle(req, completed', tr) /\ assets' = assets /\ loop.pc = "idle"
  BY DEF Receive
<1>2. /\ completed \in [Ops -> Outcomes \cup {"none"}]
      /\ transfer \in [Transfers -> TransferPcs] /\ Transfers \subseteq Ops
      /\ old \in SUBSET Transfers /\ TypeOK
      /\ \A t \in Transfers : transfer[t] # "cancelled"
      /\ Expired \subseteq Transfers
  BY <1>1 DEF OperationsInv, TypeOK, Ops, CancelledForExpiry, Expired
<1>3. /\ Remembered \in [Ops -> Outcomes \cup {"none"}]
      /\ \A o \in Expired : Remembered[o] = "indeterminate"
      /\ \A o \in Ops \ Expired : Remembered[o] = completed[o]
  BY <1>2 DEF Remembered, Outcomes
<1>4. /\ completed' \in [Ops -> Outcomes \cup {"none"}]
      /\ forgotten' \in SUBSET Ops /\ forgotten \subseteq forgotten'
      /\ \A o \in Ops : \/ completed'[o] = Remembered[o]
                        \/ completed'[o] = "none" /\ o \in forgotten'
  BY <1>1, <1>2, <1>3, DroppingForgets
<1>5. /\ tr \in [Transfers -> TransferPcs]
      /\ \A t \in Expired : tr[t] = "none"
      /\ \A t \in Transfers \ Expired : tr[t] = transfer[t]
      /\ \A t \in Transfers : tr[t] # "cancelled"
  BY <1>2 DEF TransferPcs
<1> HIDE DEF tr
<1>6. NoOutcomeYet(completed', tr)
  BY <1>2, <1>3, <1>4, <1>5 DEF OperationsInv, NoOutcomeYet
<1>7. NotRunYet(tr, forgotten')
  BY <1>4, <1>5 DEF OperationsInv, NotRunYet
<1>8. ASSUME NEW o \in Ops \ (forgotten' \cup assets)
      PROVE  /\ runs[o] <= 1
             /\ runs[o] > 0 => \/ completed'[o] # "none"
                               \/ o \in Transfers /\ tr[o] = "callback"
  <2>1. /\ runs[o] <= 1
        /\ runs[o] > 0 => \/ completed[o] # "none"
                          \/ o \in Transfers /\ transfer[o] = "callback"
    BY <1>1, <1>4 DEF OperationsInv, AtMostOnce, OutcomeKept, Executing
  <2>2. QED
    BY <1>3, <1>4, <1>5, <2>1
<1>9. Settled(completed', tr, forgotten')
  BY <1>4, <1>5, <1>6, <1>7, <1>8 DEF Settled
<1>10. old' \in SUBSET Transfers
  BY <1>1, <1>2
<1>11. QED
  BY <1>1, <1>2, <1>9, <1>10, HandleInv

(* The same once the cancelled tasks are through.                           *)
LEMMA ExpireInv ==
  ASSUME OperationsInv, Expire
  PROVE  OperationsInv'
<1>1. /\ Dropping(completed, old) /\ Handle(loop.req, completed', transfer)
      /\ assets' = assets /\ loop.pc = "expiring"
      /\ \A t \in Transfers : transfer[t] # "cancelled"
  BY DEF Expire
<1>2. /\ completed \in [Ops -> Outcomes \cup {"none"}]
      /\ transfer \in [Transfers -> TransferPcs]
      /\ old' \in SUBSET Transfers /\ TypeOK /\ loop.req \in Requests
  BY <1>1, LoopOp DEF OperationsInv, TypeOK, Expire
<1>3. /\ completed' \in [Ops -> Outcomes \cup {"none"}]
      /\ forgotten' \in SUBSET Ops /\ forgotten \subseteq forgotten'
      /\ \A o \in Ops : \/ completed'[o] = completed[o]
                        \/ completed'[o] = "none" /\ o \in forgotten'
  BY <1>1, <1>2, DroppingForgets
<1>4. NoOutcomeYet(completed', transfer) /\ NotRunYet(transfer, forgotten')
  BY <1>3 DEF OperationsInv, NoOutcomeYet, NotRunYet, Ops
<1>5. ASSUME NEW o \in Ops \ (forgotten' \cup assets)
      PROVE  /\ runs[o] <= 1
             /\ runs[o] > 0 => \/ completed'[o] # "none"
                               \/ o \in Transfers /\ transfer[o] = "callback"
  BY <1>1, <1>3 DEF OperationsInv, AtMostOnce, OutcomeKept, Executing
<1>6. Settled(completed', transfer, forgotten')
  BY <1>1, <1>2, <1>3, <1>4, <1>5 DEF Settled
<1>7. QED
  BY <1>1, <1>2, <1>6, HandleInv

-----------------------------------------------------------------------------
(* The loop, after a request                                                *)

(* The connection and the passing of time, the state callback and a message *)
(* that fails: no operation is moved.                                       *)
LEMMA RestInv ==
  ASSUME OperationsInv, UNCHANGED <<completed, transfer, runs, forgotten, assets>>,
         link' \in BOOLEAN, old' \in SUBSET Transfers,
         loop' = loop \/ (loop' = Idle /\ loop.pc \in {"idle", "state", "sending"})
  PROVE  OperationsInv'
<1>1. TypeOK'
  BY LoopPlaces DEF OperationsInv, TypeOK
<1>2. LoopInStep' /\ CancelledForExpiry' /\ ExpiredIsTrue'
  BY LoopPlaces DEF OperationsInv, LoopInStep, CancelledForExpiry, ExpiredIsTrue
<1>3. AtMostOnce' /\ OutcomeKept'
  BY LoopPlaces DEF OperationsInv, AtMostOnce, OutcomeKept, Executing
<1>4. (NoOutcomeYet(completed, transfer))' /\ (NotRunYet(transfer, forgotten))'
  BY DEF OperationsInv, NoOutcomeYet, NotRunYet
<1>5. QED
  BY <1>1, <1>2, <1>3, <1>4 DEF OperationsInv

(* The callback of an action returns or raises: its outcome is retained, or *)
(* it had assets.                                                           *)
LEMMA CallbackInv ==
  ASSUME OperationsInv, CallbackReturns \/ CallbackRaises
  PROVE  OperationsInv'
<1> DEFINE o == loop.op
<1>1. /\ loop.pc = "callback" /\ o \in Actions /\ o \in Ops /\ o \notin Transfers
      /\ UNCHANGED <<transfer, old, runs, forgotten>>
  BY LoopOp, OperationsAssumption DEF OperationsInv, CallbackReturns, CallbackRaises, Ops
<1>2. /\ loop' \in Loop /\ link' \in BOOLEAN
      /\ loop'.pc = "idle" \/ (loop'.pc = "sending" /\ loop'.answer = "response")
  <2>1. Sending(o, "response") \in Loop /\ Sending(o, "response").pc = "sending"
          /\ Sending(o, "response").answer = "response"
    BY <1>1, LoopPlaces DEF Sending, Answers, Outcomes
  <2>2. link \in BOOLEAN
    BY DEF OperationsInv, TypeOK
  <2>3. QED
    BY <2>1, <2>2, LoopPlaces DEF CallbackReturns, CallbackRaises, AssetsRaise
<1>3. /\ completed' \in [Ops -> Outcomes \cup {"none"}] /\ assets' \in SUBSET Actions
      /\ assets \subseteq assets'
      /\ completed'[o] # "none" \/ o \in assets'
      /\ \A p \in Ops : p # o => completed'[p] = completed[p]
  BY <1>1 DEF OperationsInv, TypeOK, CallbackReturns, CallbackRaises, Outcomes
<1>4. TypeOK'
  BY <1>1, <1>2, <1>3 DEF OperationsInv, TypeOK
<1>5. LoopInStep' /\ CancelledForExpiry' /\ ExpiredIsTrue'
  BY <1>1, <1>2 DEF OperationsInv, LoopInStep, CancelledForExpiry, ExpiredIsTrue
<1>6. (NoOutcomeYet(completed, transfer))' /\ (NotRunYet(transfer, forgotten))'
  BY <1>1, <1>3 DEF OperationsInv, NoOutcomeYet, NotRunYet, Ops
<1>7. AtMostOnce'
  BY <1>1, <1>3 DEF OperationsInv, AtMostOnce
<1>8. OutcomeKept'
  BY <1>1, <1>2, <1>3 DEF OperationsInv, OutcomeKept, Executing
<1>9. QED
  BY <1>4, <1>5, <1>6, <1>7, <1>8 DEF OperationsInv

(* A message was sent: the task of an accepted transfer starts.             *)
LEMMA SentInv ==
  ASSUME OperationsInv, Sent
  PROVE  OperationsInv'
<1>1. CASE loop.answer = "ready"
  <2> DEFINE o == loop.op
  <2>1. /\ loop.pc = "sending" /\ o \in Transfers /\ transfer[o] = "accepted"
        /\ transfer \in [Transfers -> TransferPcs]
        /\ transfer' = [transfer EXCEPT ![o] = "receiving"]
        /\ loop' \in Loop /\ loop'.pc = "idle"
        /\ UNCHANGED <<link, completed, old, runs, forgotten, assets>>
    BY <1>1, LoopPlaces DEF OperationsInv, TypeOK, LoopInStep, Sent
  <2>2. /\ transfer' \in [Transfers -> TransferPcs] /\ transfer'[o] = "receiving"
        /\ \A t \in Transfers : t # o => transfer'[t] = transfer[t]
    BY <2>1 DEF TransferPcs
  <2>3. TypeOK'
    BY <2>1, <2>2 DEF OperationsInv, TypeOK
  <2>4. LoopInStep' /\ CancelledForExpiry' /\ ExpiredIsTrue'
    BY <2>1, <2>2 DEF OperationsInv, LoopInStep, CancelledForExpiry, ExpiredIsTrue
  <2>5. (NoOutcomeYet(completed, transfer))' /\ (NotRunYet(transfer, forgotten))'
    BY <2>1, <2>2 DEF OperationsInv, NoOutcomeYet, NotRunYet
  <2>6. AtMostOnce' /\ OutcomeKept'
    BY <2>1, <2>2 DEF OperationsInv, AtMostOnce, OutcomeKept, Executing
  <2>7. QED
    BY <2>3, <2>4, <2>5, <2>6 DEF OperationsInv
<1>2. CASE loop.answer # "ready"
  BY <1>2, RestInv DEF Sent, OperationsInv, TypeOK
<1>3. QED
  BY <1>1, <1>2

-----------------------------------------------------------------------------
(* The tasks                                                                *)

(* The files of a transfer are there: its callback starts, for the first    *)
(* time.                                                                    *)
LEMMA ReceivedInv ==
  ASSUME OperationsInv, NEW t \in Transfers, Received(t)
  PROVE  OperationsInv'
<1>1. /\ transfer[t] = "receiving" /\ t \in Ops /\ t \notin Actions
      /\ transfer \in [Transfers -> TransferPcs]
      /\ UNCHANGED <<link, loop, completed, old, forgotten, assets>>
  BY OperationsAssumption DEF OperationsInv, TypeOK, Received, Ops
<1>2. /\ transfer' \in [Transfers -> TransferPcs] /\ transfer'[t] = "callback"
      /\ \A u \in Transfers : u # t => transfer'[u] = transfer[u]
  BY <1>1 DEF Received, TransferPcs
<1>3. /\ runs' \in [Ops -> 0..MaxRuns] /\ runs'[t] <= runs[t] + 1
      /\ \A o \in Ops : o # t => runs'[o] = runs[o]
  BY <1>1, StartedOnce DEF OperationsInv, Received
<1>4. TypeOK'
  BY <1>1, <1>2, <1>3 DEF OperationsInv, TypeOK
<1>5. LoopInStep' /\ CancelledForExpiry'
  BY <1>1, <1>2 DEF OperationsInv, LoopInStep, CancelledForExpiry
<1>6. (NoOutcomeYet(completed, transfer))' /\ (NotRunYet(transfer, forgotten))'
  BY <1>1, <1>2, <1>3 DEF OperationsInv, NoOutcomeYet, NotRunYet, Ops
<1>7. AtMostOnce'
  BY <1>1, <1>3 DEF OperationsInv, AtMostOnce, NotRunYet
<1>8. OutcomeKept'
  BY <1>1, <1>2, <1>3 DEF OperationsInv, OutcomeKept, Executing
<1>9. ExpiredIsTrue'
  <2> SUFFICES ASSUME loop.pc = "sending", loop.answer = "expired"
               PROVE  runs'[loop.op] = 0 \/ loop.op \in forgotten \cup assets
    BY <1>1 DEF ExpiredIsTrue
  <2>1. loop.op \in Ops /\ loop.op # t
    BY <1>1, LoopOp DEF OperationsInv, LoopInStep
  <2>2. QED
    BY <1>3, <2>1 DEF OperationsInv, ExpiredIsTrue
<1>10. QED
  BY <1>4, <1>5, <1>6, <1>7, <1>8, <1>9 DEF OperationsInv

(* A task ends, in whatever way: what ran has an outcome, then or before.   *)
LEMMA TaskInv ==
  ASSUME OperationsInv, NEW t \in Transfers,
         TaskFails(t) \/ TaskReturns(t) \/ TaskSent(t) \/ TaskCancelled(t)
  PROVE  OperationsInv'
<1>1. /\ t \in Ops /\ t \notin Actions /\ old \in SUBSET Transfers
      /\ transfer \in [Transfers -> TransferPcs]
      /\ completed \in [Ops -> Outcomes \cup {"none"}]
      /\ UNCHANGED <<link, loop, runs, forgotten, assets>>
  BY OperationsAssumption
  DEF OperationsInv, TypeOK, TaskFails, TaskReturns, TaskSent, TaskCancelled, Ops
<1>2. old' \in SUBSET Transfers
  BY <1>1 DEF TaskFails, TaskReturns, TaskSent, TaskCancelled
<1>3. /\ transfer' \in [Transfers -> TransferPcs] /\ transfer'[t] \in {"sending", "none"}
      /\ \A u \in Transfers : u # t => transfer'[u] = transfer[u]
  BY <1>1 DEF TaskFails, TaskReturns, TaskSent, TaskCancelled, TransferPcs
<1>4. /\ completed' \in [Ops -> Outcomes \cup {"none"}]
      /\ \A o \in Ops : o # t => completed'[o] = completed[o]
      /\ completed'[t] # "none"
           \/ (completed'[t] = completed[t] /\ transfer[t] \in {"sending", "cancelled"})
  BY <1>1 DEF TaskFails, TaskReturns, TaskSent, TaskCancelled, Outcomes
<1>5. transfer[t] \in {"receiving", "callback", "sending", "cancelled"}
  BY DEF TaskFails, TaskReturns, TaskSent, TaskCancelled
<1>6. TypeOK'
  BY <1>1, <1>2, <1>3, <1>4 DEF OperationsInv, TypeOK
<1>7. LoopInStep' /\ CancelledForExpiry' /\ ExpiredIsTrue'
  <2>1. loop.pc = "callback" => loop.op # t /\ loop.op \in Ops
    BY <1>1, LoopOp DEF OperationsInv, Ops
  <2>2. LoopInStep'
    BY <1>1, <1>3, <1>4, <1>5, <2>1 DEF OperationsInv, LoopInStep
  <2>3. QED
    BY <1>1, <1>3, <2>2 DEF OperationsInv, CancelledForExpiry, ExpiredIsTrue
<1>8. (NoOutcomeYet(completed, transfer))' /\ (NotRunYet(transfer, forgotten))'
  BY <1>1, <1>3, <1>4 DEF OperationsInv, NoOutcomeYet, NotRunYet, Ops
<1>9. AtMostOnce'
  BY <1>1 DEF OperationsInv, AtMostOnce
<1>10. OutcomeKept'
  <2> SUFFICES ASSUME NEW o \in Ops \ (forgotten \cup assets), runs[o] > 0,
                      ~(loop.pc = "callback" /\ loop.op = o),
                      ~(o \in Transfers /\ transfer'[o] = "callback")
               PROVE  completed'[o] # "none"
    BY <1>1 DEF OutcomeKept, Executing
  <2>1. CASE o = t
    BY <1>4, <2>1 DEF OperationsInv, OutcomeKept, Executing
  <2>2. CASE o # t
    BY <1>3, <1>4, <2>2 DEF OperationsInv, OutcomeKept, Executing
  <2>3. QED
    BY <2>1, <2>2
<1>11. QED
  BY <1>6, <1>7, <1>8, <1>9, <1>10 DEF OperationsInv

-----------------------------------------------------------------------------
(* The theorems                                                             *)

(* Nothing has run in the beginning.                                        *)
LEMMA InitInv == Init => OperationsInv
<1> SUFFICES ASSUME Init PROVE OperationsInv
  OBVIOUS
<1>1. TypeOK
  <2>1. 0 \in 0..MaxRuns
    BY OperationsAssumption
  <2>2. runs \in [Ops -> 0..MaxRuns]
    BY <2>1 DEF Init
  <2>3. completed \in [Ops -> Outcomes \cup {"none"}] /\ transfer \in [Transfers -> TransferPcs]
    BY DEF Init, TransferPcs
  <2>4. QED
    BY <2>2, <2>3, LoopPlaces DEF Init, TypeOK
<1>2. LoopInStep /\ CancelledForExpiry /\ ExpiredIsTrue
  BY LoopPlaces DEF Init, LoopInStep, CancelledForExpiry, ExpiredIsTrue
<1>3. NoOutcomeYet(completed, transfer) /\ NotRunYet(transfer, forgotten)
  BY DEF Init, NoOutcomeYet, NotRunYet
<1>4. AtMostOnce /\ OutcomeKept
  BY DEF Init, AtMostOnce, OutcomeKept, Executing
<1>5. QED
  BY <1>1, <1>2, <1>3, <1>4 DEF OperationsInv

(* Every step keeps the invariant.                                          *)
LEMMA StepInv == OperationsInv /\ [Next]_vars => OperationsInv'
<1> SUFFICES ASSUME OperationsInv, [Next]_vars PROVE OperationsInv'
  OBVIOUS
<1>1. CASE Connect \/ Disconnect
  <2>1. link' \in BOOLEAN /\ old \in SUBSET Transfers
    BY <1>1 DEF Connect, Disconnect, OperationsInv, TypeOK
  <2>2. QED
    BY <1>1, <2>1, RestInv DEF Connect, Disconnect
<1>2. ASSUME NEW req \in Requests, ReceiveExpiring(req) \/ Receive(req)
      PROVE  OperationsInv'
  BY <1>2, ReceiveExpiringInv, ReceiveInv
<1>3. CASE Expire
  BY <1>3, ExpireInv
<1>4. CASE CallbackReturns \/ CallbackRaises
  BY <1>4, CallbackInv
<1>5. CASE StateDone \/ SendFails
  <2>1. old' \in SUBSET Transfers
    BY <1>5 DEF StateDone, SendFails, OperationsInv, TypeOK
  <2>2. QED
    BY <1>5, <2>1, RestInv DEF StateDone, SendFails
<1>6. CASE Sent
  BY <1>6, SentInv
<1>7. ASSUME NEW t \in Transfers, Received(t)
      PROVE  OperationsInv'
  BY <1>7, ReceivedInv
<1>8. ASSUME NEW t \in Transfers,
             TaskFails(t) \/ TaskReturns(t) \/ TaskSent(t) \/ TaskCancelled(t)
      PROVE  OperationsInv'
  BY <1>8, TaskInv
<1>9. ASSUME NEW t \in Transfers, Age(t)
      PROVE  OperationsInv'
  <2>1. old' \in SUBSET Transfers /\ link' \in BOOLEAN
    BY <1>9 DEF Age, OperationsInv, TypeOK
  <2>2. QED
    BY <1>9, <2>1, RestInv DEF Age
<1>10. CASE UNCHANGED vars
  <2>1. old' \in SUBSET Transfers /\ link' \in BOOLEAN
    BY <1>10 DEF vars, OperationsInv, TypeOK
  <2>2. QED
    BY <1>10, <2>1, RestInv DEF vars
<1>11. QED
  BY <1>1, <1>2, <1>3, <1>4, <1>5, <1>6, <1>7, <1>8, <1>9, <1>10 DEF Next

(* OperationsInv holds in every state of WispOperations.                    *)
THEOREM Invariance == Spec => []OperationsInv
<1>1. QED
  BY InitInv, StepInv, PTL DEF Spec

(* Every variable keeps its type: no operation is counted beyond MaxRuns,   *)
(* and the loop never stands with an operation of the wrong kind.           *)
THEOREM TypeCorrect == Spec => []TypeOK
<1>1. OperationsInv => TypeOK
  BY DEF OperationsInv
<1>2. QED
  BY <1>1, Invariance, PTL

(* An operation whose outcome was never dropped, and had no assets, runs    *)
(* once at most, however requests, expiries, failures and reconnections are *)
(* interleaved.                                                             *)
THEOREM RunsAtMostOnce == Spec => []AtMostOnce
<1>1. OperationsInv => AtMostOnce
  BY DEF OperationsInv
<1>2. QED
  BY <1>1, Invariance, PTL

(* What ran and is over has an outcome to resume.                           *)
THEOREM OutcomesAreKept == Spec => []OutcomeKept
<1>1. OperationsInv => OutcomeKept
  BY DEF OperationsInv
<1>2. QED
  BY <1>1, Invariance, PTL

(* "expired" is said only of what never ran, or of what was dropped.        *)
THEOREM ExpiredMeansGone == Spec => []ExpiredIsTrue
<1>1. OperationsInv => ExpiredIsTrue
  BY DEF OperationsInv
<1>2. QED
  BY <1>1, Invariance, PTL

-----------------------------------------------------------------------------
(* The stability of outcomes                                                *)

\* What OutcomeStable says of a step
Stable ==
  \A o \in Ops :
    completed[o] # "none" /\ completed'[o] # completed[o] =>
      \/ completed'[o] = "none" /\ o \in forgotten'
      \/ completed'[o] = "indeterminate" /\ o \in old /\ transfer[o] = "sending"

(* A transfer that _expire_file_transfers finds, and that has an outcome    *)
(* already, waits to send it.                                               *)
LEMMA ExpiredSends ==
  ASSUME OperationsInv, loop.pc = "idle", NEW o \in Expired, completed[o] # "none"
  PROVE  o \in old /\ transfer[o] = "sending"
<1>1. o \in Transfers /\ o \in old /\ transfer[o] # "none"
  BY DEF Expired, OperationsInv, TypeOK
<1>2. transfer[o] \in TransferPcs /\ transfer[o] # "cancelled"
  BY <1>1 DEF OperationsInv, TypeOK, CancelledForExpiry
<1>3. transfer[o] \notin {"accepted", "receiving", "callback"}
  BY <1>1 DEF OperationsInv, NoOutcomeYet
<1>4. QED
  BY <1>1, <1>2, <1>3 DEF TransferPcs

(* Every step leaves the outcomes, drops some, writes one that was not      *)
(* there, or overwrites that of a transfer that is too old.                 *)
LEMMA StepStable == OperationsInv /\ [Next]_vars => Stable
<1> SUFFICES ASSUME OperationsInv, [Next]_vars PROVE Stable
  OBVIOUS
<1>1. TypeOK /\ Transfers \subseteq Ops
  BY DEF OperationsInv, Ops
<1>2. ASSUME completed' = completed PROVE Stable
  BY <1>2 DEF Stable
<1>3. ASSUME NEW o \in Ops, NEW r, completed[o] = "none",
             completed' = [completed EXCEPT ![o] = r]
      PROVE  Stable
  BY <1>1, <1>3 DEF TypeOK, Stable
<1>4. ASSUME NEW req \in Requests, ReceiveExpiring(req)
      PROVE  Stable
  BY <1>1, <1>4, ExpiredSends DEF ReceiveExpiring, Remembered, Stable
<1>5. ASSUME NEW req \in Requests, Receive(req)
      PROVE  Stable
  <2>1. Dropping(Remembered, Expired) /\ loop.pc = "idle"
    BY <1>5 DEF Receive
  <2>2. /\ Remembered \in [Ops -> Outcomes \cup {"none"}]
        /\ \A o \in Ops : Remembered[o] = IF o \in Expired THEN "indeterminate" ELSE completed[o]
    BY <1>1 DEF TypeOK, Remembered, Outcomes
  <2>3. \A o \in Ops : \/ completed'[o] = Remembered[o]
                       \/ completed'[o] = "none" /\ o \in forgotten'
    BY <1>1, <2>1, <2>2, DroppingForgets
  <2>4. QED
    BY <2>1, <2>2, <2>3, ExpiredSends DEF Stable
<1>6. CASE Expire
  <2>1. \A o \in Ops : \/ completed'[o] = completed[o]
                       \/ completed'[o] = "none" /\ o \in forgotten'
    BY <1>1, <1>6, DroppingForgets DEF Expire, TypeOK
  <2>2. QED
    BY <2>1 DEF Stable
<1>7. CASE CallbackReturns \/ CallbackRaises
  <2>1. loop.op \in Ops /\ completed[loop.op] = "none"
    BY <1>1, <1>7, LoopOp DEF OperationsInv, LoopInStep, CallbackReturns, CallbackRaises, Ops
  <2>2. QED
    BY <1>2, <1>3, <1>7, <2>1 DEF CallbackReturns, CallbackRaises
<1>8. ASSUME NEW t \in Transfers, TaskFails(t) \/ TaskReturns(t)
      PROVE  Stable
  <2>1. t \in Ops /\ completed[t] = "none"
    BY <1>1, <1>8 DEF OperationsInv, NoOutcomeYet, TaskFails, TaskReturns
  <2>2. QED
    BY <1>3, <1>8, <2>1 DEF TaskFails, TaskReturns
<1>9. CASE Connect \/ Disconnect \/ StateDone \/ Sent \/ SendFails
  BY <1>2, <1>9 DEF Connect, Disconnect, StateDone, Sent, SendFails
<1>10. ASSUME NEW t \in Transfers, Received(t) \/ TaskSent(t) \/ TaskCancelled(t) \/ Age(t)
       PROVE  Stable
  BY <1>2, <1>10 DEF Received, TaskSent, TaskCancelled, Age
<1>11. CASE UNCHANGED vars
  BY <1>2, <1>11 DEF vars
<1>12. QED
  BY <1>4, <1>5, <1>6, <1>7, <1>8, <1>9, <1>10, <1>11 DEF Next

(* A retained outcome never turns into another one, except that a transfer  *)
(* that is too old while its task waits to send becomes "indeterminate".    *)
THEOREM OutcomesAreStable == Spec => OutcomeStable
<1>1. OperationsInv /\ [Next]_vars =>
        [\A o \in Ops :
           completed[o] # "none" /\ completed'[o] # completed[o] =>
             \/ completed'[o] = "none" /\ o \in forgotten'
             \/ completed'[o] = "indeterminate" /\ o \in old /\ transfer[o] = "sending"]_vars
  BY StepStable DEF Stable
<1>2. QED
  BY <1>1, Invariance, PTL DEF Spec, OutcomeStable
=============================================================================
