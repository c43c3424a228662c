---------------------------- MODULE PeerSessions ----------------------------
(***************************************************************************)
(* Peer sessions end to end: the operations of the Android client           *)
(* (RelayClient.kt, SessionCrypto.kt), the relay between (service.py,       *)
(* forward) and the Wisp runtime (client.py, e2e.py), for one Android       *)
(* client and one Wisp.                                                     *)
(*                                                                          *)
(* The client does one operation at a time.  Each of an operation's at most *)
(* two attempts opens a relay connection, shakes hands unless a session is  *)
(* cached, sends one request and reads its answers.  The relay reads the    *)
(* connections in any order, so what was sent on an abandoned one can be    *)
(* forwarded after what was sent on the next, and it answers the client on  *)
(* its newest connection, whichever the frame came from.                    *)
(*                                                                          *)
(* A session_id is the number of the connection its handshake was begun on. *)
(* The frames of the Wisp are taken by the relay at once.  Ages of retained *)
(* outcomes and of transfers, and assets, are left to WispOperations.       *)
(***************************************************************************)
EXTENDS Naturals, Sequences

CONSTANTS
  States,    \* requests for a Wisp's state
  Actions,   \* actions without files
  Files,     \* file actions, by transfer_id
  MaxConns,  \* bound of the model: relay connections the client opens
  None

Ops == States \cup Actions \cup Files

Conns == 1..MaxConns

\* PeerSession of SessionCrypto.kt and of e2e.py
Sessions == [sid : Conns, send : Nat, recv : Nat, aged : BOOLEAN]

ASSUME PeerAssumption ==
  /\ MaxConns \in Nat
  /\ States \cap Actions = {} /\ States \cap Files = {} /\ Actions \cap Files = {}
  /\ None \notin Ops /\ None \notin Sessions

VARIABLES
  pc,        \* where the client's operation stands
  op,        \* the operation RelayOperationCoordinator serialises, or None
  attempt,   \* 1, or 2 after recoverMutationOnce or retrySessionOnce caught a failure
  asess,     \* RelayOperationCoordinator.peerSessions: the client's session
  told,      \* what became of an operation: its caller's result
  conn,      \* the newest relay connection of the client
  up,        \* per connection: the frame the relay has not read yet
  down,      \* frames on the newest connection the client has not read yet
  route,     \* the relay's session of the client: one of its connections, or 0
  wlink,     \* the Wisp's relay connection works
  wq,        \* frames forwarded to the Wisp that it has not read yet
  wsess,     \* _peer_sessions: the Wisp's session
  loop,      \* the operation whose callback the event loop waits for, or None
  outcome,   \* _completed_operations
  transfer,  \* _transfers and where their tasks stand
  runs,      \* history: how often each operation's callback was started
  sealed     \* history: frames encrypted, per direction and session_id

avars == <<pc, op, attempt, asess, told>>
rvars == <<conn, up, down, route>>
wvars == <<wlink, wq, wsess, loop, outcome, transfer, runs>>
vars  == <<avars, rvars, wvars, sealed>>

\* A session after its handshake, and one that is used
Fresh(sid) == [sid |-> sid, send |-> 0, recv |-> 0, aged |-> FALSE]
Live(s)    == s # None /\ ~s.aged

\* A client waits for the relay's acceptance or the Wisp's answer of a
\* handshake, the same of a request, the upload, the end of what is running
Waiting == {"init_accept", "init_reply", "req_accept", "req_reply", "completion"}
Pcs     == Waiting \cup {"idle", "connect", "upload"}

Bodies == {"response", "error", "indeterminate", "ready", "running", "expired",
           "completed", "completed_error"}

Accepted == [type |-> "accepted"]
Offline  == [type |-> "offline"]
Reset    == [type |-> "session_reset"]
InitOf(sid)   == [type |-> "session_init", sid |-> sid]
AcceptOf(sid) == [type |-> "session_accept", sid |-> sid]

\* A transfer is between tasks' awaits: created, receiving under the session
\* sid it looked up, in the callback, sending its last answer
Transfers == [pc : {"none", "created", "callback"}]
        \cup [pc : {"receiving"}, sid : Conns]
        \cup [pc : {"sending"}, body : {"response", "error"}]

TypeOK ==
  /\ pc \in Pcs
  /\ op \in Ops \cup {None}
  /\ (op = None) = (pc = "idle")
  /\ attempt \in 1..2
  /\ asess \in Sessions \cup {None}
  /\ pc \in {"req_accept", "req_reply", "upload", "completion"} => asess # None
  /\ told \in [Ops -> {"none", "answered", "failed", "expired"}]
  /\ conn \in 0..MaxConns
  /\ DOMAIN up = Conns
  /\ route \in 0..conn
  /\ wlink \in BOOLEAN
  /\ wlink \/ wq = <<>>
  /\ wsess \in Sessions \cup {None}
  /\ loop \in States \cup Actions \cup {None}
  /\ outcome \in [Ops -> {"none", "response", "error", "indeterminate"}]
  /\ transfer \in [Files -> Transfers]
  /\ runs \in [Ops -> Nat]

NoTransfer == [pc |-> "none"]

Init ==
  /\ pc = "idle" /\ op = None /\ attempt = 1 /\ asess = None
  /\ told = [o \in Ops |-> "none"]
  /\ conn = 0 /\ up = [n \in Conns |-> None] /\ down = <<>> /\ route = 0
  /\ wlink = FALSE /\ wq = <<>> /\ wsess = None /\ loop = None
  /\ outcome = [o \in Ops |-> "none"]
  /\ transfer = [f \in Files |-> NoTransfer]
  /\ runs = [o \in Ops |-> 0]
  /\ sealed = [side \in {"android", "wisp"} |-> [sid \in Conns |-> 0]]

-----------------------------------------------------------------------------
(* The Android client: attempts                                             *)

\* requestState, sendAction, sendFileAction; the mutex admits one at a time
Begin(o) ==
  /\ pc = "idle"
  /\ told[o] = "none"
  /\ op' = o
  /\ pc' = "connect"
  /\ attempt' = 1
  /\ UNCHANGED <<asess, told, rvars, wvars, sealed>>

\* A faulty end, for a mutation of End: the operation is not given up
EndKeepsOp(result) ==
  /\ told' = [told EXCEPT ![op] = result]
  /\ pc' = "idle"
  /\ attempt' = 1
  /\ down' = <<>>
  /\ UNCHANGED op

\* The operation is over and its connection closed
End(result) ==
  /\ told' = [told EXCEPT ![op] = result]
  /\ op' = None
  /\ pc' = "idle"
  /\ attempt' = 1
  /\ down' = <<>>

\* retrySessionOnce and recoverMutationOnce: a failure of the transport or of
\* the session invalidates the session and is followed by a second attempt,
\* once; any other failure is the operation's
Retry ==
  /\ attempt = 1
  /\ attempt' = 2
  /\ pc' = "connect"
  /\ asess' = None
  /\ down' = <<>>
  /\ UNCHANGED <<op, told>>

Fail == End("failed") /\ UNCHANGED asess

FailRecoverable == Retry \/ (attempt = 2 /\ Fail)

\* A faulty recovery, for a mutation of RequestOf: it repeats the request
RequestAgain(o, n) == "start"

\* A second attempt of a mutating operation asks for its outcome
RequestOf(o, n) == IF n = 2 /\ o \notin States THEN "resume" ELSE "start"

\* exchangeSessionFrame up to its first read, PeerSession.encrypt
SendRequest(n, s) ==
  /\ asess' = [s EXCEPT !.send = @ + 1]
  /\ up' = [up EXCEPT ![n] =
       [type |-> "session_envelope", sid |-> s.sid, seq |-> s.send,
        req |-> RequestOf(op, attempt), op |-> op]]
  /\ sealed' = [sealed EXCEPT !["android"][s.sid] = @ + 1]
  /\ pc' = "req_accept"

\* relaySocket, authenticateEndpoint up to `ready', sessionFor: the cached
\* session, or a handshake
Connect ==
  /\ pc = "connect"
  /\ conn < MaxConns
  /\ conn' = conn + 1
  /\ route' = conn'
  /\ down' = <<>>
  /\ \/ /\ Live(asess)
        /\ SendRequest(conn', asess)
     \/ /\ ~Live(asess)
        /\ asess' = None
        /\ up' = [up EXCEPT ![conn'] = InitOf(conn')]
        /\ pc' = "init_accept"
        /\ UNCHANGED sealed
  /\ UNCHANGED <<op, attempt, told, wvars>>

\* The relay is not reached, or refuses the endpoint: a SecurityException,
\* which is not retried
ConnectFails ==
  /\ pc = "connect"
  /\ FailRecoverable \/ Fail
  /\ UNCHANGED <<conn, up, route, wvars, sealed>>

\* The connection closes or stays silent after a ping (RelayFrames)
TransportFails ==
  /\ pc \in Waiting
  /\ FailRecoverable
  /\ UNCHANGED <<conn, up, route, wvars, sealed>>

\* The process dies and is started again: sessions are in memory
AndroidRestart ==
  /\ pc # "idle" \/ asess # None
  /\ asess' = None
  /\ IF op = None THEN UNCHANGED <<told, op, pc, attempt, down>> ELSE End("failed")
  /\ UNCHANGED <<conn, up, route, wvars, sealed>>

AgeAndroid ==
  /\ Live(asess)
  /\ asess' = [asess EXCEPT !.aged = TRUE]
  /\ UNCHANGED <<pc, op, attempt, told, rvars, wvars, sealed>>

-----------------------------------------------------------------------------
(* The Android client: what it reads                                        *)

\* sessionFor and exchangeSessionFrame: the first frame has to be the relay's
\* acceptance, whatever it was sent for
ReadAccepted ==
  /\ pc \in {"init_accept", "req_accept"}
  /\ down # <<>>
  /\ \/ /\ Head(down) = Accepted
        /\ pc' = IF pc = "init_accept" THEN "init_reply" ELSE "req_reply"
        /\ down' = Tail(down)
        /\ UNCHANGED <<op, attempt, asess, told>>
     \/ Head(down) # Accepted /\ Fail
  /\ UNCHANGED <<conn, up, route, wvars, sealed>>

\* readSessionAcceptance and SessionHandshake.finish; the lifetime may be over
ReadAcceptance ==
  /\ pc = "init_reply"
  /\ down # <<>>
  /\ \/ /\ Head(down) = Accepted
        /\ down' = Tail(down)
        /\ UNCHANGED <<avars, up, sealed>>
     \/ /\ Head(down) = AcceptOf(conn)
        /\ SendRequest(conn, Fresh(conn))
        /\ down' = Tail(down)
        /\ UNCHANGED <<op, attempt, told>>
     \/ /\ Head(down) # Accepted
        /\ Fail
        /\ UNCHANGED <<up, sealed>>
  /\ UNCHANGED <<conn, route, wvars>>

\* requirePeerApplicationFrame, PeerSession.decrypt
AndroidOpens(f) ==
  /\ f.type = "session_envelope"
  /\ ~asess.aged
  /\ f.sid = asess.sid
  /\ f.seq = asess.recv

\* The operation goes on to stage p on the same connection
Proceed(p) ==
  /\ pc' = p
  /\ down' = Tail(down)
  /\ UNCHANGED <<op, attempt, told>>

\* What the decrypted answer f does to a request that started the operation:
\* nothing ties it to the operation but `ready' to its transfer
StartAnswered(f) ==
  \/ op \notin Files /\ End("answered")
  \/ op \in Files /\ f.body = "ready" /\ f.op = op /\ Proceed("upload")
  \/ op \in Files /\ ~(f.body = "ready" /\ f.op = op) /\ End("failed")

\* OperationProtocol.recoveryStatus, and a failed transfer
ResumeAnswered(f) ==
  \/ f.body = "running" /\ Proceed("completion")
  \/ f.body = "completed" /\ End("answered")
  \/ f.body = "expired" /\ End("expired")
  \/ f.body \notin {"running", "completed", "expired"} /\ End("failed")

Completed(f) ==
  End(IF op \in Files /\ f.body \in {"error", "completed_error"} THEN "failed" ELSE "answered")

\* readSessionResponse and what its callers do
ReadResponse ==
  /\ pc \in {"req_reply", "completion"}
  /\ down # <<>>
  /\ LET f == Head(down) IN
     \/ ~AndroidOpens(f) /\ FailRecoverable
     \/ /\ AndroidOpens(f)
        /\ asess' = [asess EXCEPT !.recv = @ + 1]
        /\ \/ pc = "completion" /\ Completed(f)
           \/ pc = "req_reply" /\ RequestOf(op, attempt) = "start" /\ StartAnswered(f)
           \/ pc = "req_reply" /\ RequestOf(op, attempt) = "resume" /\ ResumeAnswered(f)
  /\ UNCHANGED <<conn, up, route, wvars, sealed>>

\* BulkSocketTransport.send under the client's session, received by the task
\* under the session it looked up: the relay pairs them by session_id
Upload ==
  /\ pc = "upload"
  /\ transfer[op] = [pc |-> "receiving", sid |-> asess.sid]
  /\ pc' = "completion"
  /\ transfer' = [transfer EXCEPT ![op] = [pc |-> "callback"]]
  /\ runs' = [runs EXCEPT ![op] = @ + 1]
  /\ UNCHANGED <<op, attempt, asess, told, rvars, wlink, wq, wsess, loop, outcome, sealed>>

\* An IOException is recovered from, a refusal or an early end is not
UploadFails ==
  /\ pc = "upload"
  /\ FailRecoverable \/ Fail
  /\ UNCHANGED <<conn, up, route, wvars, sealed>>

-----------------------------------------------------------------------------
(* The relay                                                                *)

\* A frame for the client, sent by the relay now: the newest connection gets
\* it if it is the session and the client still reads it
Reaches(f) == IF route = conn /\ pc \in Waiting \cup {"upload"} THEN Append(down, f) ELSE down

Taken(n) == [up EXCEPT ![n] = None]

\* forward, for a frame read on connection n
Forward(n) ==
  /\ up[n] # None
  /\ up' = Taken(n)
  /\ IF wlink
     THEN wq' = Append(wq, up[n]) /\ down' = Reaches(Accepted)
     ELSE wq' = wq /\ down' = Reaches(Offline)
  /\ UNCHANGED <<avars, conn, route, wlink, wsess, loop, outcome, transfer, runs, sealed>>

\* The handler of connection n ends, with what it has not read
HandlerEnds(n) ==
  /\ up[n] # None \/ route = n
  /\ up' = Taken(n)
  /\ route' = IF route = n THEN 0 ELSE route
  /\ UNCHANGED <<avars, conn, down, wvars, sealed>>

-----------------------------------------------------------------------------
(* The Wisp runtime: its connection and what it reads                       *)

\* serve connects again once the event loop has ended
WispConnect ==
  /\ ~wlink
  /\ loop = None
  /\ wlink' = TRUE
  /\ UNCHANGED <<avars, rvars, wq, wsess, loop, outcome, transfer, runs, sealed>>

WispDisconnect ==
  /\ wlink
  /\ wlink' = FALSE
  /\ wq' = <<>>
  /\ UNCHANGED <<avars, rvars, wsess, loop, outcome, transfer, runs, sealed>>

WispRestart ==
  /\ wlink' = FALSE
  /\ wq' = <<>>
  /\ wsess' = None
  /\ loop' = None
  /\ outcome' = [o \in Ops |-> "none"]
  /\ transfer' = [f \in Files |-> NoTransfer]
  /\ UNCHANGED <<avars, rvars, runs, sealed>>

\* The Wisp's session begins after the client's
AgeWisp ==
  /\ Live(wsess)
  /\ Live(asess) => asess.sid # wsess.sid
  /\ wsess' = [wsess EXCEPT !.aged = TRUE]
  /\ UNCHANGED <<avars, rvars, wlink, wq, loop, outcome, transfer, runs, sealed>>

\* What the Wisp writes while its connection is broken is lost
ToAndroid(f) == IF wlink THEN Reaches(f) ELSE down

\* _send_session: given the session s it finds.  Without one, or with one that
\* is too old, it raises and nothing is sent.
SendSession(s, body, o) ==
  \/ /\ Live(s)
     /\ wsess' = [s EXCEPT !.send = @ + 1]
     /\ down' = ToAndroid([type |-> "session_envelope", sid |-> s.sid, seq |-> s.send,
                           body |-> body, op |-> o])
     /\ sealed' = [sealed EXCEPT !["wisp"][s.sid] = @ + 1]
  \/ /\ ~Live(s)
     /\ wsess' = s
     /\ UNCHANGED <<down, sealed>>

Reading(type) == wlink /\ loop = None /\ wq # <<>> /\ Head(wq).type = type

\* _handle_envelope
ReadInit ==
  /\ Reading("session_init")
  /\ wq' = Tail(wq)
  /\ wsess' = Fresh(Head(wq).sid)
  /\ down' = ToAndroid(AcceptOf(Head(wq).sid))
  /\ UNCHANGED <<avars, conn, up, route, wlink, loop, outcome, transfer, runs, sealed>>

\* A faulty decrypt, for a mutation of WispOpens: any session's frames
WispOpensAny(f) == ~wsess.aged /\ f.seq = wsess.recv

\* PeerSession.decrypt
WispOpens(f) ==
  /\ ~wsess.aged
  /\ f.sid = wsess.sid
  /\ f.seq = wsess.recv

\* _handle_session_envelope: without a session one is asked for
ReadUnknown ==
  /\ Reading("session_envelope")
  /\ wsess = None
  /\ wq' = Tail(wq)
  /\ down' = ToAndroid(Reset)
  /\ UNCHANGED <<avars, conn, up, route, wlink, wsess, loop, outcome, transfer, runs, sealed>>

\* Faulty, for a mutation of ReadInvalid: both sides are to start at zero again
ReadInvalidResync ==
  /\ Reading("session_envelope")
  /\ wsess # None
  /\ ~WispOpens(Head(wq))
  /\ wq' = Tail(wq)
  /\ wsess' = Fresh(wsess.sid)
  /\ UNCHANGED <<avars, rvars, wlink, loop, outcome, transfer, runs, sealed>>

\* A frame that does not decrypt: the session is dropped without a word
ReadInvalid ==
  /\ Reading("session_envelope")
  /\ wsess # None
  /\ ~WispOpens(Head(wq))
  /\ wq' = Tail(wq)
  /\ wsess' = None
  /\ UNCHANGED <<avars, rvars, wlink, loop, outcome, transfer, runs, sealed>>

\* _dispatch_session_body: what it answers about an operation it knows, asked
\* to resume it or to start it once more
StatusOf(o) ==
  CASE outcome[o] = "response"      -> "completed"
    [] outcome[o] = "error"         -> "completed_error"
    [] outcome[o] = "indeterminate" -> "indeterminate"
    [] OTHER -> IF o \in Files /\ transfer[o] # NoTransfer THEN "running" ELSE "expired"

Repeated(o) == IF outcome[o] # "none" THEN outcome[o] ELSE "running"

\* The request req for o, under the session s
Dispatch(req, o, s) ==
  \/ /\ req = "resume" \/ StatusOf(o) # "expired"
     /\ SendSession(s, IF req = "resume" THEN StatusOf(o) ELSE Repeated(o), o)
     /\ UNCHANGED <<loop, transfer, runs>>
  \/ /\ req = "start"
     /\ StatusOf(o) = "expired"
     /\ o \notin Files
     /\ loop' = o
     /\ runs' = [runs EXCEPT ![o] = @ + 1]
     /\ wsess' = s
     /\ UNCHANGED <<transfer, down, sealed>>
  \/ /\ req = "start"
     /\ StatusOf(o) = "expired"
     /\ o \in Files
     /\ \/ /\ transfer' = [transfer EXCEPT ![o] = [pc |-> "created"]]
           /\ SendSession(s, "ready", o)
        \/ /\ SendSession(s, "error", o)
           /\ UNCHANGED transfer
     /\ UNCHANGED <<loop, runs>>

\* A frame of the session: decrypted, and dispatched
ReadRequest ==
  /\ Reading("session_envelope")
  /\ wsess # None
  /\ WispOpens(Head(wq))
  /\ wq' = Tail(wq)
  /\ Dispatch(Head(wq).req, Head(wq).op, [wsess EXCEPT !.recv = @ + 1])
  /\ UNCHANGED <<avars, conn, up, route, wlink, outcome>>

-----------------------------------------------------------------------------
(* The Wisp runtime: callbacks and transfer tasks                           *)

\* The rest of _dispatch_session_body after an action's or a state's callback
CallbackReturns ==
  /\ loop # None
  /\ outcome' = IF loop \in Actions THEN [outcome EXCEPT ![loop] = "response"] ELSE outcome
  /\ SendSession(wsess, "response", loop)
  /\ loop' = None
  /\ UNCHANGED <<avars, conn, up, route, wlink, wq, transfer, runs>>

\* No answer; unless it is a ValueError the event loop and the connection end
CallbackRaises ==
  /\ loop # None
  /\ outcome' = IF loop \in Actions THEN [outcome EXCEPT ![loop] = "indeterminate"] ELSE outcome
  /\ loop' = None
  /\ \/ UNCHANGED <<wlink, wq>>
     \/ wlink' = FALSE /\ wq' = <<>>
  /\ UNCHANGED <<avars, rvars, wsess, transfer, runs, sealed>>

\* _receive_bulk_file looks the session up when the task runs
TaskStarts(f) ==
  /\ transfer[f].pc = "created"
  /\ wsess # None
  /\ transfer' = [transfer EXCEPT ![f] = [pc |-> "receiving", sid |-> wsess.sid]]
  /\ UNCHANGED <<avars, rvars, wlink, wq, wsess, loop, outcome, runs, sealed>>

\* _receive_bulk_transfer retains what its callback returned, or the failure,
\* and then answers
TaskEnds(f, body) ==
  /\ \/ body = "response" /\ transfer[f].pc = "callback"
     \/ body = "error" /\ transfer[f].pc \in {"receiving", "callback"}
     \/ body = "error" /\ transfer[f].pc = "created" /\ wsess = None
  /\ outcome' = [outcome EXCEPT ![f] = body]
  /\ transfer' = [transfer EXCEPT ![f] = [pc |-> "sending", body |-> body]]
  /\ UNCHANGED <<avars, rvars, wlink, wq, wsess, loop, runs, sealed>>

TaskSends(f) ==
  /\ transfer[f].pc = "sending"
  /\ SendSession(wsess, transfer[f].body, f)
  /\ transfer' = [transfer EXCEPT ![f] = NoTransfer]
  /\ UNCHANGED <<avars, conn, up, route, wlink, wq, loop, outcome, runs>>

-----------------------------------------------------------------------------
Android ==
  \/ \E o \in Ops : Begin(o)
  \/ Connect \/ ConnectFails \/ TransportFails \/ AndroidRestart \/ AgeAndroid
  \/ ReadAccepted \/ ReadAcceptance \/ ReadResponse
  \/ Upload \/ UploadFails

Relay == \E n \in Conns : Forward(n) \/ HandlerEnds(n)

Wisp ==
  \/ WispConnect \/ WispDisconnect \/ WispRestart \/ AgeWisp
  \/ ReadInit \/ ReadUnknown \/ ReadInvalid \/ ReadRequest
  \/ CallbackReturns \/ CallbackRaises
  \/ \E f \in Files :
       TaskStarts(f) \/ TaskSends(f) \/ \E body \in {"response", "error"} : TaskEnds(f, body)

Next == Android \/ Relay \/ Wisp

Spec == Init /\ [][Next]_vars

-----------------------------------------------------------------------------
(* Properties                                                               *)

\* The callback of an action or of a file action is started at most once for
\* its operation_id, whatever is lost, late or retried and whichever side is
\* restarted: recoverMutationOnce resumes, and no frame is executed twice.
RunsOnce == \A o \in Actions \cup Files : runs[o] <= 1

\* The operations of the client keep the promise of RemoteOperation
Remote == INSTANCE RemoteOperation WITH
  Mutations <- Actions \cup Files,
  asked     <- {o \in Ops : o = op \/ told[o] # "none"},
  starts    <- runs,
  result    <- told

\* Whatever is lost, late, retried or restarted on either side, the client's
\* operations are done one at a time and run at most once unless they only read.
\* One the user was told is "expired; retry explicitly"
\* (OperationProtocol.recoveryStatus) is never executed afterwards: its request
\* may still be on an abandoned connection, but the Wisp will not open it.
KeepsPromise == Remote!Spec

\* AES-GCM nonces are sequence numbers: the next one of either side was never
\* used under the session's key, though a handshake sets both back to zero and
\* a late one can replace the session at any time.
NonceOnce ==
  /\ asess # None => asess.send = sealed["android"][asess.sid]
  /\ wsess # None => wsess.send = sealed["wisp"][wsess.sid]

\* The client connects again with the session it has
Reuses == conn' # conn /\ asess' # None

\* Nothing sent under a session is still on its way to the Wisp or at work there
Quiet == (\A n \in Conns : up[n] = None) /\ wq = <<>> /\ loop = None

\* "It reuses an unexpired in-memory peer session only when its directional
\* sequence state is still continuous" (protocol.md:67): if the Wisp has the
\* session too, the client's next frame has the number the Wisp expects.
\* sessionFor looks at the session's age only, and an operation that fails in
\* its second attempt, or because the Wisp was offline, leaves it cached.
ContinuousReuse ==
  [][Reuses /\ Quiet /\ wsess # None /\ wsess.sid = asess.sid => wsess.recv = asess.send]_vars

=============================================================================
