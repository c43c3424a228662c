---------------------------- MODULE WispConnection ----------------------------
(***************************************************************************)
(* The relay connection of the Python Wisp runtime, appserve/client.py:     *)
(* serve and _serve_once make it again after every failure, the event loop, *)
(* the heartbeat and the transfer tasks write on it, and it is trusted for  *)
(* the certificate and the peers for the keys the runtime has pinned.       *)
(*                                                                          *)
(* All of them run on one asyncio loop and interleave at their awaits only. *)
(* `_relay_ready' is an asyncio.Event, whose waiters go on once it is set,  *)
(* `_send_lock' an asyncio.Lock, which is handed on first in, first out and *)
(* is held while a frame that was written waits for the socket to drain.    *)
(* (session_reset is written without it.)  What cancels a task, and what it *)
(* answers, is WispOperations' subject.                                     *)
(***************************************************************************)
EXTENDS Naturals, Sequences, SequencesExt, FiniteSets

CONSTANTS
  Tasks,    \* transfer tasks that answer the peer through _send_session
  Certs,    \* certificates the relay may be run with
  Keys,     \* public keys the peer may use
  None

Senders == Tasks \cup {"loop", "beat"}

ASSUME ConnectionAssumption ==
  /\ None \notin Certs \cup Keys \cup Senders \cup {"torn"}
  /\ "torn" \notin Certs
  /\ Tasks \cap {"loop", "beat"} = {}

VARIABLES
  pc,         \* where serve stands; its event loop is part of it
  writer,     \* _writer: which connection it is, if any
  ready,      \* _relay_ready is set
  waiters,    \* tasks that wait for _relay_ready
  queue,      \* those that wait for _send_lock
  holder,     \* the one that holds it
  beat,       \* the heartbeat task
  cert,       \* the relay's certificate
  anchor,     \* _tls_anchor_sha256
  anchorFile, \* and the file it is kept in
  peerKey,    \* the peer's entry of _peer_keys
  peerFile,   \* and the file they are kept in
  session     \* the key the peer's session was made with

lock   == <<waiters, queue, holder>>
trust  == <<cert, anchor, anchorFile, peerKey, peerFile, session>>
vars   == <<pc, writer, ready, lock, beat, trust>>

\* Asleep between two attempts; in _open_tls, _authenticate_endpoint and the
\* exchange that follows, for the control and then the relay connection; in the
\* event loop, reading or writing; in _serve_once's finally
Pcs == {"asleep", "opening", "control", "joining", "reopening", "relay",
        "greeting", "reading", "writing", "ending"}

TypeOK ==
  /\ pc \in Pcs
  /\ writer \in {"control", "relay", None}
  /\ ready \in BOOLEAN
  /\ waiters \in Seq(Tasks) /\ queue \in Seq(Senders)
  /\ holder \in Senders \cup {None}
  /\ IsInjective(waiters \o queue)
  /\ holder \notin Range(waiters \o queue)
  /\ beat \in {"none", "asleep", "writing", "dead"}
  /\ cert \in Certs
  /\ anchor \in Certs \cup {None} /\ anchorFile \in Certs \cup {None, "torn"}
  /\ peerKey \in Keys \cup {None} /\ peerFile \in Keys \cup {None}
  /\ session \in Keys \cup {None}

Init ==
  /\ pc = "asleep" /\ writer = None /\ ready = FALSE
  /\ waiters = <<>> /\ queue = <<>> /\ holder = None
  /\ beat = "none"
  /\ cert \in Certs
  /\ anchor = None /\ anchorFile = None
  /\ peerKey = None /\ peerFile = None /\ session = None

Busy(t) == t \in Range(waiters \o queue) \/ holder = t

-----------------------------------------------------------------------------
(* _send_lock                                                               *)

\* A free lock is taken at once by the first of list; the others queue
Acquire(list) ==
  IF holder = None /\ queue = <<>> /\ list # <<>>
  THEN holder' = Head(list) /\ queue' = Tail(list)
  ELSE UNCHANGED holder /\ queue' = queue \o list

\* Of the tasks in list, those that do not find at once that the peer has no
\* session, which raises
Answering(list) ==
  IF session = None /\ holder = None /\ queue = <<>> THEN <<>> ELSE list

\* A faulty _send_session, for a mutation of SendSession: it does not wait for
\* the relay connection
SendSessionAtOnce(t) ==
  /\ ~Busy(t) /\ writer # None
  /\ Acquire(Answering(<<t>>))
  /\ UNCHANGED <<pc, writer, ready, waiters, beat, trust>>

\* _send_session of a task that has its answer
SendSession(t) ==
  /\ ~Busy(t)
  /\ IF ready
     THEN Acquire(Answering(<<t>>)) /\ UNCHANGED waiters
     ELSE waiters' = Append(waiters, t) /\ UNCHANGED <<queue, holder>>
  /\ UNCHANGED <<pc, writer, ready, beat, trust>>

\* A faulty lock, for a mutation of Grant: its next holder stays in the queue
GrantKeeping ==
  /\ holder = None /\ queue # <<>>
  /\ holder' = Head(queue)
  /\ UNCHANGED <<pc, writer, ready, waiters, queue, beat, trust>>

\* The next one gets the lock.  A task looks at _writer and at the session
\* again, not at _relay_ready: it writes on whatever connection there is.
Grant ==
  LET s == Head(queue) IN
  /\ holder = None /\ queue # <<>>
  /\ queue' = Tail(queue)
  /\ \/ /\ s \in Tasks /\ writer = None
        /\ waiters' = Append(waiters, s)
        /\ UNCHANGED <<holder, pc>>
     \/ /\ s \in Tasks /\ writer # None /\ session = None
        /\ UNCHANGED <<holder, waiters, pc>>
     \/ /\ s \in Tasks => writer # None /\ session # None
        /\ holder' = s
        /\ UNCHANGED <<waiters, pc>>
     \/ /\ s = "loop" /\ session = None      \* a ValueError in _event_loop
        /\ pc' = "reading"
        /\ UNCHANGED <<holder, waiters>>
  /\ UNCHANGED <<writer, ready, beat, trust>>

\* The socket has drained, or the connection is lost and drain raises
Drained ==
  /\ holder # None
  /\ holder' = None
  /\ \/ /\ holder = "loop"
        /\ pc' \in {"reading", "ending"}
        /\ UNCHANGED beat
     \/ /\ holder = "beat"
        /\ beat' \in {"asleep", "dead"}
        /\ UNCHANGED pc
     \/ holder \in Tasks /\ UNCHANGED <<pc, beat>>
  /\ UNCHANGED <<writer, ready, waiters, queue, trust>>

-----------------------------------------------------------------------------
(* serve and _serve_once                                                    *)

Wake ==
  /\ pc = "asleep"
  /\ pc' = "opening"
  /\ UNCHANGED <<writer, ready, lock, beat, trust>>

\* A faulty end of an attempt, for a mutation of CloseConnection: the event
\* stays set
CloseConnectionReady ==
  /\ pc' = "asleep" /\ writer' = None
  /\ UNCHANGED ready

\* _close_connection, and the sleep
CloseConnection ==
  /\ pc' = "asleep" /\ writer' = None /\ ready' = FALSE

\* An attempt fails: the relay is not reached, its certificate is another, it
\* refuses the endpoint, or the connection is lost
Fail ==
  /\ pc \in {"opening", "control", "joining", "reopening", "relay", "greeting"}
  /\ CloseConnection
  /\ UNCHANGED <<lock, beat, trust>>

\* _bootstrap_tls, when no certificate is pinned.  The file is written last and
\* in place, which may fail, with the attempt, and may leave a part of it.
Bootstrap ==
  /\ pc = "opening" /\ anchor = None
  /\ anchor' = cert
  /\ \/ anchorFile' = cert /\ UNCHANGED <<pc, writer, ready>>
     \/ anchorFile' \in {anchorFile, "torn"} /\ CloseConnection
  /\ UNCHANGED <<lock, beat, cert, peerKey, peerFile, session>>

\* _open_tls: the certificate must be the pinned one
OpenTLS ==
  /\ anchor = cert
  /\ \/ pc = "opening" /\ pc' = "control" /\ writer' = "control"
     \/ pc = "reopening" /\ pc' = "relay" /\ writer' = "relay"
  /\ UNCHANGED <<ready, lock, beat, trust>>

\* _authenticate_endpoint and _complete_auth are answered with ok
Authenticated ==
  /\ \/ pc = "control" /\ pc' = "joining"
     \/ pc = "relay" /\ pc' = "greeting"
  /\ UNCHANGED <<writer, ready, lock, beat, trust>>

\* The Wisps are registered, and the control connection is closed
Registered ==
  /\ pc = "joining"
  /\ pc' = "reopening" /\ writer' = None
  /\ UNCHANGED <<ready, lock, beat, trust>>

\* A faulty greeting, for a mutation of RelayReady: the event is not set
RelayReadyUnset ==
  /\ pc = "greeting"
  /\ pc' = "reading" /\ beat' = "asleep"
  /\ UNCHANGED <<writer, ready, lock, trust>>

\* The relay has accepted the connection
RelayReady ==
  /\ pc = "greeting"
  /\ pc' = "reading" /\ ready' = TRUE /\ beat' = "asleep"
  /\ UNCHANGED <<writer, lock, trust>>

\* A task that waited for _relay_ready goes for the lock
Resumes ==
  /\ ready /\ waiters # <<>>
  /\ Acquire(Answering(<<Head(waiters)>>))
  /\ waiters' = Tail(waiters)
  /\ UNCHANGED <<pc, writer, ready, beat, trust>>

\* The connection is lost while the event loop reads, or what it read raises
Ends ==
  /\ pc = "reading"
  /\ pc' = "ending"
  /\ UNCHANGED <<writer, ready, lock, beat, trust>>

\* A faulty finally, for a mutation of CancelHeartbeat: a lock it holds or
\* waits for is not given up
CancelHeartbeatKeeping ==
  /\ beat' = "none"
  /\ UNCHANGED lock

\* The finally cancels the heartbeat and waits for it, which lets the tasks run
\* that were woken before
CancelHeartbeat ==
  /\ beat' = "none"
  /\ queue' = RemoveFirst(queue, "beat")
  /\ holder' = IF holder = "beat" THEN None ELSE holder
  /\ UNCHANGED waiters

End ==
  /\ pc = "ending" /\ (ready => waiters = <<>>)
  /\ CancelHeartbeat
  /\ CloseConnection
  /\ UNCHANGED trust

-----------------------------------------------------------------------------
(* The event loop and the heartbeat                                         *)

\* The event loop has something to send: a pong, or an answer under the session
Answer ==
  /\ pc = "reading"
  /\ pc' = "writing"
  /\ Acquire(<<"loop">>)
  /\ UNCHANGED <<writer, ready, waiters, beat, trust>>

\* 25 s have passed; _relay_ready is set as long as there is a heartbeat
HeartbeatDue ==
  /\ beat = "asleep"
  /\ beat' = "writing"
  /\ Acquire(<<"beat">>)
  /\ UNCHANGED <<pc, writer, ready, waiters, trust>>

\* Faulty trust in a peer, for a mutation of Trusted: any key will do
TrustedAlways(k) == TRUE

\* decrypt_envelope takes the pinned key, or the advertised one if there is none
Trusted(k) == peerKey \in {k, None}

\* _remember_peer; writing the file may fail, which raises
RememberPeer(k) ==
  /\ peerKey' = k
  /\ peerFile' \in IF peerKey = None THEN {k, peerFile} ELSE {peerFile}

\* _handle_envelope: the handshake of a peer with key k.  Whatever it raises
\* ends the event loop (Ends).  The acceptance is sent by _send_envelope.
HandleEnvelope(k) ==
  /\ pc = "reading"
  /\ Trusted(k)
  /\ RememberPeer(k)
  /\ IF peerKey = None /\ peerFile' = peerFile
     THEN pc' = "ending" /\ UNCHANGED <<session, queue, holder>>
     ELSE pc' = "writing" /\ session' = k /\ Acquire(<<"loop">>)
  /\ UNCHANGED <<writer, ready, waiters, beat, cert, anchor, anchorFile>>

\* A session frame that does not decrypt, or the peer's session_reset
DropSession ==
  /\ pc = "reading" /\ session # None
  /\ session' = None
  /\ UNCHANGED <<pc, writer, ready, lock, beat, cert, anchor, anchorFile, peerKey, peerFile>>

-----------------------------------------------------------------------------
(* Restarts                                                                 *)

\* The process ends and is started again, perhaps with reset_peer_trust.  It
\* does not start on a torn anchor file: somebody has to remove that first.
Restart ==
  /\ pc' = "asleep" /\ writer' = None /\ ready' = FALSE
  /\ waiters' = <<>> /\ queue' = <<>> /\ holder' = None
  /\ beat' = "none"
  /\ peerFile' \in {peerFile, None}
  /\ anchorFile' = IF anchorFile = "torn" THEN None ELSE anchorFile
  /\ anchor' = anchorFile' /\ peerKey' = peerFile' /\ session' = None
  /\ UNCHANGED cert

\* The relay is restarted with another certificate
Renew ==
  /\ cert' \in Certs \ {cert}
  /\ UNCHANGED <<pc, writer, ready, lock, beat, anchor, anchorFile, peerKey, peerFile, session>>

Next ==
  \/ \E t \in Tasks : SendSession(t)
  \/ Grant \/ Drained
  \/ Wake \/ Fail \/ Bootstrap \/ OpenTLS \/ Authenticated \/ Registered
  \/ RelayReady \/ Resumes \/ Ends \/ End
  \/ Answer \/ HeartbeatDue \/ DropSession
  \/ \E k \in Keys : HandleEnvelope(k)
  \/ Restart \/ Renew

Spec == Init /\ [][Next]_vars

\* asyncio runs what can run, a written frame drains or its connection is lost,
\* and the relay lets the endpoint in when it keeps trying: every step of an
\* attempt succeeds sooner or later
FairSpec ==
  /\ Spec
  /\ WF_vars(Grant) /\ WF_vars(Drained) /\ WF_vars(Wake) /\ WF_vars(Resumes) /\ WF_vars(End)
  /\ SF_vars(Bootstrap) /\ SF_vars(Registered) /\ SF_vars(RelayReady)
  /\ SF_vars(pc = "opening" /\ OpenTLS) /\ SF_vars(pc = "reopening" /\ OpenTLS)
  /\ SF_vars(pc = "control" /\ Authenticated) /\ SF_vars(pc = "relay" /\ Authenticated)

-----------------------------------------------------------------------------
(* Properties                                                               *)

(* While _relay_ready is set there is a relay connection the relay has      *)
(* accepted: _send_session, which would try again for ever without an       *)
(* await, relies on it.  It is cleared and _writer reset in two places.     *)
ReadyIsServed ==
  ready => writer = "relay" /\ pc \in {"reading", "writing", "ending"}

(* The lock is held and waited for by tasks that will give it up: the event *)
(* loop where it writes, and a heartbeat that was not cancelled, whatever   *)
(* connection its predecessor was on.                                       *)
LockIsLive ==
  LET asking == Range(queue) \cup {holder} IN
  /\ "loop" \in asking <=> pc = "writing"
  /\ "beat" \in asking <=> beat = "writing"

(* Keys and certificates on file stay pinned, in the file and in memory,    *)
(* through lost connections, failing writes and restarts; only a start with *)
(* reset_peer_trust forgets the peers.  A session is always one made with   *)
(* the pinned key.                                                          *)
PinnedForGood ==
  [][/\ anchorFile \in Certs => anchorFile' = anchorFile /\ anchor' = anchorFile
     /\ peerFile # None => \/ peerFile' = peerFile /\ peerKey' = peerFile
                           \/ peerFile' = None /\ peerKey' = None
     /\ session' \in {peerKey', None}]_vars

(* An answer that finds the lock free is written on a connection the relay  *)
(* has accepted, never on the control connection or one that is still being *)
(* authenticated: only an answer that waited for the lock may be.           *)
StraightToRelay ==
  [][\A t \in Tasks : holder' = t /\ holder # t /\ t \notin Range(queue) => ready']_vars

\* The relay has been given another certificate than the pinned one
Stale == anchor \notin {cert, None}

\* Tasks that wait for an accepted connection, or on one for its lock
Waiting(t) == t \in Range(waiters) \/ (ready /\ t \in Range(queue))

(* The connection serves those that wait for it: a task is written on one   *)
(* the relay has accepted, or dropped, since the peer has no session or the *)
(* process was restarted. Attempts that fail are no excuse. The loss of an  *)
(* accepted connection is: a task that waits again after it has the same    *)
(* claim on the next, but one that every loss overtakes waits for ever. So  *)
(* is a certificate that is not the pinned one, with which no attempt       *)
(* succeeds. The lock comes round over all losses: no task stays queued for *)
(* it. That an answer still queued when its connection is lost goes out is  *)
(* not claimed: it may be written before the next one is accepted.          *)
AnswersGoOut ==
  /\ \A t \in Tasks :
       Waiting(t) ~> \/ ready /\ holder = t
                     \/ ~Busy(t) /\ session = None
                     \/ pc = "ending" \/ Stale
  /\ \A t \in Tasks : t \in Range(queue) ~> t \notin Range(queue)
=============================================================================
