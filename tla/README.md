# TLA+ models of WispGate

WispGate connects *Wisps* (small applications served by a Python runtime) with an
Android client through a relay. The relay authenticates endpoints, keeps a durable
registry of them, forwards end-to-end encrypted envelopes between endpoints that
are online, tells clients which Wisps are online, and pairs connections for file
transfers. This directory holds models of that system in TLA+, configurations that
check them with TLC on small instances, and proofs checked by TLAPS.

Paths below are relative to the repository's root.

## 1. Inventory

| component | state it keeps | operations |
|---|---|---|
| Relay registry: `server/appserve_server/core.py` (`RelayState`), `service.py` (`handle_control`, `_authenticate_endpoint`, `management_request`) | `clients` (key, kind, status, admin), `wisps`, the JSON file, `auth_challenges` | load, save, enrol, authenticate, join, register Wisps, claim administrator, approve/reject/revoke, register/remove a Wisp |
| Relay sessions: `service.py` (`handle_relay`, `forward`) | `sessions`, `relay_liveness` | connect, read a line, forward an envelope, fail to deliver, end, expire, be refused |
| Catalog broadcasts: `service.py` (`broadcast_catalog`, end of `handle_control`) | `control_sessions`, the catalog computed from registry and liveness | register, subscribe, broadcast, end |
| Bulk relay: `service.py` (`handle_bulk`, `_pipe_bulk`, `_copy_bulk_ciphertext`) | `pending_bulk`, `consumed_bulk`, `bulk_lock`, the pipe tasks | connect, wait, pair, copy, complete, fail, time out, clean up |
| Wisp runtime, operations: `appserve/client.py` (`_event_loop`, `_dispatch_session_body`, `_receive_bulk_transfer`, `_expire_*`) | `_completed_operations`, `_active_operations`, `_transfers` and their tasks | action, `file_begin`, `operation_resume`, `state_request`, expiry, reconnection |
| Wisp runtime, peer sessions: `appserve/client.py`, `appserve/e2e.py` | `_peer_sessions`, `_peer_keys`, sequence numbers | handshake, encrypt, decrypt, reset |
| Wisp runtime, connection and trust: `appserve/client.py` (`serve`, `_serve_once`, `_send_session`, `_heartbeat_loop`, `_bootstrap_tls`, `_open_tls`, `_remember_peer`) | `_writer`, `_relay_ready`, `_send_lock`, the heartbeat, the pinned certificate and peer keys with their files | attempt, authenticate, register, be ready, fail, sleep; send under the lock; pin, restart |
| Android client: `RelayClient.kt`, `SessionCrypto.kt`, `RelayFrames.kt` | peer sessions, the operation in flight | connect, operate, recover, upload |
| Android files: `WispFileTransfer.kt`, `BulkTransferService.kt`, the part of `MainActivity.kt` that drives them | staged actions and their directories, queued jobs, the transfers the service owns, start ids | begin, cancel, finish, hand over, start, clean up, stop |
| Cryptography, HTML pages, settings, examples | keys | pure functions and I/O |

How they interact. All listeners of the relay run on one asyncio loop and share the
tables of one `RelayRuntime`; a handler gives way to others only at an `await`. The
registry's status decides who may authenticate, and a refusal takes the endpoint out
of `sessions` and `control_sessions`. Sessions and liveness decide what the catalog
lists, and their changes start broadcasts inside the handler that made them. The
runtime and the Android client are endpoints of the relay and open, for every file, a
pair of connections to the bulk port.

What is hard in it:

* several connections of one endpoint run side by side, since a new one does not close
  the old; every clean-up has to ask whether the entry it removes is its own;
* values are read before an `await` and used after it (`known` in an authentication,
  the destination of an envelope, the list of subscribers, the waiting bulk connection);
* memory is changed before the file is, and a save can fail or the process die between;
* time-outs race with what they wait for (30 s to be paired, 10 minutes to copy,
  10 minutes for a transfer, 75 s of silence);
* requests are repeated and resumed after reconnections, and must not run twice;
* the runtime's event loop, heartbeat and transfer tasks share one connection that is
  made again at any time, behind one lock;
* on Android the page's bridge thread, the main thread, coroutines and the system's
  delivery of service starts interleave, and the process can be killed.

What makes each component correct: *registry*: what was answered survives, keys do not
change, refused endpoints stay out until an administrator says otherwise. *Sessions*:
an entry names a running handler, the newest healthy connection is the one reached,
broken ones are forgotten. *Catalog*: subscribers end up with the present catalog.
*Bulk*: the right two connections are joined, nobody waits where no partner looks,
completion means every byte, every handler ends. *Operations*: an operation runs at
most once while its outcome is retained, and what ran has an outcome to resume.
*Peer sessions and recovery*: no nonce is used twice, both sides agree on what comes
next or shake hands again, a retried operation runs once, and one that the user was
told to retry does not run afterwards. *Connection and trust*: the send lock is always
given up, a connection that lasts serves all who wait for it, what is pinned on file stays
pinned.
*Files*: a transfer keeps its files and its service, nothing stays on disk, the service
stops.

`PROJECT.json` lists the components with what is modelled of each, the hazards line by
line, and which definition models which lines.

## 2. Modules

| module | models | proofs, notes |
|---|---|---|
| `RelayRegistry` | registry, control connections up to their subscription, crashes, restarts, failing saves | `RelayRegistryProofs` |
| `RelaySessions` | relay handlers, forwarding, liveness, refusal | `RelaySessionsProofs` |
| `CatalogBroadcast` | subscriptions and overlapping broadcasts | `CatalogBroadcastProofs` |
| `BulkRelay` | bulk handlers, the lock, the pipes | `BulkRelayProofs` |
| `BulkTransfer` | what the bulk port promises the two ends of a transfer, without tables, lock, tasks and time-outs | abstract; `BulkRelay` implements it (`KeepsPort`, proved in `BulkRelayProofs`) |
| `WispOperations` | the runtime's event loop, retained outcomes, transfer tasks | `WispOperationsProofs` |
| `PeerSessions` | the Android client's operations and recovery, sessions and sequence numbers on both sides, the relay between, the runtime's answers | `PeerSessionsProofs` |
| `RemoteOperation` | what an operation of the client promises, without sessions, retries or connections | abstract; `PeerSessions` implements it (`KeepsPromise`, proved in `PeerSessionsProofs`) |
| `WispConnection` | the runtime's connection attempts, `_relay_ready`, `_send_lock`, heartbeat, pinned certificate and peers | `WispConnectionProofs` |
| `FileActions` | staging, hand-over and the foreground service on Android | `FileActionsProofs` |
| `MC*` | the same for TLC, with the symmetry used | one per module |

Conventions. An action is the code between two awaits of one handler or task (`pc`
names the await a handler stands at) or one event of the environment: a link breaks, a
timer fires, the process dies. Variables keep the names of the tables where they model
one. Variables commented *history* record what happened, no action's guard reads them.
A transport that is gone makes a write raise or lose the message, both are possible,
since asyncio notices a lost connection late. Times are events that can happen whenever
their timer runs. An operator introduced as *faulty* is a plausible mistake in the
definition after it: the mutants in `PROJECT.json` put it in that definition's place, and
the property named there is then violated.

Correspondence that is not obvious from the names:

* `RelayRegistry`: a `Book` is the content of a `RelayState`. A status `"absent"` is an
  endpoint without a record, `"legacy"` a record of a file written before records had
  a status (`load` makes it approved; `Init` allows such files). `disk` is replaced as a
  whole by `save`; a save that raises leaves it. `Proof` is the code after the challenge is
  answered: it saves once or twice, and each can fail. Requests that change nothing
  (`list_*`, `inspect_endpoint`, unauthorised ones) are left out, as is the number of
  `last_seen`. `queues` is always empty, because nothing calls `queue`.
* `RelaySessions`: `forward` is two actions, `ReadEnvelope` up to the await of `accepted`
  with the destination fixed, and `Deliver` or `DeliveryFails` after it. `Finally` is the
  handler's `finally` up to its broadcast. `live` are the endpoints whose liveness is
  younger than 75 s, `Expire` is the 75 s passing.
* `CatalogBroadcast`: `listed` are the owners that pass every test of `catalog_items`;
  what changes it is either followed by a broadcast of the handler that changed it, or
  not (`SilentChange`, `Approve`, `Refuse`), which the history variable `silent` records.
* `BulkRelay`: the lock is held across an await only by a handler that sends a refusal
  (`Locked`); all else under it is one action. `Files` is what the two endpoints mean by
  a connection; the relay does not see it.
* `BulkTransfer` is refined with `conn` what an endpoint sees of its connection (`Seen`:
  what it asked for, the last message and the bytes it got), `looking` the connections
  pending under a key, `streams` the pipes without the await they stand at, `used` the
  consumed keys. The first connection of a transfer is `Look`, the second `Meet`, every
  refusal `Refuse`; the steps of a pipe are `Tell`, `Copy` and `End`, the `finally` is
  `Close`; the rest (a refusal is sent, a wait times out, a task sets `paired`, a link
  breaks) is a stutter.
* `WispOperations`: one peer. `_active_operations` needs no variable: the event loop
  dispatches requests one after the other, callbacks included (`background_mutations`
  is passed on but read nowhere), so an operation is in it exactly while
  `loop.pc = "callback"`, when no request is read. A transfer is `"accepted"` between
  its entry in `_transfers` and the creation of its task. `_send_wisp_response` of a
  response with assets never gets to send: `_prepare_outbound_assets` raises, or its
  caller does for the attribute `ticket` (`client.py:817`) that
  `_PreparedOutboundAsset` does not have (`AssetsRaise`, and the second disjunct of
  `TaskReturns`).
* `WispConnection`: the task that runs `serve` is the event loop too, `pc` is where it
  stands. `waiters` are the tasks in `_relay_ready.wait()`, `holder` and `queue` the lock. A
  task that finds the lock free goes on at once, so the code from the wait to the write is
  one action (`SendSession`, `Resumes`); one that has queued looks at `_writer` and the
  session again when it gets the lock (`Grant`), at `_relay_ready` it does not. The
  heartbeat's cancellation gives up the lock or its place in the queue (`async with`).
  What a task answers, its end and its cancellation are `WispOperations`'.
* `FileActions`: one directory per action stands for its files. `finish` holds the
  stager's lock while `onFileAction` and `enqueue` run, so it is two actions with the main
  thread's between (`Finish`, `HandOver`); the WebView can be destroyed between them, as that
  takes no lock (`"parting"`). Such a call goes on with its own activity's selection, so
  `SelectedBy` leaves open what it finds. `lastId` is the system's latest start id, which
  `stopSelf(id)` is compared with. `"stranded"` marks the directories that nobody will
  remove before the next process.
* `RemoteOperation` is refined with `asked` the operations begun, `starts` how often the
  Wisp's callback was started, `result` what the caller was told. A step of `PeerSessions`
  is `Ask`, `Start`, `Tell` or a stutter.
* `PeerSessions`: one operation of the client at a time (the mutex of
  `RelayOperationCoordinator`), its `pc` is the read it stands at. A `session_id` is the
  number of the connection whose handshake made it, a ciphertext is its session and
  sequence number. `up[n]` is the one frame connection `n` may hold that the relay has
  not read (the client never writes twice without reading in between); the relay reads
  the connections in any order, so `Forward` can deliver from an abandoned connection
  after a newer one. `forward` answers the sender's present session (`Reaches`), not the
  connection the frame came on. `ReadInvalid` removes the Wisp's session and says
  nothing, only `ReadUnknown` sends a `session_reset`. `Retry` is what
  `recoverMutationOnce` and `retrySessionOnce` have in common, `Fail` any other
  exception: it leaves the session cached. A transfer of one file is a rendezvous of
  `Upload` with the task that looked up the same session. Ages of outcomes and
  transfers and the limits of manifests are `WispOperations`', the sockets `BulkRelay`'s.

## 3. Runs

Passing runs:

| run | instance | states | what it shows |
|---|---|---|---|
| `registry` | 2 endpoints, 2 keys, 2 connections, 1 Wisp | 55 thousand | `ClaimPermanent`: who was answered "claimed" stays the one approved administrator; `AnswersDurable`: an answered status is in file and memory; `AuthenticatedByRecordedKey` although `known` is read before the challenge; `KeyPinned`; `RefusedUntilApproved` although `claim_admin` asks nothing of the caller's status |
| `sessions` | 2 endpoints, 2 connections, fair | 499 thousand | `SessionIsServed`, `NewestServed`; `AdvertisedHasSession`: liveness and session change together, but for the two cases the history variable `late` records; `BrokenSessionEnds` (liveness) |
| `catalog` | 2 clients, 1 owner, 2 control and 2 relay handlers | 591 thousand | `SubscriberIsServed`; `SubscribersUpToDate` after any overlap of broadcasts; `SubscriptionKept`: a healthy subscription is lost only to a broadcast in which an earlier connection's write failed |
| `bulk` | 3 connections, 2 keys, lengths 1 and 3, chunk 2, 1 may wait | 1.86 million | `PairSound`, `WaiterFindable`, `ExactCopy` |
| `bulk_live` | 2 connections, 1 key, fair | 18 thousand | `HandlersEnd` (liveness); `KeepsPort`, the refinement of `BulkTransfer`: who looks for a partner meets, once, a connection that fits and still looks, and what each end is told and sent is by its own stream, in order |
| `operations` | 1 action, 2 transfers | 266 thousand | `AtMostOnce`, `OutcomeKept`, `ExpiredIsTrue`; `OutcomeStable`: what a peer is told of an operation changes only when its outcome is dropped for its age or overwritten while its task waits to send it |
| `connection` | 2 transfer tasks, 2 certificates, 2 keys, fair | 48 thousand | `ReadyIsServed`, `LockIsLive`: the lock and the event survive every failure in step with the connection; `PinnedForGood` through failing writes and restarts; `StraightToRelay`: an answer that finds the lock free is written on an accepted connection; `AnswersGoOut` (liveness): a task that waits for a connection, or on an accepted one for the lock, is written on an accepted one or finds no session, unless that connection is lost first or the certificate was replaced; no task stays queued for the lock |
| `files` | 4 file actions, 2 staged at a time, fair | 74 thousand | `Undisturbed`: files and service are there until a transfer is over; `NoLitter` but for two leaks; `ServiceStops` (liveness) |
| `peers` | 1 action, 1 file action, 3 connections | 2.35 million | `KeepsPromise`, the refinement of `RemoteOperation`: one operation at a time, at most one execution across lost, late and retried requests and restarts of either side, none after the user was told it is expired, though its request may still be on an abandoned connection; `RunsOnce`, the same on the concrete state; `NonceOnce`: late handshakes and lost frames never bring a sequence number back under its key |

Runs in which the code disagrees with what the repository says of it (one property
each, TLC finds it violated; `PROJECT.json` quotes the sentence):

| run | property | what happens |
|---|---|---|
| `bulk_files` | `UsedMeansThisFile` | the bulk key names the transfer, not the file, and is used up by the first file |
| `operations_twice` | `CompletedOnce` | an action whose response has assets leaves no outcome; its repetition runs it again |
| `peers_reuse` | `ContinuousReuse` | a request is refused because the Wisp is offline; the session stays cached, one number ahead; when the Wisp is back the next operation reuses it, the Wisp drops the session without a word, and the client waits for an answer for as long as the relay answers its pings, with every other operation behind the mutex |

Observed while modelling and not the subject of a run of its own.

In the relay:

* `claim_admin` (`core.py:242`) sets the flags before `save()`; when that raises they stay,
  and the endpoint's second connection is told `already_admin` from memory. After a crash
  another endpoint can claim, although the docstring calls it "the one-time administrator
  claim". (`ClaimPermanent` is about those who were answered "claimed", after a save.)
* A line on a connection that is no longer the session makes its endpoint live again
  (`service.py:433`), and its end leaves it so; a refusal leaves the liveness too. Either
  way Wisps can be advertised without a session for up to 75 s, against the comment at
  `service.py:73`. `AdvertisedHasSession` excepts exactly these.
* `broadcast_catalog` (`service.py:410`) pops a client whose write failed by its identifier,
  with a new healthy subscription if it has one, against the comment at
  `service.py:373`. `SubscriptionKept` excepts exactly this.
* An endpoint refused while `authenticated` is being sent becomes a session afterwards
  (`service.py:421`); the removal of its Wisps is not saved (`service.py:162`).
* `tests/test_enrollment_management.py:34` is named for a rule ("non android endpoint
  cannot claim first administrator") that `claim_admin` does not have.

In the Wisp runtime:

* A response with assets is never sent: `AttributeError` at `client.py:817`, which ends the
  event loop or the transfer's task, against `docs/protocol/response-assets.md:3`.
* `_expire_file_transfers` (`client.py:762`) overwrites a response already retained with
  "indeterminate" when the transfer's task is still in its last send; `OutcomeStable`
  excepts exactly this.
* A transfer whose `ready` could not be sent (`client.py:511`) has no task and is reported as
  running until it expires. A callback that raises anything but a `ValueError` ends the
  event loop and with it the relay connection (`docs/protocol/operations.md:5` says such
  exceptions become operation results).
* A task that queued for `_send_lock` on a connection that was lost gets it while the next
  one is made and writes its answer on the control connection, or on the relay
  connection before it is authenticated; the answer is lost, though retained, and the
  relay refuses the attempt. `tests/test_python_client_e2e.py:407`
  (`test_inflight_completion_waits_for_reconnected_relay`) covers the free lock. No property
  forbids it: `StraightToRelay` is of the free lock, `AnswersGoOut` of who waits for a
  connection or queues on an accepted one.
* The pinned certificate is never replaced: after the relay's has changed, each attempt
  fails although `serve` logs "restarting from bootstrap"; `AnswersGoOut` excepts this
  (`Stale`).
* The anchor file is written in place (`client.py:1070`): a write that fails, or a crash in it,
  can leave a part of it, on which the next start raises (`client.py:220`) until somebody
  removes it (`"torn"` in `WispConnection`; `Restart` is the first start that succeeds). The
  file of the peers' keys is replaced as a whole.
* A peer key whose file could not be written (`client.py:388`) is pinned until the process
  ends, and another may be pinned then (`protocol.md:160`).
* `asyncio.open_connection` is called with its default limit of 64 KiB a line, while the relay
  forwards lines up to `RELAY_LINE_LIMIT_BYTES`, a little over 1 MiB: a longer one ends the
  event loop (`Ends`).

In the Android client:

* Nothing ties an answer to an operation, so after a failed second attempt its late answer
  is taken as the next operation's (`RelayClient.kt:287`: sixteen steps in `PeerSessions`, a
  resume fails in transit, the next action reuses the session and is answered with the
  resume's `expired`). An answer that comes late is the first frame the second attempt's
  connection reads and ends it (`RelayClient.kt:440`).
* Peer sessions are kept over a reconnection, where `protocol.md:142` has "a new
  authenticated peer handshake" after it.
* A staged action is left on disk until the next process when the user leaves while it is
  handed over (`MainActivity.kt:179`), or when the page begins it after `cancelAll`.
* The answer to a state request or action is shown whatever Wisp is selected when it comes
  (`MainActivity.kt:163`, `275`).

### Bounds

Each bound is a constant of its module. Two endpoints and two connections are the
least with which one endpoint has two connections, one of which ends, or two endpoints
contend for a claim; the properties of the registry and of the sessions quantify over
at most two endpoints and two connections. Three bulk connections allow a pair and an
intruder with the same or another key; lengths 1 and 3 with a chunk of 2 have a short
only chunk and a short last one; `MaxPending = 1` makes the limit bite. The refinement is
checked with two connections, each of which is used again after it closed, so that an entry
or a pipe of the earlier use can meet the later one.
`MaxRuns = 2` stops counting executions at two, where `AtMostOnce` is already
violated. Three client
connections allow a session to be cached by one operation and the next one's first
request to be late behind its second attempt, which is what `KeepsPromise` needs. Two
transfer tasks, the event loop and the heartbeat give the send lock a holder and a queue of
three; the second certificate and key are the other one that has to be told from the
pinned one. Four file actions over a stager for two let actions be staged, queued, running
and over at the same time, with up to four starts undelivered.
Larger instances were also checked: the peers with a state request besides (14.8 million
states, four minutes, before the refinement was added to it), sessions with three connections (1.64
million states, before `late`), five file actions (798 thousand), the registry with three endpoints and no Wisp (1.19 million), the
liveness of bulk with three connections and one length (502 thousand), the refinement of
`BulkTransfer` on the instance of `bulk`.

### Fairness

`RelaySessions!FairSpec`: weak fairness of `EndBroken` and `Close`. The read in
`handle_relay` has a time-out of 75 s, and a handler that can go on is run by the event
loop. The awaited writes have no time-out; a broken connection's writes end because
the transport reports the loss, and the last broadcast's writes are assumed to end (see
the hazard at `service.py:406`, which is a limit of this assumption).
`BulkRelay!FairSpec`: weak fairness of what the event loop and the timers of 30 s and
10 minutes drive (`Refused`, `Resume` or `WaitTimeout`, each step of a pipe), strong
fairness of `Cleanup`, since it waits for `bulk_lock` and `asyncio.Lock` serves its
waiters first come, first served. Nothing is assumed of links or of new connections.
`WispConnection!FairSpec`: weak fairness of what asyncio runs when it can (`Grant`, `Wake`,
`Resumes`, `End`) and of `Drained`, since a written frame drains or its connection is lost.
Strong fairness of each step of an attempt: `serve` tries for ever, and it is assumed that a
relay which is asked again and again lets the endpoint in. Nothing makes a connection
last. `AnswersGoOut` therefore has the loss of an accepted connection as an excuse
(`pc = "ending"`), but not a failed attempt. After a loss a task waits again and the claim
begins anew, so a connection that is not lost serves every waiting task; but if each is lost
before a task's turn, that task waits for ever, which the code does not prevent: when one
task drains on a lost connection, another that queues behind it finds no writer and waits
again, as often as that happens. An answer that is queued when its connection is lost may be
written on the next before that is accepted (section 3); of it only the second part of
`AnswersGoOut` speaks, that it does not stay queued.
`FileActions!FairSpec`: the system delivers starts and coroutines run (`OnStartCommand`,
`Finished`, `StopSelf`); that a transfer ends is not assumed.

## 4. Proofs

Every invariant, every action property and both refinements that the passing runs check are
theorems of `Spec`, for every value of the constants that the module's named `ASSUME`
allows. `FairSpec` implies `Spec`, so they hold of it too.

| module | theorem | states |
|---|---|---|
| `RelayRegistryProofs` | `TypeCorrect` | `TypeOK` |
| | `ClaimIsPermanent` | `ClaimPermanent` |
| | `AnswersAreDurable` | `AnswersDurable` |
| | `OnlyTheRecordedKey` | `AuthenticatedByRecordedKey` |
| | `KeysArePinned` | `KeyPinned`, an action property |
| | `RefusedStayOut` | `RefusedUntilApproved`, an action property |
| `RelaySessionsProofs` | `TypeCorrect` | `TypeOK` |
| | `SessionsAreServed` | `SessionIsServed` |
| | `NewestKeepsSession` | `NewestServed` |
| | `AdvertisedAreReachable` | `AdvertisedHasSession` |
| `CatalogBroadcastProofs` | `TypeCorrect` | `TypeOK` |
| | `SubscribersAreServed` | `SubscriberIsServed` |
| | `SubscribersAreUpToDate` | `SubscribersUpToDate` |
| | `SubscriptionsAreKept` | `SubscriptionKept`, an action property |
| `BulkRelayProofs` | `TypeCorrect` | `TypeOK` |
| | `PairsAreSound` | `PairSound` |
| | `WaitersAreFindable` | `WaiterFindable` |
| | `PendingAreOpen` | `PendingIsOpen`: nobody is paired with a connection that closed or has a partner |
| | `CopiesAreExact` | `ExactCopy` |
| | `NobodyWaitsInVain` | `JoinedHasPipe`, the safety core of `HandlersEnd` |
| | `ToldInOrder` | `ToldInStep`: each end was last told what its own pipe had to say by then |
| | `PortIsKept` | `KeepsPort`, the refinement of `BulkTransfer` |
| `WispOperationsProofs` | `TypeCorrect` | `TypeOK` |
| | `RunsAtMostOnce` | `AtMostOnce` |
| | `OutcomesAreKept` | `OutcomeKept` |
| | `ExpiredMeansGone` | `ExpiredIsTrue` |
| | `OutcomesAreStable` | `OutcomeStable`, an action property |
| `WispConnectionProofs` | `TypeCorrect` | `TypeOK` |
| | `ReadyMeansServed` | `ReadyIsServed` |
| | `LockStaysLive` | `LockIsLive` |
| | `TrustIsPinned` | `PinnedForGood`, an action property |
| | `AnswersGoToRelay` | `StraightToRelay`, an action property |
| `FileActionsProofs` | `TypeCorrect` | `TypeOK` |
| | `FilesUndisturbed` | `Undisturbed` |
| | `NoLitterLeft` | `NoLitter` |
| | `ServiceRunsForSomething` | `ServiceHasReason`, the safety core of `ServiceStops` |
| `PeerSessionsProofs` | `TypeCorrect` | `TypeOK` |
| | `MutationsRunOnce` | `RunsOnce` |
| | `NoncesAreNew` | `NonceOnce` |
| | `PromiseIsKept` | `KeepsPromise`, the refinement of `RemoteOperation` |

Each module proves an inductive invariant (`Invariance`: `Spec => []...Inv`) with one
lemma for each action, or for the actions that do the same to what the invariant is about,
and derives the theorems from it. Each invariant was checked with TLC on the instance of
its module's run before it was proved.

### What is assumed

The values that stand for "none" are none of the values they are told from, and the kinds of
an operation or of a task are disjoint: in the code those are `None`, `null`, missing entries
and separate tables. Bounds are natural numbers; the lengths of `BulkRelay` and its chunk are
not 0, since `handle_bulk` refuses lengths under 16. `FileActions` has finitely
many transfers (a process stages finitely many), which the counting of start ids needs, and
nothing is assumed of how many may be staged at a time. In `PeerSessions` no operation is
two kinds of request; that `MaxConns` is a number bounds the model's run, not the
theorem, which holds for every such number. The proofs use the library's facts about
sequences and cardinalities, and no others.

### The invariants, and why the properties alone do not carry over a step

*`RegistryInv`.* A claim is permanent only because no second one can find the registry
without an approved administrator, which needs that in memory and in the file
administrators are approved and at most one (`Consistent`). The answered state has to be
in both at once, because a crash replaces memory by the file; hence the relation between
them (`Remembered`: a running relay's memory holds the key of every endpoint of the
file). That an authenticated connection proved the recorded key needs what the hello of
a challenged one had read (`Connected`). Most steps only enrol or change Wisps: they
extend the registry (`Extends`), and `ExtendingKeepsInv` treats them together. Claims
and status changes have lemmas of their own (`ClaimInv`, `StatusInv`). That refused endpoints
stay out needs the third conjunct of `Consistent`: whoever is refused was refused by an
administrator, and there still is one, so that `claim_admin` does nothing.

*`SessionsInv`.* `AdvertisedHasSession` is about endpoints that are approved and have
Wisps, and both can become true without a look at the sessions. What is kept is stronger:
liveness alone comes with a session (`LiveHasSession`).

*`CatalogInv`.* A subscriber is up to date when all broadcasts are over because, before
that, one whose catalog is old is still in the list of a broadcast that runs, or a broadcast is
about to start (`Announced`, `Informed`). What is written to a connection is meant for the
client it was listed under, who has to be the client it is subscribed for
(`ListedUnderClient`).

*`BulkInv`.* The pairing stays sound because a connection is in at most one pipe
(`PipesApart`); the count of bytes because what was copied and what remains add up to the
declared length (`CopyAddsUp`), from the pairing of a receiver nothing was copied to
(`PendingGotNone`). The refinement also needs what the ends were told (`ToldInStep`): a
connection that waits was told nothing, and where a pipe's task stands says what each end
that is still open heard last, because no other task writes to it. The rest of it is
`PendingIsOpen` (what is popped and matched is a connection that looks) and `PipesApart` (two
pipes are never the same stream, so that one may be taken away). `RefuseMaps`, `LookMaps`,
`MeetMaps`, `TellMaps`, `CopyMaps`, `EndMaps`, `CloseMaps` and `RestMaps` have one kind of step each.

*`OperationsInv`.* A transfer that is accepted and has not run its callback was not run
before (`NotRunYet`) and has no outcome (`NoOutcomeYet`), and what the loop is about to do
when its write returns still fits the transfers (`LoopInStep`): between the two, tasks end and
are cancelled.

*`ConnectionInv`.* A heartbeat exists only while its connection is served (`Attempt`), so that
the next one never finds a predecessor that holds or wants the lock. That nobody stands in the
queues twice (`LockOK`) is what makes removing a cancelled heartbeat from the queue remove
all of it: `CancelHeartbeat` removes the first entry, as `asyncio.Lock` does. Memory agrees
with the files (`OnFile`).

*`FileInv`.* The starts that are not delivered have the latest start ids, one after the
other, so `stopSelf` with the id of a delivered one never ends the service under them; and
when a transfer runs, no stop that is still to be made has the id it was started with
(`ServiceInv`). Before a process has swept, it has no action that could lose its files.
That a running service has a transfer, a start or the stop that ends it needs the order
of the starts (`QueueInv`): those without a job, which a kill leaves, come before those
with one, so that while a transfer runs `latestStartId` is the one before the first start
left.

*`PeersInv`.* An operation starts once because one request at most asks for it, sent or still
to be sent (`StartsNew`, `NotRunYet`), and no two frames under way would start the same or
shake hands for the same session (`NoTwo`). The nonces are new because a handshake is
under way only while neither side has its session and the Wisp has encrypted nothing under
it (`InitsNew`), and the client's counter and the frames it encrypted agree (`Numbers`). That
an operation told "expired" does not start any more is `GivenUp`: the answer came under the
session of the second attempt (`LateAnswer`), so the Wisp had taken that session by then; the
request that starts the operation is of an earlier one, whose handshake was read already
and comes no second time. Two lemmas carry most actions: `WispStep` for what the relay and
the Wisp do without a new session, `ClientStep` for what the client does without sending;
`HandshakeStep`, `RequestSent`, `ConnectStep` and `UploadStep` are the rest. For the
refinement, each step is shown to be `Ask`, `Start`, `Tell` or a stutter (`ClientMaps`, `WispMaps`).

### What is only model-checked

The four liveness properties (`BrokenSessionEnds`, `HandlersEnd`, `AnswersGoOut`,
`ServiceStops`): liveness under fairness needs `ENABLED`, which the prover's back ends do not
treat. For two of them the fact without which the fairness would not help is proved: what a
handler awaits exists (`JoinedHasPipe`), and a service that runs has something that ends
or stops it (`ServiceHasReason`); `LockIsLive` is that fact for `AnswersGoOut`, and
`SessionIsServed` for `BrokenSessionEnds`: the handler that has to end still serves.

The three properties that the code violates (`UsedMeansThisFile`, `CompletedOnce`,
`ContinuousReuse`) are refuted by TLC's counterexamples. No module is recursive, and no
result needs induction over data.

## 5. Plan

All modules of the plan are written, and every safety property and refinement of their
passing runs is proved. What a further step could add is an abstract specification of the
relay's sessions, as the table "who is reached where", for `RelaySessions` to implement;
`SessionIsServed`, `NewestServed` and `AdvertisedHasSession` are the facts it would need.

## 6. Not modelled

Cryptography (RSA, AES-GCM, TLS, pinning) is taken to do what it is for: a proof of
possession succeeds for the holder of the key, a ciphertext that verifies is the one
sent. HTML rendering, logging, the update command, argument parsing and the examples
have no protocol state. Of the Android user interface only what decides over staged files
is modelled. The client's catalog connection reads a snapshot and its updates and keeps
nothing else; its requests to the management Wisp are the relay's `management_request`,
which `RelayRegistry` models. `close()` of the runtime ends the process. The write buffers of
connections are not modelled, so neither are stalls caused by a peer that does not read
(`service.py:678`). A callback runs in a thread that a cancelled transfer does not stop
(`client.py:774` removes its directory meanwhile); what the callback does then is the
application's.
