-------------------------- MODULE CatalogBroadcast --------------------------
(***************************************************************************)
(* Catalog updates of server/appserve_server/service.py: the subscription   *)
(* at the end of handle_control and broadcast_catalog.                      *)
(*                                                                          *)
(* broadcast_catalog takes the subscribers once, then writes to them one    *)
(* after the other with an await at each, and forgets those whose write     *)
(* raised when it is through.  It runs inside the handler that calls it, so *)
(* several broadcasts and subscriptions overlap.                            *)
(*                                                                          *)
(* `listed' is the set of owners that pass every test of catalog_items: it  *)
(* has a registration, is online and is approved.  What changes it is       *)
(* RelayRegistry's and RelaySessions' subject; here a change is one that a  *)
(* broadcast follows, or a silent one.                                      *)
(***************************************************************************)

CONSTANTS
  Clients,  \* endpoints with control connections
  Owners,   \* endpoints with Wisps
  Ctrls,    \* control connections
  Relays,   \* relay handlers that change the catalog
  None      \* no subscription, no endpoint

ASSUME BroadcastAssumption ==
  None \notin Ctrls /\ None \notin Clients /\ Ctrls \cap Relays = {}

VARIABLES
  approved,          \* clients and owners whose status is approved
  listed,            \* owners whose Wisps are in the catalog
  control_sessions,  \* RelayRuntime.control_sessions
  ctrl,              \* the control handlers
  gone,              \* control connections that broke or were closed
  job,               \* the broadcast each handler is in
  silent             \* history: a change no broadcast was started for

vars == <<approved, listed, control_sessions, ctrl, gone, job, silent>>

Handlers == Ctrls \cup Relays

\* The await a control handler stands at: sending `wisps_registered', the
\* broadcast of its subscription, reading.  view: the catalog last written.
Ctrl == [pc : {"closed", "registered", "broadcasting", "reading"},
         client : Clients \cup {None}, view : SUBSET Owners]

\* "due": the catalog was changed, the broadcast has not started.  at: the
\* subscriber whose write is awaited, todo: those after it
Job == [pc : {"none", "due", "running"}, at : (Clients \X Ctrls) \cup {None},
        todo : SUBSET (Clients \X Ctrls), stale : SUBSET Clients]

Closed == [pc |-> "closed", client |-> None, view |-> {}]
NoJob  == [pc |-> "none", at |-> None, todo |-> {}, stale |-> {}]

TypeOK ==
  /\ approved \in SUBSET (Clients \cup Owners)
  /\ listed \in SUBSET (Owners \cap approved)
  /\ control_sessions \in [Clients -> Ctrls \cup {None}]
  /\ ctrl \in [Ctrls -> Ctrl]
  /\ gone \in SUBSET Ctrls
  /\ job \in [Handlers -> Job]
  /\ silent \in BOOLEAN

Init ==
  /\ approved \in SUBSET (Clients \cup Owners)
  /\ listed = {}
  /\ control_sessions = [c \in Clients |-> None]
  /\ ctrl = [x \in Ctrls |-> Closed]
  /\ gone = {}
  /\ job = [h \in Handlers |-> NoJob]
  /\ silent = FALSE

\* catalog_items(client_id), given the owners that are listed
CatalogItems(items, c) == IF c \in approved THEN items ELSE {}

-----------------------------------------------------------------------------
(* broadcast_catalog: the code from its start, or from the end of an        *)
(* awaited write, to the next write or to its end                           *)

\* list(self.control_sessions.items())
Subscribers(table) == {e \in Clients \X Ctrls : table[e[1]] = e[2]}

\* The handlers cs after a write of the catalog to e, computed at its turn
Updated(cs, e, items) ==
  [cs EXCEPT ![e[2]].view = IF e[2] \in gone THEN @ ELSE CatalogItems(items, e[1])]

\* The first write, to the subscribers of table
StartBroadcast(h, table, items, cs) ==
  \/ /\ Subscribers(table) = {}
     /\ job' = [job EXCEPT ![h] = NoJob]
     /\ ctrl' = cs
  \/ \E e \in Subscribers(table) :
       /\ job' = [job EXCEPT ![h] = [pc |-> "running", at |-> e, stale |-> {},
                                     todo |-> Subscribers(table) \ {e}]]
       /\ ctrl' = Updated(cs, e, items)

\* The awaited write to a broken connection raises or is lost
Outcomes(h) == {{}} \cup {{c} : c \in {d \in Clients : \E x \in gone : job[h].at = <<d, x>>}}

\* The next subscriber's turn
NextUpdate(h, e, failed) ==
  /\ job[h].pc = "running"
  /\ e \in job[h].todo
  /\ job' = [job EXCEPT ![h].at = e, ![h].todo = @ \ {e}, ![h].stale = @ \cup failed]
  /\ ctrl' = Updated(ctrl, e, listed)
  /\ UNCHANGED <<approved, listed, control_sessions, gone, silent>>

\* The last write: the clients found stale are forgotten, whatever connection
\* they have now
Finish(h, failed) ==
  /\ job[h].pc = "running"
  /\ job[h].todo = {}
  /\ control_sessions' = [c \in Clients |->
       IF c \in job[h].stale \cup failed THEN None ELSE control_sessions[c]]
  /\ job' = [job EXCEPT ![h] = NoJob]
  /\ ctrl' = IF h \in Ctrls THEN [ctrl EXCEPT ![h].pc = "reading"] ELSE ctrl
  /\ UNCHANGED <<approved, listed, gone, silent>>

-----------------------------------------------------------------------------
(* Relay handlers: a connection makes its owner live, which lists it if it   *)
(* has Wisps, then sends `ready' and saves before it broadcasts; the end of  *)
(* one, or a failed delivery, drops the liveness and broadcasts at once.     *)

Connected(r, o) ==
  /\ job[r].pc = "none"
  /\ listed' \in {listed, listed \cup ({o} \cap approved)}
  /\ job' = [job EXCEPT ![r].pc = "due"]
  /\ UNCHANGED <<approved, control_sessions, ctrl, gone, silent>>

BeginBroadcast(r) ==
  /\ job[r].pc = "due"
  /\ StartBroadcast(r, control_sessions, listed, ctrl)
  /\ silent' = FALSE
  /\ UNCHANGED <<approved, listed, control_sessions, gone>>

Disconnected(r, o) ==
  /\ job[r].pc \in {"none", "due"}
  /\ listed' = listed \ {o}
  /\ StartBroadcast(r, control_sessions, listed', ctrl)
  /\ silent' = FALSE
  /\ UNCHANGED <<approved, control_sessions, gone>>

-----------------------------------------------------------------------------
(* Control handlers                                                          *)

\* handle_control's registration up to the await of `wisps_registered'.  Its
\* items may add the client to the catalog or take it out.  (A connection's
\* name is used again once no broadcast has it left to do.)
Register(x, c) ==
  /\ ctrl[x].pc = "closed"
  /\ \A h \in Handlers, d \in Clients : <<d, x>> \notin job[h].todo \cup {job[h].at}
  /\ listed' \in {listed, listed \ {c}, listed \cup ({c} \cap Owners \cap approved)}
  /\ ctrl' = [ctrl EXCEPT ![x] = [pc |-> "registered", client |-> c,
                                  view |-> CatalogItems(listed', c)]]
  /\ gone' = gone \ {x}
  /\ UNCHANGED <<approved, control_sessions, job, silent>>

\* A faulty subscription, for a mutation of Subscribe: the snapshot is taken
\* to be enough and nothing is broadcast
SubscribeQuietly(x) ==
  /\ ctrl[x].pc = "registered"
  /\ control_sessions' = [control_sessions EXCEPT ![ctrl[x].client] = x]
  /\ ctrl' = [ctrl EXCEPT ![x].pc = "reading"]
  /\ UNCHANGED <<approved, listed, gone, job, silent>>

\* The connection is recorded, in place of an earlier one, and broadcasts
Subscribe(x) ==
  LET c == ctrl[x].client
      table == [control_sessions EXCEPT ![c] = x]
  IN
  /\ ctrl[x].pc = "registered"
  /\ control_sessions' = table
  /\ StartBroadcast(x, table, listed, [ctrl EXCEPT ![x].pc = "broadcasting"])
  /\ silent' = FALSE
  /\ UNCHANGED <<approved, listed, gone>>

\* A faulty finally, for a mutation of Drop: the subscription stays
DropKeeps(x) ==
  /\ ctrl[x].pc \in {"registered", "reading"}
  /\ ctrl' = [ctrl EXCEPT ![x] = Closed]
  /\ gone' = gone \cup {x}
  /\ silent' = (silent \/ ctrl[x].pc = "registered")
  /\ UNCHANGED <<approved, listed, control_sessions, job>>

\* A faulty finally, for a mutation of Drop: whichever connection the client is
\* subscribed on goes
DropAny(x) ==
  LET c == ctrl[x].client IN
  /\ ctrl[x].pc \in {"registered", "reading"}
  /\ control_sessions' = [control_sessions EXCEPT ![c] = None]
  /\ ctrl' = [ctrl EXCEPT ![x] = Closed]
  /\ gone' = gone \cup {x}
  /\ silent' = (silent \/ ctrl[x].pc = "registered")
  /\ UNCHANGED <<approved, listed, job>>

\* The end of a control connection: end of file, a line that is not JSON, a
\* write that raised.  Before the subscription its registration stays and
\* nobody is told of it.
Drop(x) ==
  LET c == ctrl[x].client IN
  /\ ctrl[x].pc \in {"registered", "reading"}
  /\ control_sessions' = IF control_sessions[c] = x
                         THEN [control_sessions EXCEPT ![c] = None] ELSE control_sessions
  /\ ctrl' = [ctrl EXCEPT ![x] = Closed]
  /\ gone' = gone \cup {x}
  /\ silent' = (silent \/ ctrl[x].pc = "registered")
  /\ UNCHANGED <<approved, listed, job>>

LoseLink(x) ==
  /\ ctrl[x].pc # "closed"
  /\ x \notin gone
  /\ gone' = gone \cup {x}
  /\ UNCHANGED <<approved, listed, control_sessions, ctrl, job, silent>>

-----------------------------------------------------------------------------
(* Changes no broadcast follows                                              *)

\* Liveness that times out, or is refreshed by a line on a connection that is
\* no longer the session; management_request register_wisp and remove_wisp
SilentChange(o) ==
  /\ listed' = IF o \in listed THEN listed \ {o} ELSE listed \cup {o}
  /\ o \in approved
  /\ silent' = TRUE
  /\ UNCHANGED <<approved, control_sessions, ctrl, gone, job>>

\* management_request approve and claim_admin
Approve(c) ==
  /\ c \notin approved
  /\ approved' = approved \cup {c}
  /\ listed' \in {listed, listed \cup ({c} \cap Owners)}
  /\ silent' = TRUE
  /\ UNCHANGED <<control_sessions, ctrl, gone, job>>

\* A faulty refusal, for a mutation of Refuse: the owner stays listed
RefuseListed(c) ==
  /\ approved' = approved \ {c}
  /\ silent' = (silent \/ c \in approved)
  /\ UNCHANGED <<listed, control_sessions, ctrl, gone, job>>

\* management_request reject and revoke, which also close the subscription;
\* repeated, they close one that was made since
Refuse(c) ==
  /\ approved' = approved \ {c}
  /\ listed' = listed \ {c}
  /\ control_sessions' = [d \in Clients |-> IF d = c THEN None ELSE control_sessions[d]]
  /\ gone' = gone \cup {x \in Ctrls : c \in Clients /\ control_sessions[c] = x}
  /\ silent' = (silent \/ c \in approved)
  /\ UNCHANGED <<ctrl, job>>

Next ==
  \/ \E h \in Handlers :
       \E failed \in Outcomes(h) :
         \/ \E e \in job[h].todo : NextUpdate(h, e, failed)
         \/ Finish(h, failed)
  \/ \E r \in Relays :
       \/ \E o \in Owners : Connected(r, o) \/ Disconnected(r, o)
       \/ BeginBroadcast(r)
  \/ \E x \in Ctrls :
       \/ \E c \in Clients : Register(x, c)
       \/ Subscribe(x)
       \/ Drop(x)
       \/ LoseLink(x)
  \/ \E o \in Owners : SilentChange(o)
  \/ \E c \in Clients \cup Owners : Approve(c) \/ Refuse(c)

Spec == Init /\ [][Next]_vars

-----------------------------------------------------------------------------
(* Properties                                                               *)

(* A subscription is always a control handler of that client that is past   *)
(* its registration and still running: overlapping connections, broadcasts  *)
(* and refusals leave no entry of an ended handler.                         *)
SubscriberIsServed ==
  \A c \in Clients : control_sessions[c] # None =>
    /\ ctrl[control_sessions[c]].client = c
    /\ ctrl[control_sessions[c]].pc \in {"broadcasting", "reading"}

Settled == /\ \A h \in Handlers : job[h].pc = "none"
           /\ \A x \in Ctrls : ctrl[x].pc # "registered"
           /\ ~silent

(* Once the broadcasts are over, every subscriber has the present catalog,  *)
(* whichever order they overlapped in, whoever subscribed or broke during   *)
(* them: the catalog is computed at each write, the own broadcast of a      *)
(* subscription covers a change between its snapshot and its entry.  Only   *)
(* the changes handle_relay and handle_control broadcast are claimed.       *)
SubscribersUpToDate ==
  Settled => \A c \in Clients : LET x == control_sessions[c] IN
    x # None /\ x \notin gone => ctrl[x].view = CatalogItems(listed, c)

(* "Catalog clients must remain subscribed after the initial registration   *)
(* snapshot" (service.py:373).  A client loses the subscription of a healthy *)
(* connection only to a refusal, which closes that connection, or to a       *)
(* broadcast in which a write to the client failed.  That write was to an    *)
(* earlier connection: the end of one, however late, takes nothing away.     *)
WriteFailed(c) == \E h \in Handlers :
  \/ c \in job[h].stale
  \/ \E y \in gone : job[h].at = <<c, y>>

SubscriptionKept ==
  [][\A c \in Clients : LET x == control_sessions[c] IN
       x # None /\ control_sessions'[c] = None =>
         x \in gone' \/ WriteFailed(c) ]_vars
=============================================================================
