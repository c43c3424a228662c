--------------------------- MODULE RelaySessions ---------------------------
(***************************************************************************)
(* Relay connections of server/appserve_server/service.py: handle_relay,    *)
(* forward and the part of management_request that ends sessions.           *)
(*                                                                          *)
(* The relay keeps one session per endpoint but does not close the earlier  *)
(* connection when an endpoint connects again, so several handlers of one   *)
(* endpoint run side by side.  An action is the code between two awaits.    *)
(*                                                                          *)
(* A connection is gone once its peer or its transport is.  Lines read      *)
(* before that may still be handled.  A write to it raises ConnectionError  *)
(* or is lost without one, as the transport has noticed or not.             *)
(* Broadcasts are CatalogBroadcast's subject and only awaits here.          *)
(***************************************************************************)

CONSTANTS
  Clients,  \* endpoint identifiers
  Managed,  \* the endpoints the administrator approves and refuses
  Conns,    \* relay connections
  None      \* no session, no endpoint

ASSUME SessionsAssumption ==
  None \notin Clients /\ None \notin Conns /\ Managed \subseteq Clients

VARIABLES
  approved,  \* endpoints whose status is approved
  owners,    \* endpoints with registered Wisps
  sessions,  \* RelayRuntime.sessions: the connection each endpoint is reached by
  live,      \* RelayRuntime.relay_liveness: endpoints heard of in the last 75 s
  handler,   \* the handlers
  gone,      \* connections whose peer or transport is gone
  newest,    \* history: the endpoint's last connection to become its session
  late       \* history: endpoints kept live by a connection without the session

vars == <<approved, owners, sessions, live, handler, gone, newest, late>>

\* The await a handler stands at: sending `authenticated', sending `ready' and
\* what follows it, reading, sending `accepted', and its last broadcast
Phases == {"closed", "authenticated", "greeting", "reading", "accepting", "leaving"}

Handler == [pc : Phases, client : Clients \cup {None},
            recipient : Clients \cup {None}, dest : Conns \cup {None}]

Closed == [pc |-> "closed", client |-> None, recipient |-> None, dest |-> None]

TypeOK ==
  /\ approved \in SUBSET Clients
  /\ owners \in SUBSET Clients
  /\ sessions \in [Clients -> Conns \cup {None}]
  /\ live \in SUBSET Clients
  /\ handler \in [Conns -> Handler]
  /\ gone \in SUBSET Conns
  /\ newest \in [Clients -> Conns \cup {None}]
  /\ late \in SUBSET Clients

Init ==
  /\ approved \in SUBSET Clients
  /\ owners \in SUBSET Clients
  /\ sessions = [c \in Clients |-> None]
  /\ live = {}
  /\ handler = [i \in Conns |-> Closed]
  /\ gone = {}
  /\ newest = [c \in Clients |-> None]
  /\ late = {}

-----------------------------------------------------------------------------
\* _authenticate_endpoint for the relay role: only approved endpoints pass
Authenticate(i, c) ==
  /\ handler[i].pc = "closed"
  /\ c \in approved
  /\ handler' = [handler EXCEPT ![i] = [Closed EXCEPT !.pc = "authenticated", !.client = c]]
  /\ gone' = gone \ {i}
  /\ UNCHANGED <<approved, owners, sessions, live, newest, late>>

\* After the await of `authenticated', which the status is not read again
Register(i) ==
  LET c == handler[i].client IN
  /\ handler[i].pc = "authenticated"
  /\ sessions' = [sessions EXCEPT ![c] = i]
  /\ live' = live \cup {c}
  /\ newest' = [newest EXCEPT ![c] = i]
  /\ late' = late \ {c}
  /\ handler' = [handler EXCEPT ![i].pc = "greeting"]
  /\ UNCHANGED <<approved, owners, gone>>

\* `ready', the queued envelopes (never any: nothing calls queue), the save
\* and the broadcast have been sent
Greeted(i) ==
  /\ handler[i].pc = "greeting"
  /\ handler' = [handler EXCEPT ![i].pc = "reading"]
  /\ UNCHANGED <<approved, owners, sessions, live, gone, newest, late>>

\* The endpoint is heard of on connection i: a connection that is no longer its
\* session, or whose session was closed, refreshes the liveness all the same
HeardOn(i) ==
  LET c == handler[i].client IN
  /\ live' = live \cup {c}
  /\ late' = IF sessions[c] = i THEN late ELSE late \cup {c}

\* A line that is not forwarded: ping, pong, an invalid frame, or an envelope
\* for an endpoint without a session (recipient_offline)
ReadLine(i) ==
  /\ handler[i].pc = "reading"
  /\ HeardOn(i)
  /\ UNCHANGED <<approved, owners, sessions, handler, gone, newest>>

\* An envelope for an endpoint with a session: forward() fixes the
\* destination and sends `accepted'
ReadEnvelope(i, r) ==
  /\ handler[i].pc = "reading"
  /\ sessions[r] # None
  /\ HeardOn(i)
  /\ handler' = [handler EXCEPT ![i].pc = "accepting", ![i].recipient = r,
                                ![i].dest = sessions[r]]
  /\ UNCHANGED <<approved, owners, sessions, gone, newest>>

Resumed(i) == [handler EXCEPT ![i].pc = "reading", ![i].recipient = None, ![i].dest = None]

\* The envelope is written to the destination fixed before the await
Deliver(i) ==
  /\ handler[i].pc = "accepting"
  /\ handler' = Resumed(i)
  /\ UNCHANGED <<approved, owners, sessions, live, gone, newest, late>>

\* A faulty clean-up, for a mutation of DeliveryFails: the recipient's session
\* goes whichever connection it is
DeliveryFailsAny(i) ==
  LET r == handler[i].recipient IN
  /\ handler[i].pc = "accepting"
  /\ handler[i].dest \in gone
  /\ sessions' = [sessions EXCEPT ![r] = None]
  /\ live' = live \ {r}
  /\ handler' = Resumed(i)
  /\ UNCHANGED <<approved, owners, gone, newest, late>>

\* The write raises: the recipient loses its session, if the connection that
\* failed is still the session, and that connection is closed
DeliveryFails(i) ==
  LET r == handler[i].recipient
      current == sessions[r] = handler[i].dest
  IN
  /\ handler[i].pc = "accepting"
  /\ handler[i].dest \in gone
  /\ sessions' = IF current THEN [sessions EXCEPT ![r] = None] ELSE sessions
  /\ live' = IF current THEN live \ {r} ELSE live
  /\ handler' = Resumed(i)
  /\ UNCHANGED <<approved, owners, gone, newest, late>>

\* A faulty finally, for a mutation of Finally: the session stays
FinallyKeeps(i) ==
  /\ handler' = [handler EXCEPT ![i].pc = "leaving", ![i].recipient = None, ![i].dest = None]
  /\ UNCHANGED <<approved, owners, sessions, live, gone, newest, late>>

\* A faulty finally, for a mutation of Finally: the liveness stays
FinallyLive(i) ==
  LET c == handler[i].client IN
  /\ sessions' = IF sessions[c] = i THEN [sessions EXCEPT ![c] = None] ELSE sessions
  /\ handler' = [handler EXCEPT ![i].pc = "leaving", ![i].recipient = None, ![i].dest = None]
  /\ UNCHANGED <<approved, owners, live, gone, newest, late>>

\* The handler's finally, after an end of file, a read timeout, an error of a
\* write to its own endpoint or a line that is not JSON
Finally(i) ==
  LET c == handler[i].client
      current == sessions[c] = i
  IN
  /\ sessions' = IF current THEN [sessions EXCEPT ![c] = None] ELSE sessions
  /\ live' = IF current THEN live \ {c} ELSE live
  /\ handler' = [handler EXCEPT ![i].pc = "leaving", ![i].recipient = None, ![i].dest = None]
  /\ UNCHANGED <<approved, owners, gone, newest, late>>

Serving == {"greeting", "reading", "accepting"}

\* The connection broke; its reads end and its writes fail sooner or later
EndBroken(i) ==
  /\ handler[i].pc \in Serving \cup {"authenticated"}
  /\ i \in gone
  /\ Finally(i)

\* A silent peer (75 s without a line), a line that is not JSON, or `accepted'
\* that could not be written to the endpoint's newer connection
EndOther(i) ==
  /\ handler[i].pc \in Serving
  /\ i \notin gone
  /\ Finally(i)

\* The last broadcast is over and the writer closed
Close(i) ==
  /\ handler[i].pc = "leaving"
  /\ handler' = [handler EXCEPT ![i] = Closed]
  /\ gone' = gone \cup {i}
  /\ UNCHANGED <<approved, owners, sessions, live, newest, late>>

-----------------------------------------------------------------------------
\* The network or the endpoint ends the connection
Break(i) ==
  /\ handler[i].pc # "closed"
  /\ i \notin gone
  /\ gone' = gone \cup {i}
  /\ UNCHANGED <<approved, owners, sessions, live, handler, newest, late>>

\* _relay_online: 75 s without a line on any connection of the endpoint
Expire(c) ==
  /\ c \in live
  /\ live' = live \ {c}
  /\ late' = late \ {c}
  /\ UNCHANGED <<approved, owners, sessions, handler, gone, newest>>

\* A faulty refusal, for a mutation of Refuse: it closes a session that may
\* not be there
RefuseAbsent(c) ==
  /\ approved' = approved \ {c}
  /\ owners' = owners \ {c}
  /\ sessions' = [sessions EXCEPT ![c] = None]
  /\ gone' = gone \cup {sessions[c]}
  /\ late' = late \cup {c}
  /\ UNCHANGED <<live, handler, newest>>

\* management_request reject or revoke: the endpoint's Wisps go and its
\* session is closed and forgotten, its liveness is not.  One that was refused
\* while its connection registered (Register) may be refused again.
Refuse(c) ==
  /\ approved' = approved \ {c}
  /\ owners' = owners \ {c}
  /\ sessions' = [sessions EXCEPT ![c] = None]
  /\ gone' = gone \cup ({sessions[c]} \ {None})
  /\ late' = late \cup {c}
  /\ UNCHANGED <<live, handler, newest>>

\* management_request approve, or claim_admin
Approve(c) ==
  /\ c \notin approved
  /\ approved' = approved \cup {c}
  /\ UNCHANGED <<owners, sessions, live, handler, gone, newest, late>>

\* handle_control's registration (RelayRegistry!RegisterWisps)
RegisterWisps(c) ==
  /\ c \notin owners
  /\ owners' = owners \cup {c}
  /\ UNCHANGED <<approved, sessions, live, handler, gone, newest, late>>

Next ==
  \/ \E i \in Conns :
       \/ \E c \in Clients : Authenticate(i, c)
       \/ Register(i)
       \/ Greeted(i)
       \/ ReadLine(i)
       \/ \E r \in Clients : ReadEnvelope(i, r)
       \/ Deliver(i)
       \/ DeliveryFails(i)
       \/ EndBroken(i)
       \/ EndOther(i)
       \/ Close(i)
       \/ Break(i)
  \/ \E c \in Clients : Expire(c) \/ RegisterWisps(c)
  \/ \E c \in Managed : Refuse(c) \/ Approve(c)

Spec == Init /\ [][Next]_vars

(* A broken connection ends: the read timeout of 75 s sees to a peer that   *)
(* went silent, the event loop to the rest.                                 *)
FairSpec == Spec /\ \A i \in Conns : WF_vars(EndBroken(i)) /\ WF_vars(Close(i))

-----------------------------------------------------------------------------
(* Properties                                                               *)

(* A session is always a running handler of its own endpoint: whichever of  *)
(* an endpoint's overlapping connections ends, fails or is refused, and in  *)
(* whatever order, no entry outlives its handler (handle_relay's finally    *)
(* and forward's clean-up).                                                 *)
SessionIsServed ==
  \A c \in Clients : sessions[c] # None =>
    /\ handler[sessions[c]].client = c
    /\ handler[sessions[c]].pc \in Serving

(* An endpoint's newest connection is its session for as long as it is      *)
(* healthy: neither the end of an older connection nor a failed delivery to *)
(* an older one takes it away (the `is writer' tests of handle_relay and    *)
(* forward; "must not ... destroy the healthy source session").             *)
NewestServed ==
  \A c \in Clients, i \in Conns :
    newest[c] = i /\ handler[i].client = c /\ handler[i].pc \in Serving /\ i \notin gone
      => sessions[c] = i

(* A session whose connection broke is forgotten.                           *)
BrokenSessionEnds ==
  \A c \in Clients, i \in Conns : (sessions[c] = i /\ i \in gone) ~> sessions[c] # i

(* "Only advertise a Wisp while its runtime has a live relay session"       *)
(* (service.py:73).  catalog_items tests the liveness, not the session, so   *)
(* the two must change together, over every connect, end, failed delivery    *)
(* and timeout of overlapping connections.  They do but for the two cases in *)
(* `late': a line on a connection that lost the session to a newer one, and  *)
(* a refusal, which forgets the session and leaves the liveness to whoever   *)
(* approves the endpoint again.                                              *)
Advertised == owners \cap live \cap approved

AdvertisedHasSession == \A c \in Advertised \ late : sessions[c] # None
=============================================================================
