------------------------ MODULE RelaySessionsProofs ------------------------
(***************************************************************************)
(* Proofs about RelaySessions, for every set of endpoints and connections.  *)
(***************************************************************************)
EXTENDS RelaySessions, TLAPS

-----------------------------------------------------------------------------
(* The inductive invariant.  SessionIsServed and NewestServed carry over    *)
(* every step once a handler past authentication is known to be one of an   *)
(* endpoint.  AdvertisedHasSession does not: an endpoint that is not        *)
(* approved, or has no Wisps, may become an advertised one by a step that   *)
(* never looks at the sessions, so what is kept is that liveness alone      *)
(* comes with a session.                                                    *)

HandlersHaveClients ==
  \A i \in Conns :
    /\ handler[i].pc # "closed" => handler[i].client \in Clients
    /\ handler[i].pc = "accepting" => handler[i].recipient \in Clients /\ handler[i].dest \in Conns

LiveHasSession == \A c \in live \ late : sessions[c] # None

SessionsInv ==
  /\ TypeOK
  /\ HandlersHaveClients
  /\ SessionIsServed
  /\ NewestServed
  /\ LiveHasSession

-----------------------------------------------------------------------------
(* One lemma per action                                                     *)

(* An authenticated connection is not a session yet, whatever an earlier    *)
(* handler of the same connection left in the history.                      *)
LEMMA AuthenticateInv ==
  ASSUME SessionsInv, NEW i \in Conns, NEW c \in Clients, Authenticate(i, c)
  PROVE  SessionsInv'
<1> USE SessionsAssumption DEF SessionsInv, Authenticate
<1>1. TypeOK'
  BY DEF TypeOK, Handler, Closed, Phases, HandlersHaveClients
<1>2. HandlersHaveClients'
  BY DEF TypeOK, Handler, Closed, HandlersHaveClients
<1>3. SessionIsServed'
  BY DEF TypeOK, Handler, Closed, HandlersHaveClients, SessionIsServed, Serving
<1>4. NewestServed'
  BY DEF TypeOK, Handler, Closed, HandlersHaveClients, NewestServed, Serving
<1>5. LiveHasSession'
  BY DEF TypeOK, HandlersHaveClients, LiveHasSession
<1>6. QED
  BY <1>1, <1>2, <1>3, <1>4, <1>5

(* The connection that becomes its endpoint's session is served, live, and  *)
(* its newest; no other endpoint had it as its session.                     *)
LEMMA RegisterInv ==
  ASSUME SessionsInv, NEW i \in Conns, Register(i)
  PROVE  SessionsInv'
<1> USE SessionsAssumption DEF SessionsInv, Register
<1>1. TypeOK'
  BY DEF TypeOK, Handler, Closed, Phases, HandlersHaveClients
<1>2. HandlersHaveClients'
  BY DEF TypeOK, Handler, Closed, HandlersHaveClients
<1>3. SessionIsServed'
  BY DEF TypeOK, Handler, Closed, HandlersHaveClients, SessionIsServed, Serving
<1>4. NewestServed'
  BY DEF TypeOK, Handler, Closed, HandlersHaveClients, NewestServed, Serving
<1>5. LiveHasSession'
  BY DEF TypeOK, HandlersHaveClients, LiveHasSession
<1>6. QED
  BY <1>1, <1>2, <1>3, <1>4, <1>5

(* The handler that has greeted its endpoint still serves it.               *)
LEMMA GreetedInv ==
  ASSUME SessionsInv, NEW i \in Conns, Greeted(i)
  PROVE  SessionsInv'
BY SessionsAssumption
   DEF SessionsInv, Greeted, TypeOK, Handler, Phases, HandlersHaveClients,
       SessionIsServed, NewestServed, LiveHasSession, Serving

(* A line makes its endpoint live, and late unless it came on the session.  *)
LEMMA ReadLineInv ==
  ASSUME SessionsInv, NEW i \in Conns, ReadLine(i)
  PROVE  SessionsInv'
<1> USE SessionsAssumption DEF SessionsInv, ReadLine, HeardOn
<1>1. TypeOK'
  BY DEF TypeOK, Handler, Closed, Phases, HandlersHaveClients
<1>2. HandlersHaveClients'
  BY DEF TypeOK, Handler, Closed, HandlersHaveClients
<1>3. SessionIsServed'
  BY DEF TypeOK, Handler, Closed, HandlersHaveClients, SessionIsServed, Serving
<1>4. NewestServed'
  BY DEF TypeOK, Handler, Closed, HandlersHaveClients, NewestServed, Serving
<1>5. LiveHasSession'
  BY DEF TypeOK, HandlersHaveClients, LiveHasSession
<1>6. QED
  BY <1>1, <1>2, <1>3, <1>4, <1>5

(* So does an envelope, and the destination fixed before the await of       *)
(* `accepted' is a connection.                                              *)
LEMMA ReadEnvelopeInv ==
  ASSUME SessionsInv, NEW i \in Conns, NEW r \in Clients, ReadEnvelope(i, r)
  PROVE  SessionsInv'
<1> USE SessionsAssumption DEF SessionsInv, ReadEnvelope, HeardOn
<1>1. TypeOK'
  <2>1. handler[i] \in Handler /\ handler[i].client \in Clients
    BY DEF TypeOK, HandlersHaveClients
  <2>2. handler' \in [Conns -> Handler]
    BY <2>1 DEF TypeOK, Handler, Phases
  <2>3. QED
    BY <2>1, <2>2 DEF TypeOK
<1>2. HandlersHaveClients'
  BY DEF TypeOK, Handler, Closed, HandlersHaveClients
<1>3. SessionIsServed'
  BY DEF TypeOK, Handler, Closed, HandlersHaveClients, SessionIsServed, Serving
<1>4. NewestServed'
  BY DEF TypeOK, Handler, Closed, HandlersHaveClients, NewestServed, Serving
<1>5. LiveHasSession'
  BY DEF TypeOK, HandlersHaveClients, LiveHasSession
<1>6. QED
  BY <1>1, <1>2, <1>3, <1>4, <1>5

(* A delivery gives the handler back to its own endpoint.                   *)
LEMMA DeliverInv ==
  ASSUME SessionsInv, NEW i \in Conns, Deliver(i)
  PROVE  SessionsInv'
BY SessionsAssumption
   DEF SessionsInv, Deliver, Resumed, TypeOK, Handler, Phases, HandlersHaveClients,
       SessionIsServed, NewestServed, LiveHasSession, Serving

(* A failed delivery takes session and liveness together, and only of the   *)
(* connection that failed, which is broken.                                 *)
LEMMA DeliveryFailsInv ==
  ASSUME SessionsInv, NEW i \in Conns, DeliveryFails(i)
  PROVE  SessionsInv'
<1> USE SessionsAssumption DEF SessionsInv, DeliveryFails, Resumed
<1>1. TypeOK'
  <2>1. handler[i] \in Handler /\ handler[i].recipient \in Clients
    BY DEF TypeOK, HandlersHaveClients
  <2>2. handler' \in [Conns -> Handler]
    BY <2>1 DEF TypeOK, Handler, Phases
  <2>3. QED
    BY <2>1, <2>2 DEF TypeOK
<1>2. HandlersHaveClients'
  BY DEF TypeOK, Handler, Closed, HandlersHaveClients
<1>3. SessionIsServed'
  BY DEF TypeOK, Handler, Closed, HandlersHaveClients, SessionIsServed, Serving
<1>4. NewestServed'
  BY DEF TypeOK, Handler, Closed, HandlersHaveClients, NewestServed, Serving
<1>5. LiveHasSession'
  BY DEF TypeOK, HandlersHaveClients, LiveHasSession
<1>6. QED
  BY <1>1, <1>2, <1>3, <1>4, <1>5

(* A handler that ends takes session and liveness together, and only where  *)
(* it is the session: no other endpoint is served by it.                    *)
LEMMA FinallyInv ==
  ASSUME SessionsInv, NEW i \in Conns, handler[i].pc # "closed", Finally(i)
  PROVE  SessionsInv'
<1> USE SessionsAssumption DEF SessionsInv, Finally
<1>1. TypeOK'
  <2>1. handler[i] \in Handler /\ handler[i].client \in Clients
    BY DEF TypeOK, HandlersHaveClients
  <2>2. handler' \in [Conns -> Handler]
    BY <2>1 DEF TypeOK, Handler, Phases
  <2>3. QED
    BY <2>1, <2>2 DEF TypeOK
<1>2. HandlersHaveClients'
  BY DEF TypeOK, Handler, Closed, HandlersHaveClients
<1>3. SessionIsServed'
  BY DEF TypeOK, Handler, Closed, HandlersHaveClients, SessionIsServed, Serving
<1>4. NewestServed'
  BY DEF TypeOK, Handler, Closed, HandlersHaveClients, NewestServed, Serving
<1>5. LiveHasSession'
  BY DEF TypeOK, HandlersHaveClients, LiveHasSession
<1>6. QED
  BY <1>1, <1>2, <1>3, <1>4, <1>5

(* A handler that is closed has left its session behind already.            *)
LEMMA CloseInv ==
  ASSUME SessionsInv, NEW i \in Conns, Close(i)
  PROVE  SessionsInv'
<1> USE SessionsAssumption DEF SessionsInv, Close
<1>1. TypeOK'
  BY DEF TypeOK, Handler, Closed, Phases, HandlersHaveClients
<1>2. HandlersHaveClients'
  BY DEF TypeOK, Handler, Closed, HandlersHaveClients
<1>3. SessionIsServed'
  BY DEF TypeOK, Handler, Closed, HandlersHaveClients, SessionIsServed, Serving
<1>4. NewestServed'
  BY DEF TypeOK, Handler, Closed, HandlersHaveClients, NewestServed, Serving
<1>5. LiveHasSession'
  BY DEF TypeOK, HandlersHaveClients, LiveHasSession
<1>6. QED
  BY <1>1, <1>2, <1>3, <1>4, <1>5

(* A lost connection stays the session until its handler ends, but is not   *)
(* healthy.                                                                 *)
LEMMA BreakInv ==
  ASSUME SessionsInv, NEW i \in Conns, Break(i)
  PROVE  SessionsInv'
BY SessionsAssumption
   DEF SessionsInv, Break, TypeOK, Handler, Phases, HandlersHaveClients,
       SessionIsServed, NewestServed, LiveHasSession, Serving

(* The time-out takes the liveness and leaves the session.                  *)
LEMMA ExpireInv ==
  ASSUME SessionsInv, NEW c \in Clients, Expire(c)
  PROVE  SessionsInv'
BY SessionsAssumption
   DEF SessionsInv, Expire, TypeOK, Handler, Phases, HandlersHaveClients,
       SessionIsServed, NewestServed, LiveHasSession, Serving

(* A refusal forgets the session of a connection it closes, and leaves the  *)
(* liveness late.                                                           *)
LEMMA RefuseInv ==
  ASSUME SessionsInv, NEW c \in Clients, Refuse(c)
  PROVE  SessionsInv'
<1> USE SessionsAssumption DEF SessionsInv, Refuse
<1>1. TypeOK'
  BY DEF TypeOK, Handler, Closed, Phases, HandlersHaveClients
<1>2. HandlersHaveClients'
  BY DEF TypeOK, Handler, Closed, HandlersHaveClients
<1>3. SessionIsServed'
  BY DEF TypeOK, Handler, Closed, HandlersHaveClients, SessionIsServed, Serving
<1>4. NewestServed'
  BY DEF TypeOK, Handler, Closed, HandlersHaveClients, NewestServed, Serving
<1>5. LiveHasSession'
  BY DEF TypeOK, HandlersHaveClients, LiveHasSession
<1>6. QED
  BY <1>1, <1>2, <1>3, <1>4, <1>5
(* Approvals and registered Wisps touch no connection.                      *)
LEMMA ApproveInv ==
  ASSUME SessionsInv, NEW c \in Clients, Approve(c) \/ RegisterWisps(c)
  PROVE  SessionsInv'
BY DEF SessionsInv, Approve, RegisterWisps, TypeOK, HandlersHaveClients,
       SessionIsServed, NewestServed, LiveHasSession

-----------------------------------------------------------------------------
(* Theorems                                                                 *)

(* The relay starts without connections.                                    *)
LEMMA InitInv == Init => SessionsInv
BY SessionsAssumption
   DEF Init, SessionsInv, TypeOK, Handler, Closed, Phases, HandlersHaveClients,
       SessionIsServed, NewestServed, LiveHasSession, Serving

(* Every step of the relay keeps the inductive invariant.                   *)
LEMMA StepInv == SessionsInv /\ [Next]_vars => SessionsInv'
<1> SUFFICES ASSUME SessionsInv, [Next]_vars PROVE SessionsInv'
  OBVIOUS
<1>1. CASE UNCHANGED vars
  BY <1>1 DEF vars, SessionsInv, TypeOK, HandlersHaveClients, SessionIsServed,
              NewestServed, LiveHasSession
<1>2. ASSUME NEW i \in Conns, EndBroken(i) \/ EndOther(i) PROVE SessionsInv'
  BY <1>2, FinallyInv DEF EndBroken, EndOther, Serving
<1>3. ASSUME NEW c \in Managed, Refuse(c) \/ Approve(c) PROVE SessionsInv'
  BY <1>3, SessionsAssumption, RefuseInv, ApproveInv
<1>4. QED
  BY <1>1, <1>2, <1>3, AuthenticateInv, RegisterInv, GreetedInv, ReadLineInv, ReadEnvelopeInv,
     DeliverInv, DeliveryFailsInv, CloseInv, BreakInv, ExpireInv, ApproveInv
     DEF Next

(* The inductive invariant holds whatever the overlapping connections do.   *)
THEOREM Invariance == Spec => []SessionsInv
BY InitInv, StepInv, PTL DEF Spec

(* The sessions' state keeps its type.                                      *)
THEOREM TypeCorrect == Spec => []TypeOK
<1>1. SessionsInv => TypeOK
  BY DEF SessionsInv
<1>2. QED
  BY <1>1, Invariance, PTL

(* No entry of RelayRuntime.sessions outlives its handler: the ends of      *)
(* handle_relay and forward's clean-up miss none.                           *)
THEOREM SessionsAreServed == Spec => []SessionIsServed
<1>1. SessionsInv => SessionIsServed
  BY DEF SessionsInv
<1>2. QED
  BY <1>1, Invariance, PTL

(* No end, failed delivery or refusal of an older connection takes the      *)
(* session from the endpoint's newest healthy one.                          *)
THEOREM NewestKeepsSession == Spec => []NewestServed
<1>1. SessionsInv => NewestServed
  BY DEF SessionsInv
<1>2. QED
  BY <1>1, Invariance, PTL

(* catalog_items advertises no Wisp of an endpoint without a session, but   *)
(* in the cases `late' names.                                               *)
THEOREM AdvertisedAreReachable == Spec => []AdvertisedHasSession
<1>1. SessionsInv => AdvertisedHasSession
  BY DEF SessionsInv, LiveHasSession, AdvertisedHasSession, Advertised
<1>2. QED
  BY <1>1, Invariance, PTL
=============================================================================
