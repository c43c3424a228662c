----------------------- MODULE CatalogBroadcastProofs -----------------------
(***************************************************************************)
(* Proofs about CatalogBroadcast, for every set of endpoints, connections   *)
(* and handlers.                                                            *)
(***************************************************************************)
EXTENDS CatalogBroadcast, TLAPS

-----------------------------------------------------------------------------
(* The inductive invariant.  That a subscriber is up to date once the       *)
(* broadcasts are over rests on what is still to come while they run: a     *)
(* subscriber whose catalog is an old one is in the list of a broadcast, or *)
(* one is about to start.  A broadcast writes to a connection what is meant *)
(* for the client it was listed under, which must still be the client the   *)
(* connection is subscribed for.                                            *)

HandlersInStep ==
  /\ \A x \in Ctrls :
       /\ ctrl[x].pc # "closed" => ctrl[x].client \in Clients
       /\ ctrl[x].pc = "broadcasting" <=> job[x].pc # "none"
       /\ job[x].pc # "due"
  /\ \A h \in Handlers : job[h].pc # "running" => job[h].todo = {}

ListedUnderClient ==
  \A h \in Handlers : \A e \in job[h].todo :
    ctrl[e[2]].pc # "closed" => ctrl[e[2]].client = e[1]

\* A broadcast is coming that has not started
Announced == \/ \E h \in Handlers : job[h].pc = "due"
             \/ \E x \in Ctrls : ctrl[x].pc = "registered"

Informed(c) == LET x == control_sessions[c] IN
  x # None /\ x \notin gone =>
    \/ ctrl[x].view = CatalogItems(listed, c)
    \/ \E h \in Handlers : <<c, x>> \in job[h].todo

CatalogInv ==
  /\ TypeOK
  /\ HandlersInStep
  /\ ListedUnderClient
  /\ SubscriberIsServed
  /\ silent \/ Announced \/ \A c \in Clients : Informed(c)
-----------------------------------------------------------------------------
(* The parts of a broadcast                                                 *)

\* What cs and job' know of clients and phases, whatever was written to whom
SameHandlers(cs) == \A x \in Ctrls : ctrl'[x].pc = cs[x].pc /\ ctrl'[x].client = cs[x].client

(* One write changes the view of its connection only: to the catalog of the *)
(* client it is listed under, unless the connection is gone.                *)
LEMMA UpdatedFacts ==
  ASSUME NEW cs \in [Ctrls -> Ctrl], NEW e \in Clients \X Ctrls, NEW items \in SUBSET Owners
  PROVE  /\ Updated(cs, e, items) \in [Ctrls -> Ctrl]
         /\ \A x \in Ctrls : /\ Updated(cs, e, items)[x].pc = cs[x].pc
                             /\ Updated(cs, e, items)[x].client = cs[x].client
         /\ \A x \in Ctrls \ {e[2]} : Updated(cs, e, items)[x] = cs[x]
         /\ e[2] \notin gone => Updated(cs, e, items)[e[2]].view = CatalogItems(items, e[1])
BY DEF Updated, CatalogItems, Ctrl

(* broadcast_catalog leaves no healthy subscriber out: it has written the   *)
(* catalog to it, or will.                                                  *)
LEMMA BroadcastFacts ==
  ASSUME TypeOK, NEW h \in Handlers, NEW table \in [Clients -> Ctrls \cup {None}],
         NEW items \in SUBSET Owners, NEW cs \in [Ctrls -> Ctrl],
         StartBroadcast(h, table, items, cs)
  PROVE  /\ ctrl' \in [Ctrls -> Ctrl] /\ job' \in [Handlers -> Job]
         /\ SameHandlers(cs)
         /\ \A g \in Handlers \ {h} : job'[g] = job[g]
         /\ job'[h].todo \subseteq Subscribers(table)
         /\ \/ job'[h].pc = "none" /\ job'[h].todo = {} /\ Subscribers(table) = {}
            \/ job'[h].pc = "running"
         /\ \A c \in Clients : table[c] # None /\ table[c] \notin gone =>
              \/ ctrl'[table[c]].view = CatalogItems(items, c)
              \/ <<c, table[c]>> \in job'[h].todo
<1>1. Subscribers(table) \subseteq Clients \X Ctrls
  BY DEF Subscribers
<1>2. \A c \in Clients : table[c] # None => <<c, table[c]>> \in Subscribers(table)
  BY DEF Subscribers
<1>3. CASE Subscribers(table) = {} /\ job' = [job EXCEPT ![h] = NoJob] /\ ctrl' = cs
  <2>1. NoJob \in Job /\ NoJob.pc = "none" /\ NoJob.todo = {}
    BY DEF NoJob, Job
  <2>2. QED
    BY <1>2, <1>3, <2>1 DEF TypeOK, SameHandlers
<1>4. ASSUME NEW e \in Subscribers(table),
             job' = [job EXCEPT ![h] = [pc |-> "running", at |-> e, stale |-> {},
                                        todo |-> Subscribers(table) \ {e}]],
             ctrl' = Updated(cs, e, items)
      PROVE  /\ ctrl' \in [Ctrls -> Ctrl] /\ job' \in [Handlers -> Job]
             /\ SameHandlers(cs)
             /\ \A g \in Handlers \ {h} : job'[g] = job[g]
             /\ job'[h].todo \subseteq Subscribers(table)
             /\ job'[h].pc = "running"
             /\ \A c \in Clients : table[c] # None /\ table[c] \notin gone =>
                  \/ ctrl'[table[c]].view = CatalogItems(items, c)
                  \/ <<c, table[c]>> \in job'[h].todo
  <2>1. [pc |-> "running", at |-> e, stale |-> {}, todo |-> Subscribers(table) \ {e}] \in Job
    BY <1>1, <1>4 DEF Job
  <2>2. /\ job' \in [Handlers -> Job]
        /\ job'[h].pc = "running" /\ job'[h].todo = Subscribers(table) \ {e}
        /\ \A g \in Handlers \ {h} : job'[g] = job[g]
    BY <1>4, <2>1 DEF TypeOK
  <2>3. ctrl' \in [Ctrls -> Ctrl] /\ SameHandlers(cs)
    BY <1>1, <1>4, UpdatedFacts DEF SameHandlers
  <2>4. ASSUME NEW c \in Clients, table[c] # None, table[c] \notin gone,
               <<c, table[c]>> \notin job'[h].todo
        PROVE  ctrl'[table[c]].view = CatalogItems(items, c)
    <3>1. e = <<c, table[c]>>
      BY <1>2, <2>2, <2>4
    <3>2. QED
      BY <1>1, <1>4, <2>4, <3>1, UpdatedFacts
  <2>5. QED
    BY <2>2, <2>3, <2>4
<1>5. QED
  BY <1>3, <1>4 DEF StartBroadcast
-----------------------------------------------------------------------------
(* One lemma per action or group of actions                                 *)

(* The next subscriber's turn: it is informed now, if its connection is not *)
(* gone, and no other client is subscribed on that connection.              *)
LEMMA NextUpdateInv ==
  ASSUME CatalogInv, NEW h \in Handlers, NEW failed \in Outcomes(h), NEW e \in job[h].todo,
         NextUpdate(h, e, failed)
  PROVE  CatalogInv'
<1> USE DEF CatalogInv, NextUpdate
<1>1. e \in Clients \X Ctrls /\ listed \in SUBSET Owners /\ failed \in SUBSET Clients
  BY DEF TypeOK, Job, Outcomes
<1>2. /\ ctrl' \in [Ctrls -> Ctrl]
      /\ SameHandlers(ctrl)
      /\ \A x \in Ctrls \ {e[2]} : ctrl'[x] = ctrl[x]
      /\ e[2] \notin gone => ctrl'[e[2]].view = CatalogItems(listed, e[1])
  BY <1>1, UpdatedFacts DEF TypeOK, SameHandlers
<1>3. /\ job' \in [Handlers -> Job]
      /\ \A g \in Handlers : job'[g].pc = job[g].pc
      /\ job'[h].todo = job[h].todo \ {e}
      /\ \A g \in Handlers \ {h} : job'[g].todo = job[g].todo
  BY <1>1 DEF TypeOK, Job
<1>4. TypeOK'
  BY <1>2, <1>3 DEF TypeOK
<1>5. HandlersInStep'
  <2>1. \A g \in Handlers : job'[g].pc = job[g].pc /\ job'[g].todo \subseteq job[g].todo
    BY <1>3
  <2>2. SameHandlers(ctrl)
    BY <1>2
  <2>3. \A x \in Ctrls : /\ ctrl'[x].pc = ctrl[x].pc /\ ctrl'[x].client = ctrl[x].client
                         /\ job'[x].pc = job[x].pc
    BY <2>1, <2>2 DEF SameHandlers, Handlers
  <2>4. \A g \in Handlers : job'[g].pc # "running" => job'[g].todo = {}
    BY <2>1 DEF HandlersInStep
  <2>5. HandlersInStep
    OBVIOUS
  <2> HIDE DEF CatalogInv, NextUpdate
  <2>6. QED
    BY <2>3, <2>4, <2>5 DEF HandlersInStep
<1>6. ListedUnderClient'
  <2>1. \A g \in Handlers : job'[g].todo \subseteq job[g].todo /\ job[g].todo \subseteq Clients \X Ctrls
    BY <1>3 DEF TypeOK, Job
  <2>2. QED
    BY <1>2, <2>1 DEF ListedUnderClient, SameHandlers
<1>7. SubscriberIsServed'
  BY <1>2 DEF TypeOK, SubscriberIsServed, SameHandlers
<1>8. ASSUME NEW c \in Clients, Informed(c) PROVE Informed(c)'
  <2> DEFINE x == control_sessions[c]
  <2> SUFFICES ASSUME x \in Ctrls, x \notin gone
               PROVE  \/ ctrl'[x].view = CatalogItems(listed, c)
                      \/ \E g \in Handlers : <<c, x>> \in job'[g].todo
    BY DEF Informed, TypeOK, CatalogItems
  <2>1. ctrl[x].client = c /\ ctrl[x].pc # "closed"
    BY BroadcastAssumption DEF SubscriberIsServed
  <2>2. CASE e[2] = x
    <3>1. e[1] = c
      BY <2>1, <2>2 DEF ListedUnderClient
    <3>2. QED
      BY <1>2, <2>2, <3>1
  <2>3. CASE e[2] # x
    <3>1. <<c, x>> # e /\ ctrl'[x] = ctrl[x]
      BY <1>2, <2>3
    <3>2. \/ ctrl[x].view = CatalogItems(listed, c)
          \/ \E g \in Handlers : <<c, x>> \in job[g].todo
      BY <1>8, BroadcastAssumption DEF Informed
    <3>3. QED
      BY <1>3, <3>1, <3>2
  <2>4. QED
    BY <2>2, <2>3
<1>9. silent' \/ Announced' \/ \A c \in Clients : Informed(c)'
  BY <1>2, <1>3, <1>8 DEF Announced, SameHandlers
<1>10. QED
  BY <1>4, <1>5, <1>6, <1>7, <1>9

(* A broadcast that is over has nobody left to inform, and forgets          *)
(* subscriptions only.                                                      *)
LEMMA FinishInv ==
  ASSUME CatalogInv, NEW h \in Handlers, NEW failed \in Outcomes(h), Finish(h, failed)
  PROVE  CatalogInv'
<1> USE BroadcastAssumption DEF CatalogInv, Finish
<1>1. /\ job' \in [Handlers -> Job]
      /\ job'[h].pc = "none" /\ \A g \in Handlers \ {h} : job'[g] = job[g]
      /\ \A g \in Handlers : job'[g].todo = job[g].todo
  BY DEF TypeOK, Job, NoJob
<1>2. /\ ctrl' \in [Ctrls -> Ctrl]
      /\ \A x \in Ctrls : ctrl'[x].client = ctrl[x].client /\ ctrl'[x].view = ctrl[x].view
      /\ \A x \in Ctrls \ {h} : ctrl'[x].pc = ctrl[x].pc
      /\ h \in Ctrls => ctrl[h].pc = "broadcasting" /\ ctrl'[h].pc = "reading"
  BY DEF TypeOK, Ctrl, HandlersInStep
<1>3. TypeOK'
  BY <1>1, <1>2 DEF TypeOK
<1>4. HandlersInStep'
  BY <1>1, <1>2 DEF HandlersInStep, Handlers
<1>5. ListedUnderClient'
  <2>1. \A g \in Handlers : job[g].todo \subseteq Clients \X Ctrls
    BY DEF TypeOK, Job
  <2>2. \A x \in Ctrls : ctrl'[x].pc # "closed" => ctrl[x].pc # "closed"
    BY <1>2
  <2>3. QED
    BY <1>1, <1>2, <2>1, <2>2 DEF ListedUnderClient
<1>6. \A c \in Clients : control_sessions'[c] \in {None, control_sessions[c]}
  OBVIOUS
<1>7. SubscriberIsServed'
  BY <1>2, <1>6 DEF TypeOK, SubscriberIsServed
<1>8. ASSUME NEW c \in Clients, Informed(c) PROVE Informed(c)'
  BY <1>1, <1>2, <1>6, <1>8 DEF Informed, TypeOK, CatalogItems
<1>9. silent' \/ Announced' \/ \A c \in Clients : Informed(c)'
  BY <1>1, <1>2, <1>8 DEF Announced
<1>10. QED
  BY <1>3, <1>4, <1>5, <1>7, <1>9

(* A relay handler that lists its owner has announced a broadcast.          *)
LEMMA ConnectedInv ==
  ASSUME CatalogInv, NEW r \in Relays, NEW o \in Owners, Connected(r, o)
  PROVE  CatalogInv'
<1> USE BroadcastAssumption DEF CatalogInv, Connected
<1>1. /\ r \in Handlers /\ job' \in [Handlers -> Job]
      /\ job'[r].pc = "due" /\ \A g \in Handlers \ {r} : job'[g] = job[g]
      /\ \A g \in Handlers : job'[g].todo = job[g].todo
  BY DEF TypeOK, Job, Handlers
<1>2. TypeOK'
  BY <1>1 DEF TypeOK
<1>3. HandlersInStep'
  BY <1>1 DEF HandlersInStep, Handlers
<1>4. ListedUnderClient'
  BY <1>1 DEF ListedUnderClient
<1>5. SubscriberIsServed'
  BY DEF SubscriberIsServed
<1>6. Announced'
  BY <1>1 DEF Announced
<1>7. QED
  BY <1>2, <1>3, <1>4, <1>5, <1>6
\* The handlers as h finds them when it starts its broadcast: but for its own
\* phase, as they were; those subscribed in table are served
Starting(h, table, cs) ==
  /\ cs \in [Ctrls -> Ctrl]
  /\ table \in [Clients -> Ctrls \cup {None}]
  /\ h \in Ctrls => cs[h].pc = "broadcasting" /\ \E c \in Clients : table[c] = h
  /\ \A x \in Ctrls :
       /\ cs[x].client = ctrl[x].client
       /\ ctrl[x].pc = "closed" => cs[x].pc = "closed"
       /\ x # h => cs[x].pc = ctrl[x].pc
  /\ \A c \in Clients : table[c] # None =>
       /\ cs[table[c]].client = c
       /\ cs[table[c]].pc \in {"broadcasting", "reading"}

(* A broadcast leaves nobody out and lists its subscribers under their own  *)
(* clients, whatever the broadcasts that are running have left to do.       *)
LEMMA StartInv ==
  ASSUME CatalogInv, NEW h \in Handlers, NEW cs,
         approved' = approved, gone' = gone, silent' = FALSE,
         listed' \in SUBSET (Owners \cap approved),
         Starting(h, control_sessions', cs),
         StartBroadcast(h, control_sessions', listed', cs)
  PROVE  CatalogInv'
<1> USE DEF CatalogInv
<1>1. /\ ctrl' \in [Ctrls -> Ctrl] /\ job' \in [Handlers -> Job]
      /\ SameHandlers(cs)
      /\ \A g \in Handlers \ {h} : job'[g] = job[g]
      /\ job'[h].todo \subseteq Subscribers(control_sessions')
      /\ \/ job'[h].pc = "none" /\ job'[h].todo = {} /\ Subscribers(control_sessions') = {}
         \/ job'[h].pc = "running"
      /\ \A c \in Clients : control_sessions'[c] # None /\ control_sessions'[c] \notin gone =>
           \/ ctrl'[control_sessions'[c]].view = CatalogItems(listed', c)
           \/ <<c, control_sessions'[c]>> \in job'[h].todo
  <2>1. /\ TypeOK /\ listed' \in SUBSET Owners /\ cs \in [Ctrls -> Ctrl]
        /\ control_sessions' \in [Clients -> Ctrls \cup {None}]
    BY DEF Starting
  <2>2. QED
    BY <2>1, BroadcastFacts
<1>2. TypeOK'
  BY <1>1 DEF TypeOK, Starting
<1>3. ASSUME h \in Ctrls PROVE job'[h].pc = "running"
  <2>1. PICK c \in Clients : control_sessions'[c] = h
    BY <1>3 DEF Starting
  <2>2. <<c, h>> \in Subscribers(control_sessions')
    BY <1>3, <2>1 DEF Subscribers
  <2>3. QED
    BY <1>1, <2>2
<1>4. HandlersInStep'
  <2>1. ASSUME NEW x \in Ctrls
        PROVE  /\ ctrl'[x].pc # "closed" => ctrl'[x].client \in Clients
               /\ ctrl'[x].pc = "broadcasting" <=> job'[x].pc # "none"
               /\ job'[x].pc # "due"
    <3>1. x \in Handlers /\ ctrl'[x].pc = cs[x].pc /\ ctrl'[x].client = ctrl[x].client
      BY <1>1 DEF SameHandlers, Handlers, Starting
    <3>2. CASE x = h
      BY <1>3, <3>1, <3>2 DEF Starting, HandlersInStep
    <3>3. CASE x # h
      BY <1>1, <3>1, <3>3 DEF Starting, HandlersInStep
    <3>4. QED
      BY <3>2, <3>3
  <2>2. \A g \in Handlers : job'[g].pc # "running" => job'[g].todo = {}
    BY <1>1 DEF HandlersInStep
  <2>3. QED
    BY <2>1, <2>2 DEF HandlersInStep
<1>5. ListedUnderClient'
  <2>1. \A e \in job'[h].todo : e[2] \in Ctrls /\ ctrl'[e[2]].client = e[1]
    BY <1>1, BroadcastAssumption DEF Subscribers, SameHandlers, Starting
  <2>2. \A g \in Handlers : job[g].todo \subseteq Clients \X Ctrls
    BY DEF TypeOK, Job
  <2>3. \A g \in Handlers \ {h} : \A e \in job'[g].todo :
          ctrl'[e[2]].pc # "closed" => ctrl'[e[2]].client = e[1]
    BY <1>1, <2>2 DEF ListedUnderClient, SameHandlers, Starting
  <2>4. QED
    BY <2>1, <2>3 DEF ListedUnderClient
<1>6. SubscriberIsServed'
  BY <1>1 DEF SubscriberIsServed, SameHandlers, Starting
<1>7. \A c \in Clients : Informed(c)'
  BY <1>1 DEF Informed, CatalogItems
<1>8. QED
  BY <1>2, <1>4, <1>5, <1>6, <1>7

(* The relay handlers' broadcasts.                                          *)
LEMMA RelayBroadcastInv ==
  ASSUME CatalogInv, NEW r \in Relays,
         BeginBroadcast(r) \/ \E o \in Owners : Disconnected(r, o)
  PROVE  CatalogInv'
<1>1. /\ r \in Handlers \ Ctrls /\ StartBroadcast(r, control_sessions', listed', ctrl)
      /\ approved' = approved /\ gone' = gone /\ silent' = FALSE
      /\ control_sessions' = control_sessions
      /\ listed' \in SUBSET (Owners \cap approved)
  BY BroadcastAssumption DEF BeginBroadcast, Disconnected, Handlers, CatalogInv, TypeOK
<1>2. Starting(r, control_sessions', ctrl)
  BY <1>1 DEF Starting, CatalogInv, TypeOK, SubscriberIsServed
<1>3. QED
  BY <1>1, <1>2, StartInv

(* A control connection that registers is in no table and no broadcast, and *)
(* is going to broadcast what its registration changed.                     *)
LEMMA RegisterInv ==
  ASSUME CatalogInv, NEW x \in Ctrls, NEW c \in Clients, Register(x, c)
  PROVE  CatalogInv'
<1> USE DEF CatalogInv, Register
<1>1. listed' \in SUBSET (Owners \cap approved)
  BY DEF TypeOK
<1>2. /\ ctrl' \in [Ctrls -> Ctrl]
      /\ ctrl'[x].pc = "registered" /\ ctrl'[x].client = c
      /\ \A y \in Ctrls \ {x} : ctrl'[y] = ctrl[y]
  BY <1>1 DEF TypeOK, Ctrl, CatalogItems
<1>3. TypeOK'
  BY <1>1, <1>2 DEF TypeOK
<1>4. HandlersInStep'
  BY <1>2 DEF HandlersInStep
<1>5. ListedUnderClient'
  <2>1. \A g \in Handlers : job[g].todo \subseteq Clients \X Ctrls
    BY DEF TypeOK, Job
  <2>2. \A g \in Handlers : \A e \in job[g].todo : e[2] \in Ctrls \ {x}
    BY <2>1
  <2>3. QED
    BY <1>2, <2>2 DEF ListedUnderClient
<1>6. SubscriberIsServed'
  BY <1>2 DEF SubscriberIsServed, TypeOK
<1>7. Announced'
  BY <1>2 DEF Announced
<1>8. QED
  BY <1>3, <1>4, <1>5, <1>6, <1>7
(* The broadcast of a subscription goes to the subscriber itself, too.      *)
LEMMA SubscribeInv ==
  ASSUME CatalogInv, NEW x \in Ctrls, Subscribe(x)
  PROVE  CatalogInv'
<1> USE DEF CatalogInv, Subscribe
<1> DEFINE c == ctrl[x].client
           cs == [ctrl EXCEPT ![x].pc = "broadcasting"]
<1>1. c \in Clients /\ x \in Handlers
  BY DEF HandlersInStep, Handlers
<1>2. /\ cs \in [Ctrls -> Ctrl] /\ cs[x].pc = "broadcasting" /\ cs[x].client = c
      /\ \A y \in Ctrls \ {x} : cs[y] = ctrl[y]
  BY DEF TypeOK, Ctrl
<1>3. /\ control_sessions' \in [Clients -> Ctrls \cup {None}]
      /\ control_sessions'[c] = x
      /\ \A d \in Clients \ {c} : control_sessions'[d] = control_sessions[d]
  BY <1>1 DEF TypeOK
<1>4. /\ approved' = approved /\ gone' = gone /\ silent' = FALSE
      /\ listed' \in SUBSET (Owners \cap approved)
      /\ StartBroadcast(x, control_sessions', listed', cs)
  BY DEF TypeOK
<1>5. \A d \in Clients : control_sessions'[d] # None =>
        /\ cs[control_sessions'[d]].client = d
        /\ cs[control_sessions'[d]].pc \in {"broadcasting", "reading"}
  BY <1>2, <1>3 DEF SubscriberIsServed, TypeOK
<1> HIDE DEF cs
<1>6. Starting(x, control_sessions', cs)
  BY <1>1, <1>2, <1>3, <1>5 DEF Starting
<1>7. QED
  BY <1>1, <1>4, <1>6, StartInv

(* The end of a control connection closes its own subscription, and nobody  *)
(* else's.  A registration it leaves untold is a silent change.             *)
LEMMA DropInv ==
  ASSUME CatalogInv, NEW x \in Ctrls, Drop(x)
  PROVE  CatalogInv'
<1> USE BroadcastAssumption DEF CatalogInv, Drop
<1>1. /\ ctrl' \in [Ctrls -> Ctrl]
      /\ ctrl'[x].pc = "closed" /\ \A y \in Ctrls \ {x} : ctrl'[y] = ctrl[y]
  BY DEF TypeOK, Ctrl, Closed
<1>2. /\ control_sessions' \in [Clients -> Ctrls \cup {None}]
      /\ \A c \in Clients : control_sessions'[c] \in {None, control_sessions[c]} \ {x}
  BY DEF TypeOK, SubscriberIsServed, HandlersInStep
<1>3. TypeOK'
  BY <1>1, <1>2 DEF TypeOK
<1>4. HandlersInStep'
  BY <1>1 DEF HandlersInStep
<1>5. ListedUnderClient'
  <2>1. \A g \in Handlers : job[g].todo \subseteq Clients \X Ctrls
    BY DEF TypeOK, Job
  <2>2. QED
    BY <1>1, <2>1 DEF ListedUnderClient
<1>6. SubscriberIsServed'
  BY <1>1, <1>2 DEF SubscriberIsServed, TypeOK
<1>7. ASSUME NEW c \in Clients, Informed(c) PROVE Informed(c)'
  BY <1>1, <1>2, <1>7 DEF Informed, TypeOK, CatalogItems
<1>8. silent' \/ Announced' \/ \A c \in Clients : Informed(c)'
  BY <1>1, <1>7 DEF Announced
<1>9. QED
  BY <1>3, <1>4, <1>5, <1>6, <1>8

(* A lost connection need not be informed.                                  *)
LEMMA LoseLinkInv ==
  ASSUME CatalogInv, NEW x \in Ctrls, LoseLink(x)
  PROVE  CatalogInv'
BY DEF CatalogInv, LoseLink, TypeOK, HandlersInStep, ListedUnderClient, SubscriberIsServed,
       Announced, Informed, CatalogItems

(* Nothing is claimed of a change that no broadcast follows; a refusal      *)
(* closes the subscription and takes the owner from the catalog.  One that  *)
(* is repeated leaves the catalog and whoever else subscribes alone.        *)
LEMMA SilentInv ==
  ASSUME CatalogInv,
         \/ \E o \in Owners : SilentChange(o)
         \/ \E c \in Clients \cup Owners : Approve(c) \/ Refuse(c)
  PROVE  CatalogInv'
<1> USE DEF CatalogInv
<1>1. /\ ctrl' = ctrl /\ job' = job
      /\ silent' \/ (silent' = silent /\ gone \subseteq gone' /\ \E c \in Clients \cup Owners :
                        c \notin approved /\ Refuse(c))
  BY DEF SilentChange, Approve, Refuse, TypeOK
<1>2. \A c \in Clients : control_sessions'[c] \in {None, control_sessions[c]}
  BY DEF SilentChange, Approve, Refuse
<1>3. TypeOK'
  BY DEF TypeOK, SilentChange, Approve, Refuse
<1>4. HandlersInStep' /\ ListedUnderClient'
  BY <1>1 DEF HandlersInStep, ListedUnderClient
<1>5. SubscriberIsServed'
  BY <1>1, <1>2 DEF SubscriberIsServed
<1>6. silent' \/ Announced' \/ \A c \in Clients : Informed(c)'
  <2>1. SUFFICES ASSUME ~silent', ~Announced', NEW c \in Clients PROVE Informed(c)'
    OBVIOUS
  <2>2. Informed(c)
    BY <1>1, <2>1 DEF Announced
  <2>3. PICK d \in Clients \cup Owners : d \notin approved /\ Refuse(d)
    BY <1>1, <2>1
  <2>4. listed' = listed /\ approved' = approved
    BY <2>3 DEF Refuse, TypeOK
  <2>5. QED
    BY <1>1, <1>2, <2>1, <2>2, <2>4 DEF Informed, CatalogItems
<1>7. QED
  BY <1>1, <1>3, <1>4, <1>5, <1>6

-----------------------------------------------------------------------------
(* Theorems                                                                 *)

(* The relay starts without connections and broadcasts.                     *)
LEMMA InitInv == Init => CatalogInv
<1> SUFFICES ASSUME Init PROVE CatalogInv
  OBVIOUS
<1>1. Closed \in Ctrl /\ NoJob \in Job
  BY DEF Closed, Ctrl, NoJob, Job
<1>2. TypeOK
  BY <1>1 DEF Init, TypeOK
<1>3. /\ \A x \in Ctrls : x \in Handlers /\ ctrl[x].pc = "closed"
      /\ \A h \in Handlers : job[h].pc = "none" /\ job[h].todo = {}
  BY DEF Init, Closed, NoJob, Handlers
<1>4. HandlersInStep /\ ListedUnderClient
  BY <1>3 DEF HandlersInStep, ListedUnderClient
<1>5. \A c \in Clients : control_sessions[c] = None
  BY DEF Init
<1>6. QED
  BY <1>2, <1>4, <1>5 DEF CatalogInv, SubscriberIsServed, Informed

(* Every step of the relay keeps the inductive invariant.                   *)
LEMMA StepInv == CatalogInv /\ [Next]_vars => CatalogInv'
<1> SUFFICES ASSUME CatalogInv, [Next]_vars PROVE CatalogInv'
  OBVIOUS
<1>1. CASE UNCHANGED vars
  BY <1>1 DEF vars, CatalogInv, TypeOK, HandlersInStep, ListedUnderClient, SubscriberIsServed,
              Announced, Informed, CatalogItems
<1>2. ASSUME NEW h \in Handlers, NEW failed \in Outcomes(h),
             (\E e \in job[h].todo : NextUpdate(h, e, failed)) \/ Finish(h, failed)
      PROVE  CatalogInv'
  BY <1>2, NextUpdateInv, FinishInv
<1>3. ASSUME NEW r \in Relays,
             (\E o \in Owners : Connected(r, o) \/ Disconnected(r, o)) \/ BeginBroadcast(r)
      PROVE  CatalogInv'
  BY <1>3, ConnectedInv, RelayBroadcastInv
<1>4. ASSUME NEW x \in Ctrls,
             (\E c \in Clients : Register(x, c)) \/ Subscribe(x) \/ Drop(x) \/ LoseLink(x)
      PROVE  CatalogInv'
  BY <1>4, RegisterInv, SubscribeInv, DropInv, LoseLinkInv
<1>5. QED
  BY <1>1, <1>2, <1>3, <1>4, SilentInv DEF Next

(* The inductive invariant holds in every reachable state of the relay.     *)
THEOREM Invariance == Spec => []CatalogInv
BY InitInv, StepInv, PTL DEF Spec

(* The broadcasts' state keeps its type.                                    *)
THEOREM TypeCorrect == Spec => []TypeOK
<1>1. CatalogInv => TypeOK
  BY DEF CatalogInv
<1>2. QED
  BY <1>1, Invariance, PTL

(* No subscription outlives its control handler, however connections,       *)
(* broadcasts and refusals overlap.                                         *)
THEOREM SubscribersAreServed == Spec => []SubscriberIsServed
<1>1. CatalogInv => SubscriberIsServed
  BY DEF CatalogInv
<1>2. QED
  BY <1>1, Invariance, PTL

(* When the broadcasts are over every subscriber has the present catalog,   *)
(* however many of them overlapped, unless a change was made that           *)
(* broadcast_catalog was never called for.                                  *)
THEOREM SubscribersAreUpToDate == Spec => []SubscribersUpToDate
<1>1. CatalogInv => SubscribersUpToDate
  <2> SUFFICES ASSUME CatalogInv, Settled, NEW c \in Clients
               PROVE  LET x == control_sessions[c] IN
                      x # None /\ x \notin gone => ctrl[x].view = CatalogItems(listed, c)
    BY DEF SubscribersUpToDate
  <2>1. \A h \in Handlers : job[h].pc = "none" /\ job[h].todo = {}
    BY DEF Settled, CatalogInv, HandlersInStep
  <2>2. Informed(c)
    BY DEF Settled, CatalogInv, Announced
  <2>3. QED
    BY <2>1, <2>2 DEF Informed
<1>2. QED
  BY <1>1, Invariance, PTL

(* Which steps take a subscription away: that of a broadcast whose write to *)
(* the client failed, the end of the connection, and a refusal.             *)
LEMMA SubscriptionLost ==
  ASSUME CatalogInv, Next, NEW c \in Clients,
         control_sessions[c] # None, control_sessions'[c] = None
  PROVE  control_sessions[c] \in gone' \/ WriteFailed(c)
<1>1. control_sessions \in [Clients -> Ctrls \cup {None}]
  BY DEF CatalogInv, TypeOK
<1>2. ASSUME NEW h \in Handlers, NEW failed \in Outcomes(h),
             (\E e \in job[h].todo : NextUpdate(h, e, failed)) \/ Finish(h, failed)
      PROVE  WriteFailed(c)
  <2>1. Finish(h, failed)
    BY <1>2 DEF NextUpdate
  <2>2. c \in job[h].stale \/ c \in failed
    BY <2>1 DEF Finish
  <2>3. c \in failed => \E x \in gone : job[h].at = <<c, x>>
    BY DEF Outcomes
  <2>4. QED
    BY <2>2, <2>3 DEF WriteFailed
<1>3. ASSUME NEW r \in Relays,
             (\E o \in Owners : Connected(r, o) \/ Disconnected(r, o)) \/ BeginBroadcast(r)
      PROVE  FALSE
  BY <1>3 DEF Connected, Disconnected, BeginBroadcast
<1>4. ASSUME NEW x \in Ctrls,
             (\E d \in Clients : Register(x, d)) \/ Subscribe(x) \/ Drop(x) \/ LoseLink(x)
      PROVE  control_sessions[c] \in gone'
  BY <1>1, <1>4, BroadcastAssumption DEF Register, Subscribe, Drop, LoseLink
<1>5. ASSUME NEW o \in Owners, SilentChange(o)
      PROVE  FALSE
  BY <1>5 DEF SilentChange
<1>6. ASSUME NEW d \in Clients \cup Owners, Approve(d) \/ Refuse(d)
      PROVE  control_sessions[c] \in gone'
  BY <1>1, <1>6 DEF Approve, Refuse
<1>7. QED
  BY <1>2, <1>3, <1>4, <1>5, <1>6 DEF Next

(* A healthy subscription is lost to a refusal or to a failed write only:   *)
(* the end of an earlier connection, however late, takes nothing away.      *)
THEOREM SubscriptionsAreKept == Spec => SubscriptionKept
<1>1. CatalogInv /\ [Next]_vars
        => [\A c \in Clients : LET x == control_sessions[c] IN
              x # None /\ control_sessions'[c] = None => x \in gone' \/ WriteFailed(c)]_vars
  BY SubscriptionLost
<1>2. QED
  BY <1>1, Invariance, PTL DEF Spec, SubscriptionKept
=============================================================================
