------------------------- MODULE PeerSessionsProofs -------------------------
(***************************************************************************)
(* Proofs about PeerSessions, for every set of operations and every number  *)
(* of relay connections: no operation runs twice, no sequence number is     *)
(* used twice, and the client's operations implement RemoteOperation.       *)
(***************************************************************************)
EXTENDS PeerSessions, SequenceTheorems, TLAPS

-----------------------------------------------------------------------------
(* Frames                                                                   *)

Mutating == Actions \cup Files

UpFrame ==
       [type : {"session_init"}, sid : Conns]
  \cup [type : {"session_envelope"}, sid : Conns, seq : Nat, req : {"start", "resume"}, op : Ops]

DownFrame ==
       [type : {"accepted", "offline", "session_reset"}]
  \cup [type : {"session_accept"}, sid : Conns]
  \cup [type : {"session_envelope"}, sid : Conns, seq : Nat, body : Bodies, op : Ops]

IsInit(g)    == g.type = "session_init"
IsRequest(g) == g.type = "session_envelope"
IsStart(g)   == IsRequest(g) /\ g.req = "start" /\ g.op \in Mutating

\* The client's frames that the Wisp has not read and may still read
Sent == ({up[n] : n \in Conns} \ {None}) \cup {wq[i] : i \in 1..Len(wq)}

\* The frames the client has not read
Rcvd == {down[i] : i \in 1..Len(down)}

\* Two frames that would do the same at the Wisp
Same(f, g) ==
  \/ IsInit(f) /\ IsInit(g) /\ f.sid = g.sid
  \/ IsStart(f) /\ IsStart(g) /\ f.op = g.op

\* No such two are under way
NoTwo ==
  /\ \A m, n \in Conns : m # n /\ up[m] # None /\ up[n] # None => ~Same(up[m], up[n])
  /\ \A n \in Conns, i \in 1..Len(wq) : up[n] # None => ~Same(up[n], wq[i])
  /\ \A i, j \in 1..Len(wq) : i # j => ~Same(wq[i], wq[j])

-----------------------------------------------------------------------------
(* The inductive invariant.  An operation starts once because its request   *)
(* is sent once; the nonces are new because a handshake, under way once as  *)
(* well, is under way only while neither side has its session; and an       *)
(* operation that is told "expired" does not start any more because the     *)
(* Wisp has read the handshake of a later session by then, and will not     *)
(* read that of its request again.                                          *)

\* The request that starts o is still to be sent
NotSent(o) ==
  told[o] = "none" /\ (o = op => attempt = 1 /\ pc \in {"connect", "init_accept", "init_reply"})

\* The Wisp does not have the session of frame g
Left(g) == wsess # None => wsess.sid # g.sid

Asked(o) == o = op \/ told[o] # "none"

ClientTypes ==
  /\ pc \in Pcs /\ attempt \in 1..2
  /\ op \in Ops \cup {None}
  /\ op = None <=> pc = "idle"
  /\ asess \in Sessions \cup {None}
  /\ pc \in {"req_accept", "req_reply", "upload", "completion"} => asess # None
  /\ told \in [Ops -> {"none", "answered", "failed", "expired"}]

RelayTypes ==
  /\ conn \in 0..MaxConns /\ route \in 0..conn
  /\ up \in [Conns -> UpFrame \cup {None}]
  /\ wq \in Seq(UpFrame) /\ down \in Seq(DownFrame)
  /\ wlink \in BOOLEAN
  /\ ~wlink => wq = <<>>

WispTypes ==
  /\ wsess \in Sessions \cup {None}
  /\ loop \in States \cup Actions \cup {None}
  /\ outcome \in [Ops -> {"none", "response", "error", "indeterminate"}]
  /\ transfer \in [Files -> Transfers]
  /\ runs \in [Ops -> Nat]
  /\ sealed \in [{"android", "wisp"} -> [Conns -> Nat]]

FramesOK == ClientTypes /\ RelayTypes /\ WispTypes

ClientOK ==
  /\ op # None => told[op] = "none"
  /\ asess # None => asess.sid <= conn
  /\ attempt = 2 /\ asess # None => asess.sid = conn
  /\ pc \in {"init_accept", "init_reply"} => asess = None
  /\ pc = "connect" /\ attempt = 2 => asess = None
  /\ pc = "upload" => op \in Files
  /\ pc \in {"idle", "connect"} => down = <<>>
  /\ pc \notin {"idle", "connect"} => conn # 0

InitsNew ==
  \A g \in Sent : IsInit(g) =>
    /\ g.sid <= conn /\ sealed["wisp"][g.sid] = 0
    /\ Left(g) /\ (asess # None => asess.sid # g.sid)
    /\ \A f \in Rcvd : f.type = "session_accept" => f.sid # g.sid
    /\ \A h \in Sent : IsRequest(h) => h.sid # g.sid

RequestsAsked ==
  \A g \in Sent : IsRequest(g) => g.sid <= conn /\ Asked(g.op)

StartsNew ==
  \A g \in Sent : IsStart(g) =>
    /\ runs[g.op] = 0 /\ (g.op \in Files => transfer[g.op] = NoTransfer)
    /\ ~NotSent(g.op)
    /\ g.op = op /\ attempt = 2 /\ pc # "connect" => g.sid < conn

NotRunYet ==
  \A o \in Mutating : NotSent(o) => runs[o] = 0 /\ (o \in Files => transfer[o] = NoTransfer)

TransfersNew == \A f \in Files : transfer[f].pc \in {"created", "receiving"} => runs[f] = 0

Numbers ==
  /\ NonceOnce
  /\ \A s \in Conns : s > conn => sealed["android"][s] = 0 /\ sealed["wisp"][s] = 0
  /\ pc \in {"init_accept", "init_reply"} => sealed["android"][conn] = 0
  /\ wsess # None => wsess.sid <= conn

\* An answer under the session of the second attempt's connection
LateAnswer ==
  attempt = 2 /\ \E f \in Rcvd : f.type = "session_envelope" /\ f.sid = conn

GivenUp ==
  \A g \in Sent : IsStart(g) /\ (told[g.op] = "expired" \/ (g.op = op /\ LateAnswer)) => Left(g)

PeersInv ==
  /\ FramesOK
  /\ ClientOK
  /\ NoTwo
  /\ InitsNew
  /\ RequestsAsked
  /\ StartsNew
  /\ NotRunYet
  /\ TransfersNew
  /\ RunsOnce
  /\ Numbers
  /\ GivenUp

-----------------------------------------------------------------------------
(* Frames on their way                                                      *)

(* A frame of the client is a handshake or a request.                       *)
LEMMA UpFrameKinds ==
  ASSUME NEW g \in UpFrame
  PROVE  /\ g.sid \in Conns
         /\ IsInit(g) \/ IsRequest(g)
         /\ ~(IsInit(g) /\ IsRequest(g))
         /\ IsRequest(g) => g.op \in Ops /\ g.req \in {"start", "resume"} /\ g.seq \in Nat
BY DEF UpFrame, IsInit, IsRequest

(* The client's handshake and request are such frames.                      *)
LEMMA UpFrameMade ==
  ASSUME NEW sid \in Conns
  PROVE  /\ InitOf(sid) \in UpFrame /\ IsInit(InitOf(sid)) /\ ~IsRequest(InitOf(sid))
         /\ InitOf(sid).sid = sid
         /\ \A n \in Nat, r \in {"start", "resume"}, o \in Ops :
              LET g == [type |-> "session_envelope", sid |-> sid, seq |-> n, req |-> r, op |-> o]
              IN g \in UpFrame /\ IsRequest(g) /\ ~IsInit(g)
                   /\ g.sid = sid /\ g.req = r /\ g.op = o
BY DEF UpFrame, InitOf, IsInit, IsRequest

(* So are the answers.                                                      *)
LEMMA DownFrameMade ==
  /\ Accepted \in DownFrame /\ Accepted.type = "accepted"
  /\ Offline \in DownFrame /\ Offline.type = "offline"
  /\ Reset \in DownFrame /\ Reset.type = "session_reset"
  /\ \A sid \in Conns : /\ AcceptOf(sid) \in DownFrame /\ AcceptOf(sid).type = "session_accept"
                        /\ AcceptOf(sid).sid = sid
  /\ \A sid \in Conns, n \in Nat, b \in Bodies, o \in Ops :
       LET f == [type |-> "session_envelope", sid |-> sid, seq |-> n, body |-> b, op |-> o]
       IN f \in DownFrame /\ f.type = "session_envelope" /\ f.sid = sid
BY DEF DownFrame, Accepted, Offline, Reset, AcceptOf

(* What is under way is a frame.                                            *)
LEMMA SentFrames ==
  ASSUME RelayTypes
  PROVE  /\ Sent \subseteq UpFrame
         /\ \A n \in Conns : up[n] # None => up[n] \in Sent
         /\ \A i \in 1..Len(wq) : wq[i] \in Sent
         /\ Len(wq) \in Nat
<1>1. /\ Len(wq) \in Nat /\ \A i \in 1..Len(wq) : wq[i] \in UpFrame
      /\ \A n \in Conns : up[n] # None => up[n] \in UpFrame
  BY LenProperties, ElementOfSeq DEF RelayTypes
<1>2. QED
  BY <1>1 DEF Sent

(* The Wisp takes the frame it reads out of what is under way.              *)
LEMMA Consumed ==
  ASSUME RelayTypes, NoTwo, wq # <<>>, wq' = Tail(wq), up' = up
  PROVE  /\ Head(wq) \in Sent /\ Head(wq) \in UpFrame
         /\ Sent' \subseteq Sent /\ NoTwo' /\ wq' \in Seq(UpFrame)
         /\ \A g \in Sent' : ~Same(Head(wq), g) /\ ~Same(g, Head(wq))
<1>1. /\ Len(wq) \in Nat /\ Len(wq) >= 1 /\ Head(wq) = wq[1]
      /\ wq' \in Seq(UpFrame) /\ Len(wq') = Len(wq) - 1
      /\ \A i \in 1..Len(wq') : i + 1 \in 1..Len(wq) /\ wq'[i] = wq[i + 1]
  BY HeadTailProperties, EmptySeq, LenProperties DEF RelayTypes
<1>2. /\ 1 \in 1..Len(wq) /\ wq[1] \in Sent /\ Sent \subseteq UpFrame
  BY <1>1, SentFrames
<1>3. Sent' \subseteq Sent
  BY <1>1 DEF Sent
<1>4. NoTwo'
  <2>1. \A i, j \in 1..Len(wq') : i # j => ~Same(wq'[i], wq'[j])
    <3> SUFFICES ASSUME NEW i \in 1..Len(wq'), NEW j \in 1..Len(wq'), i # j
                 PROVE  ~Same(wq'[i], wq'[j])
      OBVIOUS
    <3>1. /\ i + 1 \in 1..Len(wq) /\ wq'[i] = wq[i + 1]
          /\ j + 1 \in 1..Len(wq) /\ wq'[j] = wq[j + 1]
          /\ i + 1 # j + 1
      BY <1>1
    <3>2. QED
      BY <3>1 DEF NoTwo
  <2>2. \A n \in Conns, i \in 1..Len(wq') : up[n] # None => ~Same(up[n], wq'[i])
    BY <1>1 DEF NoTwo
  <2>3. QED
    BY <2>1, <2>2 DEF NoTwo
<1>5. ASSUME NEW g \in Sent' PROVE ~Same(wq[1], g) /\ ~Same(g, wq[1])
  <2>1. \A f, h : Same(f, h) <=> Same(h, f)
    BY DEF Same
  <2>2. CASE \E n \in Conns : up[n] # None /\ g = up[n]
    BY <1>2, <2>1, <2>2 DEF NoTwo
  <2>3. CASE \E i \in 1..Len(wq') : g = wq'[i]
    <3>1. PICK i \in 1..Len(wq') : g = wq'[i]
      BY <2>3
    <3>2. i + 1 \in 1..Len(wq) /\ g = wq[i + 1] /\ i + 1 # 1
      BY <1>1, <3>1
    <3>3. QED
      BY <1>2, <2>1, <3>2 DEF NoTwo
  <2>4. QED
    BY <2>2, <2>3 DEF Sent
<1>6. QED
  BY <1>1, <1>2, <1>3, <1>4, <1>5

(* What is lost leaves less of them.                                        *)
LEMMA Lost ==
  ASSUME RelayTypes, NoTwo,
         up' = up \/ \E n \in Conns : up' = Taken(n),
         wq' \in {wq, <<>>}
  PROVE  /\ Sent' \subseteq Sent /\ NoTwo'
         /\ up' \in [Conns -> UpFrame \cup {None}] /\ wq' \in Seq(UpFrame)
<1>1. /\ up' \in [Conns -> UpFrame \cup {None}]
      /\ \A n \in Conns : up'[n] # None => up'[n] = up[n]
  BY DEF RelayTypes, Taken
<1>2. /\ wq' \in Seq(UpFrame)
      /\ wq' = wq \/ 1..Len(wq') = {}
  <2>1. CASE wq' = wq
    BY <2>1 DEF RelayTypes
  <2>2. CASE wq' = <<>>
    <3>1. <<>> \in Seq(UpFrame) /\ Len(<<>>) = 0
      BY EmptySeq
    <3>2. QED
      BY <2>2, <3>1
  <2>3. QED
    BY <2>1, <2>2
<1>3. Sent' \subseteq Sent
  BY <1>1, <1>2 DEF Sent
<1>4. NoTwo'
  BY <1>1, <1>2 DEF NoTwo
<1>5. QED
  BY <1>1, <1>2, <1>3, <1>4

(* A session after its handshake.                                           *)
LEMMA FreshSession ==
  ASSUME NEW sid \in Conns
  PROVE  /\ Fresh(sid) \in Sessions /\ Fresh(sid) # None
         /\ Fresh(sid).sid = sid /\ Fresh(sid).send = 0
<1>1. Fresh(sid) = [sid |-> sid, send |-> 0, recv |-> 0, aged |-> FALSE]
  BY DEF Fresh
<1>2. Fresh(sid) \in Sessions
  BY <1>1 DEF Sessions
<1>3. Fresh(sid) # None
  BY <1>2, PeerAssumption DEF PeerAssumption
<1>4. QED
  BY <1>1, <1>2, <1>3

(* The relay moves a frame on.                                              *)
LEMMA Forwarded ==
  ASSUME RelayTypes, NoTwo, NEW n \in Conns, up[n] # None,
         up' = Taken(n), wq' = Append(wq, up[n])
  PROVE  /\ Sent' \subseteq Sent /\ NoTwo'
         /\ up' \in [Conns -> UpFrame \cup {None}] /\ wq' \in Seq(UpFrame)
<1>1. /\ up' \in [Conns -> UpFrame \cup {None}]
      /\ \A m \in Conns : up'[m] # None => up'[m] = up[m] /\ (m # n \/ up'[n] = None)
      /\ \A m \in Conns : m = n => up'[m] = None
      /\ up[n] \in UpFrame /\ up[n] \in Sent
  BY SentFrames DEF RelayTypes, Taken
<1>2. /\ wq' \in Seq(UpFrame) /\ Len(wq) \in Nat /\ Len(wq') = Len(wq) + 1
      /\ \A i \in 1..Len(wq) : wq'[i] = wq[i]
      /\ wq'[Len(wq) + 1] = up[n]
  BY <1>1, AppendProperties, LenProperties DEF RelayTypes
<1>3. \A i \in 1..Len(wq') : i \in 1..Len(wq) \/ i = Len(wq) + 1
  BY <1>2
<1>4. Sent' \subseteq Sent
  <2> SUFFICES ASSUME NEW g \in Sent' PROVE g \in Sent
    OBVIOUS
  <2>1. CASE \E m \in Conns : up'[m] # None /\ g = up'[m]
    BY <1>1, <2>1 DEF Sent
  <2>2. CASE \E i \in 1..Len(wq') : g = wq'[i]
    BY <1>1, <1>2, <1>3, <2>2 DEF Sent
  <2>3. QED
    BY <2>1, <2>2 DEF Sent
<1>5. NoTwo'
  <2>1. \A f, h : Same(f, h) <=> Same(h, f)
    BY DEF Same
  <2>2. \A l, m \in Conns : l # m /\ up'[l] # None /\ up'[m] # None => ~Same(up'[l], up'[m])
    BY <1>1 DEF NoTwo
  <2>3. \A m \in Conns, i \in 1..Len(wq') : up'[m] # None => ~Same(up'[m], wq'[i])
    <3> SUFFICES ASSUME NEW m \in Conns, NEW i \in 1..Len(wq'), up'[m] # None
                 PROVE  ~Same(up'[m], wq'[i])
      OBVIOUS
    <3>1. m # n /\ up'[m] = up[m]
      BY <1>1
    <3>2. QED
      BY <1>2, <1>3, <3>1 DEF NoTwo
  <2>4. \A i, j \in 1..Len(wq') : i # j => ~Same(wq'[i], wq'[j])
    BY <1>2, <1>3, <2>1 DEF NoTwo
  <2>5. QED
    BY <2>2, <2>3, <2>4 DEF NoTwo
<1>6. QED
  BY <1>1, <1>2, <1>4, <1>5

(* The client sends a frame that is like none under way.                    *)
LEMMA PutNew ==
  ASSUME RelayTypes, NoTwo, NEW n \in Conns, NEW f \in UpFrame,
         \A g \in Sent : ~Same(f, g),
         up' = [up EXCEPT ![n] = f], wq' = wq
  PROVE  /\ Sent' \subseteq Sent \cup {f} /\ NoTwo'
         /\ up' \in [Conns -> UpFrame \cup {None}]
<1>1. /\ up' \in [Conns -> UpFrame \cup {None}] /\ up'[n] = f
      /\ \A m \in Conns : m # n => up'[m] = up[m]
  BY DEF RelayTypes
<1>2. Sent' \subseteq Sent \cup {f}
  BY <1>1 DEF Sent
<1>3. \A g \in Sent : ~Same(f, g) /\ ~Same(g, f)
  BY DEF Same
<1>4. NoTwo'
  <2>1. \A l, m \in Conns : l # m /\ up'[l] # None /\ up'[m] # None => ~Same(up'[l], up'[m])
    BY <1>1, <1>3, SentFrames DEF NoTwo
  <2>2. \A m \in Conns, i \in 1..Len(wq) : up'[m] # None => ~Same(up'[m], wq[i])
    BY <1>1, <1>3, SentFrames DEF NoTwo
  <2>3. QED
    BY <2>1, <2>2 DEF NoTwo
<1>5. QED
  BY <1>1, <1>2, <1>4

(* The client reads a frame, or none is left for it.                        *)
LEMMA Read ==
  ASSUME RelayTypes
  PROVE  /\ Rcvd \subseteq DownFrame
         /\ down # <<>> => Head(down) \in Rcvd
         /\ down # <<>> /\ down' = Tail(down) => down' \in Seq(DownFrame) /\ Rcvd' \subseteq Rcvd
         /\ down' = <<>> => down' \in Seq(DownFrame) /\ Rcvd' = {}
<1>1. /\ Len(down) \in Nat /\ down \in Seq(DownFrame)
      /\ \A i \in 1..Len(down) : down[i] \in DownFrame
  BY LenProperties, ElementOfSeq DEF RelayTypes
<1>2. ASSUME down # <<>>
      PROVE  /\ Len(down) >= 1 /\ Head(down) = down[1] /\ Head(down) \in Rcvd
  BY <1>1, <1>2, HeadTailProperties, EmptySeq DEF Rcvd
<1>3. ASSUME down # <<>>, down' = Tail(down)
      PROVE  down' \in Seq(DownFrame) /\ Rcvd' \subseteq Rcvd
  <2>1. /\ down' \in Seq(DownFrame) /\ Len(down') = Len(down) - 1
        /\ \A i \in 1..Len(down') : i + 1 \in 1..Len(down) /\ down'[i] = down[i + 1]
    BY <1>1, <1>2, <1>3, HeadTailProperties
  <2>2. QED
    BY <2>1 DEF Rcvd
<1>4. ASSUME down' = <<>>
      PROVE  down' \in Seq(DownFrame) /\ Rcvd' = {}
  BY <1>4, EmptySeq DEF Rcvd
<1>5. QED
  BY <1>1, <1>2, <1>3, <1>4 DEF Rcvd

(* A frame is added to those, for a client that waits.                      *)
LEMMA Reached ==
  ASSUME RelayTypes, NEW f \in DownFrame, down' \in {down, Reaches(f)}
  PROVE  /\ down' \in Seq(DownFrame) /\ Rcvd' \subseteq Rcvd \cup {f}
         /\ pc \in {"idle", "connect"} => down' = down
<1>1. Len(down) \in Nat /\ down \in Seq(DownFrame)
  BY LenProperties DEF RelayTypes
<1>2. CASE down' = down
  BY <1>1, <1>2 DEF Rcvd
<1>3. CASE down' = Append(down, f) /\ pc \in Waiting \cup {"upload"}
  <2>1. /\ down' \in Seq(DownFrame) /\ Len(down') = Len(down) + 1
        /\ \A i \in 1..Len(down) : down'[i] = down[i]
        /\ down'[Len(down) + 1] = f
    BY <1>1, <1>3, AppendProperties
  <2>2. \A i \in 1..Len(down') : i \in 1..Len(down) \/ i = Len(down) + 1
    BY <1>1, <2>1
  <2>3. Rcvd' \subseteq Rcvd \cup {f}
    BY <2>1, <2>2 DEF Rcvd
  <2>4. QED
    BY <1>3, <2>1, <2>3 DEF Waiting
<1>4. QED
  BY <1>2, <1>3 DEF Reaches

-----------------------------------------------------------------------------
(* Steps of the relay and of the Wisp                                       *)

\* What they change of the Wisp's session: it is used, aged or dropped, and
\* what the client gets is sent under it
SessionKept ==
  /\ \A f \in Rcvd' :
       \/ f \in Rcvd
       \/ /\ f.type # "session_accept"
          /\ f.type = "session_envelope" => wsess # None /\ f.sid = wsess.sid
  /\ wsess' # None =>
       wsess # None /\ wsess'.sid = wsess.sid /\ wsess'.send = sealed'["wisp"][wsess.sid]
  /\ sealed'["android"] = sealed["android"]
  /\ \A s \in Conns :
       sealed'["wisp"][s] = sealed["wisp"][s] \/ (wsess # None /\ s = wsess.sid)

\* Operation o is not started, and its transfer goes on or ends
NotStarted(o) ==
  /\ runs'[o] = runs[o]
  /\ o \in Files =>
       \/ transfer'[o] \in {transfer[o], NoTransfer}
       \/ /\ transfer[o] # NoTransfer
          /\ transfer'[o].pc \in {"created", "receiving"} =>
               transfer[o].pc \in {"created", "receiving"}

\* Operation o is dispatched, by the one frame that asks for it
Dispatched(o) ==
  /\ runs[o] = 0 /\ runs'[o] \in {0, 1}
  /\ o \in Files => runs'[o] = 0
  /\ ~NotSent(o)
  /\ \A g \in Sent' : IsStart(g) => g.op # o

(* A step of the relay or of the Wisp that does not take a new session      *)
(* preserves the invariant.                                                 *)
LEMMA WispStep ==
  ASSUME PeersInv, UNCHANGED <<avars, conn>>,
         RelayTypes', WispTypes',
         Sent' \subseteq Sent, NoTwo',
         pc \in {"idle", "connect"} => down' = down,
         SessionKept,
         \A o \in Mutating : NotStarted(o) \/ Dispatched(o)
  PROVE  PeersInv'
<1> USE DEF avars
<1>1. FramesOK' /\ ClientOK'
  BY DEF PeersInv, FramesOK, ClientTypes, ClientOK
<1>2. /\ \A g : Left(g) => Left(g)'
      /\ \A g : IsInit(g)' = IsInit(g) /\ IsRequest(g)' = IsRequest(g) /\ IsStart(g)' = IsStart(g)
      /\ \A o : NotSent(o)' = NotSent(o) /\ Asked(o)' = Asked(o)
  BY DEF SessionKept, Left, IsInit, IsRequest, IsStart, NotSent, Asked
<1>3. InitsNew'
  <2> SUFFICES ASSUME NEW g \in Sent', IsInit(g)
               PROVE  /\ g.sid <= conn /\ sealed'["wisp"][g.sid] = 0
                      /\ Left(g)' /\ (asess # None => asess.sid # g.sid)
                      /\ \A f \in Rcvd' : f.type = "session_accept" => f.sid # g.sid
                      /\ \A h \in Sent' : IsRequest(h) => h.sid # g.sid
    BY DEF InitsNew, IsInit, IsRequest
  <2>1. /\ g \in Sent /\ g.sid \in Conns
        /\ g.sid <= conn /\ sealed["wisp"][g.sid] = 0
        /\ Left(g) /\ (asess # None => asess.sid # g.sid)
        /\ \A f \in Rcvd : f.type = "session_accept" => f.sid # g.sid
        /\ \A h \in Sent : IsRequest(h) => h.sid # g.sid
    BY SentFrames, UpFrameKinds DEF PeersInv, FramesOK, InitsNew
  <2>2. sealed'["wisp"][g.sid] = 0
    BY <2>1 DEF SessionKept, Left
  <2>3. \A f \in Rcvd' : f.type = "session_accept" => f.sid # g.sid
    BY <2>1 DEF SessionKept
  <2>4. QED
    BY <1>2, <2>1, <2>2, <2>3
<1>4. RequestsAsked'
  BY <1>2 DEF PeersInv, RequestsAsked
<1>5. StartsNew'
  <2> SUFFICES ASSUME NEW g \in Sent', IsStart(g)
               PROVE  /\ runs'[g.op] = 0 /\ (g.op \in Files => transfer'[g.op] = NoTransfer)
                      /\ ~NotSent(g.op)'
                      /\ g.op = op /\ attempt = 2 /\ pc # "connect" => g.sid < conn
    BY DEF StartsNew, IsStart, IsRequest
  <2>1. /\ runs[g.op] = 0 /\ (g.op \in Files => transfer[g.op] = NoTransfer)
        /\ ~NotSent(g.op) /\ g.op \in Mutating
        /\ g.op = op /\ attempt = 2 /\ pc # "connect" => g.sid < conn
    BY DEF PeersInv, StartsNew, IsStart
  <2>2. NotStarted(g.op)
    BY <2>1 DEF Dispatched
  <2>3. QED
    BY <1>2, <2>1, <2>2 DEF NotStarted
<1>6. NotRunYet'
  <2> SUFFICES ASSUME NEW o \in Mutating, NotSent(o)
               PROVE  runs'[o] = 0 /\ (o \in Files => transfer'[o] = NoTransfer)
    BY <1>2 DEF NotRunYet, Mutating
  <2>1. runs[o] = 0 /\ (o \in Files => transfer[o] = NoTransfer)
    BY DEF PeersInv, NotRunYet
  <2>2. QED
    BY <2>1 DEF NotStarted, Dispatched
<1>7. TransfersNew'
  <2> SUFFICES ASSUME NEW f \in Files, transfer'[f].pc \in {"created", "receiving"}
               PROVE  runs'[f] = 0
    BY DEF TransfersNew
  <2>1. CASE NotStarted(f)
    BY <2>1 DEF NotStarted, NoTransfer, PeersInv, TransfersNew
  <2>2. CASE Dispatched(f)
    BY <2>2 DEF Dispatched
  <2>3. QED
    BY <2>1, <2>2 DEF Mutating
<1>8. RunsOnce'
  <2> SUFFICES ASSUME NEW o \in Mutating
               PROVE  runs'[o] <= 1
    BY DEF RunsOnce, Mutating
  <2>1. runs[o] <= 1
    BY DEF PeersInv, RunsOnce, Mutating
  <2>2. QED
    BY <2>1 DEF NotStarted, Dispatched
<1>9. Numbers'
  <2>1. NonceOnce'
    BY DEF PeersInv, Numbers, NonceOnce, SessionKept
  <2>2. \A s \in Conns : s > conn => sealed'["android"][s] = 0 /\ sealed'["wisp"][s] = 0
    <3> SUFFICES ASSUME NEW s \in Conns, s > conn
                 PROVE  sealed'["android"][s] = 0 /\ sealed'["wisp"][s] = 0
      OBVIOUS
    <3>1. /\ sealed["android"][s] = 0 /\ sealed["wisp"][s] = 0
          /\ wsess # None => wsess.sid <= conn /\ wsess.sid \in Conns
      BY DEF PeersInv, Numbers, FramesOK, WispTypes, Sessions
    <3>2. conn \in Nat /\ s \in Nat
      BY DEF PeersInv, FramesOK, RelayTypes, Conns
    <3>3. wsess # None => s # wsess.sid
      BY <3>1, <3>2 DEF Conns
    <3>4. QED
      BY <3>1, <3>3 DEF SessionKept
  <2>3. QED
    BY <2>1, <2>2 DEF PeersInv, Numbers, SessionKept
<1>10. GivenUp'
  <2> SUFFICES ASSUME NEW g \in Sent', IsStart(g),
                      told[g.op] = "expired" \/ (g.op = op /\ LateAnswer')
               PROVE  Left(g)'
    BY DEF GivenUp, IsStart, IsRequest
  <2>1. CASE told[g.op] = "expired" \/ (g.op = op /\ LateAnswer)
    BY <1>2, <2>1 DEF PeersInv, GivenUp
  <2>2. CASE g.op = op /\ LateAnswer' /\ ~LateAnswer
    <3>1. PICK f \in Rcvd' : f \notin Rcvd /\ f.type = "session_envelope" /\ f.sid = conn
      BY <2>2 DEF LateAnswer
    <3>2. pc \notin {"idle", "connect"}
      BY <3>1 DEF Rcvd
    <3>3. attempt = 2 /\ g.sid < conn /\ wsess.sid = conn
      BY <2>2, <3>1, <3>2 DEF LateAnswer, PeersInv, StartsNew, SessionKept
    <3>4. g \in UpFrame /\ g.sid \in Conns /\ conn \in Nat
      BY SentFrames, UpFrameKinds DEF PeersInv, FramesOK, RelayTypes
    <3>5. g.sid # conn
      BY <3>3, <3>4 DEF Conns
    <3>6. QED
      BY <1>2, <3>3, <3>5 DEF Left
  <2>3. QED
    BY <2>1, <2>2
<1>11. QED
  BY <1>1, <1>3, <1>4, <1>5, <1>6, <1>7, <1>8, <1>9, <1>10 DEF PeersInv

(* The Wisp sends under its session, as it is or read once more.            *)
LEMMA SessionSends ==
  ASSUME PeersInv, NEW s, NEW body \in Bodies, NEW o \in Ops,
         s \in Sessions \cup {None},
         s # None => wsess # None /\ s.sid = wsess.sid /\ s.send = wsess.send,
         SendSession(s, body, o)
  PROVE  /\ wsess' \in Sessions \cup {None}
         /\ sealed' \in [{"android", "wisp"} -> [Conns -> Nat]]
         /\ down' \in Seq(DownFrame)
         /\ pc \in {"idle", "connect"} => down' = down
         /\ SessionKept
<1> USE DEF PeersInv, FramesOK
<1>1. /\ sealed \in [{"android", "wisp"} -> [Conns -> Nat]]
      /\ down \in Seq(DownFrame)
      /\ wsess # None => wsess.send = sealed["wisp"][wsess.sid]
  BY DEF RelayTypes, WispTypes, Numbers, NonceOnce
<1>2. CASE Live(s) /\ s \in Sessions
  <2> DEFINE f == [type |-> "session_envelope", sid |-> s.sid, seq |-> s.send,
                   body |-> body, op |-> o]
  <2>1. /\ wsess' = [s EXCEPT !.send = @ + 1]
        /\ down' = ToAndroid(f)
        /\ sealed' = [sealed EXCEPT !["wisp"][s.sid] = @ + 1]
    BY <1>2 DEF SendSession
  <2>2. /\ s.sid \in Conns /\ s.send \in Nat /\ s.recv \in Nat /\ s.aged \in BOOLEAN
        /\ wsess # None /\ s.sid = wsess.sid /\ s.send = wsess.send
    BY <1>2 DEF Live, Sessions
  <2>3. /\ wsess' \in Sessions /\ wsess'.sid = s.sid /\ wsess'.send = s.send + 1
    BY <1>2, <2>1, <2>2 DEF Sessions
  <2>4. f \in DownFrame /\ f.type = "session_envelope" /\ f.sid = wsess.sid
    BY <2>2, DownFrameMade
  <2>5. /\ down' \in Seq(DownFrame) /\ Rcvd' \subseteq Rcvd \cup {f}
        /\ pc \in {"idle", "connect"} => down' = down
    BY <2>1, <2>4, Reached DEF ToAndroid
  <2>6. /\ sealed' \in [{"android", "wisp"} -> [Conns -> Nat]]
        /\ sealed'["android"] = sealed["android"]
        /\ sealed'["wisp"][s.sid] = sealed["wisp"][s.sid] + 1
        /\ \A t \in Conns : t # s.sid => sealed'["wisp"][t] = sealed["wisp"][t]
    BY <1>1, <2>1, <2>2
  <2>7. SessionKept
    BY <1>1, <2>2, <2>3, <2>4, <2>5, <2>6 DEF SessionKept
  <2>8. QED
    BY <2>3, <2>5, <2>6, <2>7
<1>3. CASE ~Live(s)
  <2>1. wsess' = s /\ UNCHANGED <<down, sealed>>
    BY <1>3 DEF SendSession
  <2>2. SessionKept
    BY <1>1, <2>1 DEF SessionKept, Rcvd
  <2>3. QED
    BY <1>1, <2>1, <2>2
<1>4. QED
  BY <1>2, <1>3 DEF Live

(* Nothing is sent, and the session is the same or gone.                    *)
LEMMA SessionUntouched ==
  ASSUME PeersInv, wsess' \in {wsess, None}, UNCHANGED sealed, Rcvd' \subseteq Rcvd
  PROVE  SessionKept
BY DEF SessionKept, PeersInv, Numbers, NonceOnce

(* The relay's steps: what is forwarded was sent, and an answer of its own  *)
(* is neither a handshake's nor a request's.                                *)
LEMMA RelaySteps ==
  ASSUME PeersInv, Relay
  PROVE  PeersInv'
<1>1. RelayTypes /\ NoTwo /\ WispTypes /\ \A o \in Mutating : runs' = runs /\ transfer' = transfer => NotStarted(o)
  BY DEF PeersInv, FramesOK, NotStarted
<1>2. ASSUME NEW n \in Conns, Forward(n)
      PROVE  PeersInv'
  <2>1. /\ up[n] # None /\ up' = Taken(n)
        /\ \/ wlink /\ wq' = Append(wq, up[n]) /\ down' = Reaches(Accepted)
           \/ ~wlink /\ wq' = wq /\ down' = Reaches(Offline)
        /\ UNCHANGED <<avars, conn, route, wlink, wsess, loop, outcome, transfer, runs, sealed>>
    BY <1>2 DEF Forward
  <2>2. /\ Sent' \subseteq Sent /\ NoTwo'
        /\ up' \in [Conns -> UpFrame \cup {None}] /\ wq' \in Seq(UpFrame)
    <3>1. CASE wq' = wq
      BY <1>1, <2>1, <3>1, Lost
    <3>2. CASE wq' = Append(wq, up[n])
      BY <1>1, <2>1, <3>2, Forwarded
    <3>3. QED
      BY <2>1, <3>1, <3>2
  <2>3. PICK f \in {Accepted, Offline} : down' = Reaches(f)
    BY <2>1
  <2>4. f \in DownFrame /\ f.type \in {"accepted", "offline"}
    BY <2>3, DownFrameMade
  <2>5. /\ down' \in Seq(DownFrame) /\ Rcvd' \subseteq Rcvd \cup {f}
        /\ pc \in {"idle", "connect"} => down' = down
    BY <1>1, <2>3, <2>4, Reached
  <2>6. SessionKept
    BY <2>1, <2>4, <2>5 DEF SessionKept, PeersInv, Numbers, NonceOnce
  <2>7. RelayTypes' /\ WispTypes'
    BY <1>1, <2>1, <2>2, <2>5 DEF RelayTypes, WispTypes
  <2>8. QED
    BY <1>1, <2>1, <2>2, <2>5, <2>6, <2>7, WispStep
<1>3. ASSUME NEW n \in Conns, HandlerEnds(n)
      PROVE  PeersInv'
  <2>1. /\ up' = Taken(n) /\ route' \in {0, route}
        /\ UNCHANGED <<avars, conn, down, wvars, sealed>>
    BY <1>3 DEF HandlerEnds
  <2>2. /\ Sent' \subseteq Sent /\ NoTwo'
        /\ up' \in [Conns -> UpFrame \cup {None}] /\ wq' \in Seq(UpFrame)
    BY <1>1, <2>1, Lost DEF wvars
  <2>3. 0 \in 0..conn
    BY <1>1 DEF RelayTypes
  <2>4. RelayTypes' /\ WispTypes'
    BY <1>1, <2>1, <2>2, <2>3 DEF RelayTypes, WispTypes, wvars
  <2>5. SessionKept
    BY <2>1, SessionUntouched DEF Rcvd, wvars
  <2>6. QED
    BY <1>1, <2>1, <2>2, <2>4, <2>5, WispStep DEF wvars
<1>4. QED
  BY <1>2, <1>3 DEF Relay

(* The Wisp's connection comes and goes, the process is started again, its  *)
(* session gets old.                                                        *)
LEMMA LinkSteps ==
  ASSUME PeersInv, WispConnect \/ WispDisconnect \/ WispRestart \/ AgeWisp
  PROVE  PeersInv'
<1>1. RelayTypes /\ NoTwo /\ WispTypes
  BY DEF PeersInv, FramesOK
<1>2. /\ UNCHANGED <<avars, rvars, runs, sealed>>
      /\ wlink' \in BOOLEAN /\ wq' \in {wq, <<>>} /\ (~wlink' => wq' = <<>>)
      /\ loop' \in {loop, None}
      /\ outcome' = outcome \/ outcome' = [o \in Ops |-> "none"]
      /\ transfer' = transfer \/ transfer' = [f \in Files |-> NoTransfer]
  BY <1>1 DEF WispConnect, WispDisconnect, WispRestart, AgeWisp, RelayTypes
<1>3. /\ wsess' \in Sessions \cup {None}
      /\ wsess' # None => wsess # None /\ wsess'.sid = wsess.sid /\ wsess'.send = wsess.send
  <2>1. CASE AgeWisp
    BY <1>1, <2>1 DEF AgeWisp, Live, WispTypes, Sessions
  <2>2. CASE wsess' \in {wsess, None}
    BY <1>1, <2>2 DEF WispTypes
  <2>3. QED
    BY <2>1, <2>2 DEF WispConnect, WispDisconnect, WispRestart
<1>4. SessionKept
  BY <1>2, <1>3 DEF SessionKept, PeersInv, Numbers, NonceOnce, rvars, Rcvd
<1>5. Sent' \subseteq Sent /\ NoTwo' /\ wq' \in Seq(UpFrame)
  BY <1>1, <1>2, Lost DEF rvars
<1>6. RelayTypes' /\ WispTypes'
  <2>1. NoTransfer \in Transfers
    BY DEF NoTransfer, Transfers
  <2>2. transfer' \in [Files -> Transfers]
    BY <1>1, <1>2, <2>1 DEF WispTypes
  <2>3. outcome' \in [Ops -> {"none", "response", "error", "indeterminate"}]
    BY <1>1, <1>2 DEF WispTypes
  <2>4. WispTypes'
    BY <1>1, <1>2, <1>3, <2>2, <2>3 DEF WispTypes
  <2>5. RelayTypes'
    BY <1>1, <1>2, <1>5 DEF RelayTypes, rvars
  <2>6. QED
    BY <2>4, <2>5
<1>7. \A o \in Mutating : NotStarted(o)
  BY <1>2 DEF NotStarted
<1>8. QED
  BY <1>2, <1>4, <1>5, <1>6, <1>7, WispStep DEF rvars

(* The Wisp takes a new session: its handshake was the only one of that     *)
(* number, neither side has used the key, and the requests under way are    *)
(* not of it.                                                               *)
LEMMA HandshakeStep ==
  ASSUME PeersInv, ReadInit
  PROVE  PeersInv'
<1> DEFINE h == Head(wq)
<1>1. /\ RelayTypes /\ NoTwo /\ WispTypes
      /\ wq # <<>> /\ wq' = Tail(wq) /\ IsInit(h)
      /\ wsess' = Fresh(h.sid) /\ down' \in {down, Reaches(AcceptOf(h.sid))}
      /\ UNCHANGED <<avars, conn, up, route, wlink, loop, outcome, transfer, runs, sealed>>
  BY DEF PeersInv, FramesOK, ReadInit, Reading, ToAndroid, IsInit
<1> USE DEF avars
<1>2. /\ h \in Sent /\ h \in UpFrame /\ h.sid \in Conns
      /\ Sent' \subseteq Sent /\ NoTwo' /\ wq' \in Seq(UpFrame)
      /\ \A g \in Sent' : ~Same(h, g)
  BY <1>1, Consumed, UpFrameKinds
<1>3. /\ h.sid <= conn /\ sealed["wisp"][h.sid] = 0
      /\ \A g \in Sent : IsRequest(g) => g.sid # h.sid
  BY <1>1, <1>2 DEF PeersInv, InitsNew
<1>4. wsess' \in Sessions /\ wsess' # None /\ wsess'.sid = h.sid /\ wsess'.send = 0
  BY <1>1, <1>2, FreshSession
<1>5. /\ down' \in Seq(DownFrame)
      /\ \A f \in Rcvd' : f \in Rcvd \/ (f.type = "session_accept" /\ f.sid = h.sid)
      /\ pc \in {"idle", "connect"} => down' = down
  BY <1>1, <1>2, Reached, DownFrameMade
<1>6. FramesOK'
  <2>1. wlink = TRUE
    BY DEF ReadInit, Reading
  <2>2. RelayTypes'
    BY <1>1, <1>2, <1>5, <2>1 DEF RelayTypes
  <2>3. WispTypes'
    BY <1>1, <1>4 DEF WispTypes
  <2>4. ClientTypes'
    BY <1>1 DEF PeersInv, FramesOK, ClientTypes
  <2>5. QED
    BY <2>2, <2>3, <2>4 DEF FramesOK
<1>7. ClientOK'
  BY <1>1, <1>5 DEF PeersInv, ClientOK
<1>8. \A g \in Sent' : /\ g \in Sent
                       /\ g.sid # h.sid \/ (~IsInit(g) /\ ~IsRequest(g))
                       /\ IsInit(g) \/ IsRequest(g) => Left(g)'
  BY <1>1, <1>2, <1>3, <1>4 DEF Same, Left
<1>9. InitsNew'
  <2> SUFFICES ASSUME NEW g \in Sent', IsInit(g)
               PROVE  /\ g.sid <= conn /\ sealed["wisp"][g.sid] = 0
                      /\ Left(g)' /\ (asess # None => asess.sid # g.sid)
                      /\ \A f \in Rcvd' : f.type = "session_accept" => f.sid # g.sid
                      /\ \A r \in Sent' : IsRequest(r) => r.sid # g.sid
    BY <1>1 DEF InitsNew, IsInit, IsRequest
  <2>1. /\ g \in Sent /\ g.sid # h.sid
        /\ g.sid <= conn /\ sealed["wisp"][g.sid] = 0
        /\ asess # None => asess.sid # g.sid
        /\ \A f \in Rcvd : f.type = "session_accept" => f.sid # g.sid
        /\ \A r \in Sent : IsRequest(r) => r.sid # g.sid
    BY <1>2, <1>8 DEF PeersInv, InitsNew
  <2>2. \A f \in Rcvd' : f.type = "session_accept" => f.sid # g.sid
    BY <1>5, <2>1
  <2>3. QED
    BY <1>2, <1>8, <2>1, <2>2
<1>10. RequestsAsked' /\ StartsNew'
  BY <1>1, <1>2 DEF PeersInv, RequestsAsked, StartsNew, Asked, NotSent, IsRequest, IsStart
<1>11. NotRunYet' /\ TransfersNew' /\ RunsOnce'
  BY <1>1 DEF PeersInv, NotRunYet, TransfersNew, RunsOnce, NotSent
<1>12. Numbers'
  BY <1>1, <1>3, <1>4 DEF PeersInv, Numbers, NonceOnce
<1>13. GivenUp'
  BY <1>8 DEF GivenUp, IsStart, IsRequest
<1>14. QED
  BY <1>2, <1>6, <1>7, <1>9, <1>10, <1>11, <1>12, <1>13 DEF PeersInv

(* A request the Wisp cannot open is answered by a reset, or not at all.    *)
LEMMA UnopenedSteps ==
  ASSUME PeersInv, ReadUnknown \/ ReadInvalid
  PROVE  PeersInv'
<1>1. /\ RelayTypes /\ NoTwo /\ WispTypes
      /\ wq # <<>> /\ wq' = Tail(wq) /\ wlink
      /\ wsess' \in {wsess, None} /\ down' \in {down, Reaches(Reset)}
      /\ UNCHANGED <<avars, conn, up, route, wlink, loop, outcome, transfer, runs, sealed>>
  BY DEF PeersInv, FramesOK, ReadUnknown, ReadInvalid, Reading, ToAndroid, rvars
<1>2. Sent' \subseteq Sent /\ NoTwo' /\ wq' \in Seq(UpFrame)
  BY <1>1, Consumed
<1>3. /\ down' \in Seq(DownFrame) /\ Rcvd' \subseteq Rcvd \cup {Reset}
      /\ Reset.type = "session_reset"
      /\ pc \in {"idle", "connect"} => down' = down
  BY <1>1, Reached, DownFrameMade
<1>4. SessionKept
  BY <1>1, <1>3 DEF SessionKept, PeersInv, Numbers, NonceOnce
<1>5. RelayTypes' /\ WispTypes'
  BY <1>1, <1>2, <1>3 DEF RelayTypes, WispTypes
<1>6. QED
  BY <1>1, <1>2, <1>3, <1>4, <1>5, WispStep DEF NotStarted

(* The bodies the Wisp answers with.                                        *)
LEMMA AnswerBodies ==
  ASSUME WispTypes, NEW o \in Ops
  PROVE  StatusOf(o) \in Bodies /\ Repeated(o) \in Bodies
<1>1. outcome[o] \in {"none", "response", "error", "indeterminate"}
  BY DEF WispTypes
<1>2. StatusOf(o) \in Bodies
  <2>1. CASE outcome[o] = "none"
    BY <2>1 DEF StatusOf, Bodies
  <2>2. CASE outcome[o] = "response"
    BY <2>2 DEF StatusOf, Bodies
  <2>3. CASE outcome[o] = "error"
    BY <2>3 DEF StatusOf, Bodies
  <2>4. CASE outcome[o] = "indeterminate"
    BY <2>4 DEF StatusOf, Bodies
  <2>5. QED
    BY <1>1, <2>1, <2>2, <2>3, <2>4
<1>3. Repeated(o) \in Bodies
  BY <1>1 DEF Repeated, Bodies
<1>4. QED
  BY <1>2, <1>3

(* A request the Wisp opens starts its operation only if it is the one that *)
(* asks for it.                                                             *)
LEMMA RequestStep ==
  ASSUME PeersInv, ReadRequest
  PROVE  PeersInv'
<1> DEFINE g == Head(wq)
           o == g.op
           s == [wsess EXCEPT !.recv = @ + 1]
<1>1. /\ RelayTypes /\ NoTwo /\ WispTypes
      /\ wq # <<>> /\ wq' = Tail(wq) /\ wlink /\ IsRequest(g)
      /\ wsess # None /\ Dispatch(g.req, o, s)
      /\ UNCHANGED <<avars, conn, up, route, wlink, outcome>>
  BY DEF PeersInv, FramesOK, ReadRequest, Reading, IsRequest
<1>2. /\ g \in Sent /\ g \in UpFrame
      /\ Sent' \subseteq Sent /\ NoTwo' /\ wq' \in Seq(UpFrame)
      /\ \A h \in Sent' : ~Same(g, h)
  BY <1>1, Consumed
<1>3. o \in Ops /\ g.req \in {"start", "resume"}
  BY <1>1, <1>2, UpFrameKinds
<1>4. /\ s \in Sessions /\ s # None /\ s.sid = wsess.sid /\ s.send = wsess.send
  <2>1. wsess \in Sessions
    BY <1>1 DEF WispTypes
  <2>2. s \in Sessions /\ s.sid = wsess.sid /\ s.send = wsess.send
    BY <2>1 DEF Sessions
  <2>3. QED
    BY <2>2, PeerAssumption DEF PeerAssumption
<1>5. ASSUME g.req = "start", o \in Mutating
      PROVE  /\ runs[o] = 0 /\ ~NotSent(o)
             /\ o \in Files => transfer[o] = NoTransfer
             /\ \A h \in Sent' : IsStart(h) => h.op # o
  BY <1>1, <1>2, <1>5 DEF PeersInv, StartsNew, IsStart, Same
<1>6. /\ wsess' \in Sessions \cup {None}
      /\ sealed' \in [{"android", "wisp"} -> [Conns -> Nat]]
      /\ down' \in Seq(DownFrame)
      /\ pc \in {"idle", "connect"} => down' = down
      /\ SessionKept
  <2>1. CASE \E body \in Bodies : SendSession(s, body, o)
    BY <1>1, <1>3, <1>4, <2>1, SessionSends
  <2>2. CASE wsess' = s /\ UNCHANGED <<down, sealed>>
    <3>1. SessionKept
      BY <1>1, <1>4, <2>2 DEF SessionKept, Rcvd, PeersInv, Numbers, NonceOnce
    <3>2. QED
      BY <1>1, <1>4, <2>2, <3>1 DEF RelayTypes, WispTypes
  <2>3. QED
    <3>1. "ready" \in Bodies /\ "error" \in Bodies /\ StatusOf(o) \in Bodies /\ Repeated(o) \in Bodies
      BY <1>1, <1>3, AnswerBodies DEF Bodies
    <3>2. QED
      BY <1>1, <2>1, <2>2, <3>1 DEF Dispatch
<1>7. /\ \A p \in Mutating : NotStarted(p) \/ Dispatched(p)
      /\ loop' \in States \cup Actions \cup {None}
      /\ transfer' \in [Files -> Transfers]
      /\ runs' \in [Ops -> Nat]
  <2>1. CASE UNCHANGED <<loop, transfer, runs>>
    BY <1>1, <2>1 DEF NotStarted, WispTypes
  <2>2. CASE /\ g.req = "start" /\ o \notin Files
             /\ loop' = o /\ runs' = [runs EXCEPT ![o] = @ + 1] /\ UNCHANGED transfer
    <3>1. o \in States \cup Actions
      BY <1>3, <2>2 DEF Ops
    <3>2. /\ runs' \in [Ops -> Nat] /\ runs'[o] = runs[o] + 1
          /\ \A p \in Ops : p # o => runs'[p] = runs[p]
      BY <1>1, <1>3, <2>2 DEF WispTypes
    <3>3. \A p \in Mutating : p # o => NotStarted(p)
      BY <2>2, <3>2 DEF NotStarted, Mutating, Ops
    <3>4. o \in Mutating => Dispatched(o)
      BY <1>5, <2>2, <3>2 DEF Dispatched
    <3>5. QED
      BY <1>1, <2>2, <3>1, <3>2, <3>3, <3>4 DEF WispTypes
  <2>3. CASE /\ g.req = "start" /\ o \in Files /\ UNCHANGED <<loop, runs>>
             /\ transfer' = [transfer EXCEPT ![o] = [pc |-> "created"]]
    <3>1. [pc |-> "created"] \in Transfers
      BY DEF Transfers
    <3>2. /\ transfer' \in [Files -> Transfers]
          /\ \A p \in Files : p # o => transfer'[p] = transfer[p]
      BY <1>1, <2>3, <3>1 DEF WispTypes
    <3>3. \A p \in Mutating : p # o => NotStarted(p)
      BY <2>3, <3>2 DEF NotStarted
    <3>4. Dispatched(o)
      BY <1>5, <2>3 DEF Dispatched, Mutating
    <3>5. QED
      BY <1>1, <2>3, <3>2, <3>3, <3>4 DEF WispTypes
  <2>4. QED
    BY <1>1, <2>1, <2>2, <2>3 DEF Dispatch
<1>8. RelayTypes' /\ WispTypes'
  BY <1>1, <1>2, <1>6, <1>7 DEF RelayTypes, WispTypes
<1>9. QED
  BY <1>1, <1>2, <1>6, <1>7, <1>8, WispStep

(* The callback of an action or of a state ends.                            *)
LEMMA CallbackSteps ==
  ASSUME PeersInv, CallbackReturns \/ CallbackRaises
  PROVE  PeersInv'
<1>1. /\ RelayTypes /\ NoTwo /\ WispTypes
      /\ loop \in Ops /\ loop' = None
      /\ wlink' \in BOOLEAN /\ wq' \in {wq, <<>>} /\ (~wlink' => wq' = <<>>)
      /\ UNCHANGED <<avars, conn, up, route, transfer, runs>>
  BY DEF PeersInv, FramesOK, CallbackReturns, CallbackRaises, WispTypes, RelayTypes, Ops, rvars
<1>2. outcome' \in [Ops -> {"none", "response", "error", "indeterminate"}]
  BY <1>1 DEF CallbackReturns, CallbackRaises, WispTypes
<1>3. /\ wsess' \in Sessions \cup {None}
      /\ sealed' \in [{"android", "wisp"} -> [Conns -> Nat]]
      /\ down' \in Seq(DownFrame)
      /\ pc \in {"idle", "connect"} => down' = down
      /\ SessionKept
  <2>1. CASE CallbackReturns
    <3>1. "response" \in Bodies /\ SendSession(wsess, "response", loop)
      BY <2>1 DEF Bodies, CallbackReturns
    <3>2. QED
      BY <1>1, <3>1, SessionSends DEF WispTypes
  <2>2. CASE CallbackRaises
    <3>1. UNCHANGED <<wsess, down, sealed>>
      BY <2>2 DEF CallbackRaises, rvars
    <3>2. SessionKept
      BY <3>1, SessionUntouched DEF Rcvd
    <3>3. QED
      BY <1>1, <3>1, <3>2 DEF RelayTypes, WispTypes
  <2>3. QED
    BY <2>1, <2>2
<1>4. Sent' \subseteq Sent /\ NoTwo' /\ wq' \in Seq(UpFrame)
  BY <1>1, Lost
<1>5. RelayTypes' /\ WispTypes'
  BY <1>1, <1>2, <1>3, <1>4 DEF RelayTypes, WispTypes
<1>6. QED
  BY <1>1, <1>3, <1>4, <1>5, WispStep DEF NotStarted

(* The task of a transfer starts to receive, ends, answers.                 *)
LEMMA TaskSteps ==
  ASSUME PeersInv, NEW f \in Files,
         TaskStarts(f) \/ TaskSends(f) \/ \E body \in {"response", "error"} : TaskEnds(f, body)
  PROVE  PeersInv'
<1>1. /\ RelayTypes /\ NoTwo /\ WispTypes /\ f \in Ops
      /\ UNCHANGED <<avars, conn, up, route, wlink, wq, loop, runs>>
  BY DEF PeersInv, FramesOK, TaskStarts, TaskSends, TaskEnds, rvars, Ops
<1>2. outcome' \in [Ops -> {"none", "response", "error", "indeterminate"}]
  BY <1>1 DEF TaskStarts, TaskSends, TaskEnds, WispTypes
<1>3. /\ transfer' \in [Files -> Transfers]
      /\ \A o \in Mutating : NotStarted(o)
  <2>1. PICK t \in Transfers :
          /\ transfer' = [transfer EXCEPT ![f] = t]
          /\ t = NoTransfer \/ (transfer[f].pc # "none" /\
               (t.pc \in {"created", "receiving"} => transfer[f].pc \in {"created", "receiving"}))
    <3>1. CASE TaskStarts(f)
      <4>1. wsess.sid \in Conns
        BY <1>1, <3>1 DEF TaskStarts, WispTypes, Sessions
      <4>2. [pc |-> "receiving", sid |-> wsess.sid] \in Transfers
        BY <4>1 DEF Transfers
      <4>3. QED
        BY <3>1, <4>2 DEF TaskStarts
    <3>2. CASE TaskSends(f)
      BY <3>2 DEF TaskSends, Transfers, NoTransfer
    <3>3. ASSUME NEW body \in {"response", "error"}, TaskEnds(f, body)
          PROVE  \E t \in Transfers :
                   /\ transfer' = [transfer EXCEPT ![f] = t]
                   /\ t = NoTransfer \/ (transfer[f].pc # "none" /\
                        (t.pc \in {"created", "receiving"} => transfer[f].pc \in {"created", "receiving"}))
      <4>1. [pc |-> "sending", body |-> body] \in Transfers
        BY DEF Transfers
      <4>2. QED
        BY <3>3, <4>1 DEF TaskEnds
    <3>4. QED
      BY <3>1, <3>2, <3>3
  <2>2. /\ transfer' \in [Files -> Transfers] /\ transfer'[f] = t
        /\ \A h \in Files : h # f => transfer'[h] = transfer[h]
    BY <1>1, <2>1 DEF WispTypes
  <2>3. transfer[f].pc # "none" => transfer[f] # NoTransfer
    BY DEF NoTransfer
  <2>4. QED
    BY <1>1, <2>1, <2>2, <2>3 DEF NotStarted
<1>4. /\ wsess' \in Sessions \cup {None}
      /\ sealed' \in [{"android", "wisp"} -> [Conns -> Nat]]
      /\ down' \in Seq(DownFrame)
      /\ pc \in {"idle", "connect"} => down' = down
      /\ SessionKept
  <2>1. CASE TaskSends(f)
    <3>1. transfer[f].body \in Bodies /\ SendSession(wsess, transfer[f].body, f)
      BY <1>1, <2>1 DEF TaskSends, WispTypes, Transfers, Bodies
    <3>2. QED
      BY <1>1, <3>1, SessionSends DEF WispTypes
  <2>2. CASE UNCHANGED <<wsess, down, sealed>>
    <3>1. SessionKept
      BY <2>2, SessionUntouched DEF Rcvd
    <3>2. QED
      BY <1>1, <2>2, <3>1 DEF RelayTypes, WispTypes
  <2>3. QED
    BY <2>1, <2>2 DEF TaskStarts, TaskEnds, rvars
<1>5. Sent' \subseteq Sent /\ NoTwo'
  BY <1>1 DEF Sent, NoTwo, PeersInv
<1>6. RelayTypes' /\ WispTypes'
  BY <1>1, <1>2, <1>3, <1>4 DEF RelayTypes, WispTypes
<1>7. QED
  BY <1>1, <1>3, <1>4, <1>5, <1>6, WispStep

-----------------------------------------------------------------------------
(* Steps of the client                                                      *)

\* It goes on with what it has: no session is begun, nothing is asked anew
GoesOn ==
  /\ asess' # None => asess # None /\ asess'.sid = asess.sid /\ asess'.send = asess.send
  /\ \A o \in Ops : Asked(o) => Asked(o)'
  /\ \A o \in Mutating : NotSent(o)' => NotSent(o)
  /\ pc' \in {"init_accept", "init_reply"} => pc \in {"init_accept", "init_reply"}
  /\ op' # None /\ attempt' = 2 /\ pc' # "connect" => op' = op /\ attempt = 2 /\ pc # "connect"
  /\ \A o \in Ops : told'[o] = "expired" => told[o] = "expired" \/ (o = op /\ LateAnswer)

(* A step of the client that sends nothing preserves the invariant.         *)
LEMMA ClientStep ==
  ASSUME PeersInv, ClientTypes', ClientOK', GoesOn,
         down' \in Seq(DownFrame), Rcvd' \subseteq Rcvd,
         UNCHANGED <<conn, up, route, wvars, sealed>>
  PROVE  PeersInv'
<1> USE DEF wvars
<1>1. FramesOK' /\ NoTwo' /\ Sent' = Sent
  BY DEF PeersInv, FramesOK, RelayTypes, WispTypes, NoTwo, Same, IsInit, IsStart, IsRequest, Sent
<1>2. /\ \A g : Left(g)' = Left(g)
      /\ \A g : IsInit(g)' = IsInit(g) /\ IsRequest(g)' = IsRequest(g) /\ IsStart(g)' = IsStart(g)
      /\ \A g \in Sent : IsRequest(g) => g.op \in Ops
  BY SentFrames, UpFrameKinds DEF Left, IsInit, IsRequest, IsStart, PeersInv, FramesOK
<1>3. InitsNew'
  BY <1>1, <1>2 DEF PeersInv, InitsNew, GoesOn
<1>4. RequestsAsked'
  BY <1>1, <1>2 DEF PeersInv, RequestsAsked, GoesOn
<1>5. StartsNew'
  <2> SUFFICES ASSUME NEW g \in Sent, IsStart(g)
               PROVE  /\ runs[g.op] = 0 /\ (g.op \in Files => transfer[g.op] = NoTransfer)
                      /\ ~NotSent(g.op)'
                      /\ g.op = op' /\ attempt' = 2 /\ pc' # "connect" => g.sid < conn
    BY <1>1 DEF StartsNew, IsStart, IsRequest
  <2>1. /\ runs[g.op] = 0 /\ (g.op \in Files => transfer[g.op] = NoTransfer)
        /\ ~NotSent(g.op)
        /\ g.op = op /\ attempt = 2 /\ pc # "connect" => g.sid < conn
        /\ g.op \in Mutating /\ g.op \in Ops
    BY <1>2 DEF PeersInv, StartsNew, IsStart
  <2>2. g.op # None
    BY <2>1, PeerAssumption DEF PeerAssumption
  <2>3. QED
    BY <2>1, <2>2 DEF GoesOn
<1>6. NotRunYet' /\ TransfersNew' /\ RunsOnce'
  BY DEF PeersInv, NotRunYet, TransfersNew, RunsOnce, GoesOn, Mutating
<1>7. Numbers'
  BY DEF PeersInv, Numbers, NonceOnce, GoesOn
<1>8. GivenUp'
  <2> SUFFICES ASSUME NEW g \in Sent, IsStart(g),
                      told'[g.op] = "expired" \/ (g.op = op' /\ LateAnswer')
               PROVE  Left(g)
    BY <1>1, <1>2 DEF GivenUp
  <2>1. g.op \in Ops /\ g.op # None
    BY <1>2, PeerAssumption DEF IsStart, PeerAssumption
  <2>2. CASE told'[g.op] = "expired"
    BY <2>1, <2>2 DEF PeersInv, GivenUp, GoesOn
  <2>3. CASE g.op = op' /\ LateAnswer'
    <3>1. attempt' = 2 /\ \E f \in Rcvd' : f.type = "session_envelope" /\ f.sid = conn
      BY <2>3 DEF LateAnswer
    <3>2. pc' # "connect"
      BY <3>1 DEF ClientOK, Rcvd
    <3>3. op' = op /\ LateAnswer
      BY <2>1, <2>3, <3>1, <3>2 DEF GoesOn, LateAnswer
    <3>4. QED
      BY <2>3, <3>3 DEF PeersInv, GivenUp
  <2>4. QED
    BY <2>2, <2>3
<1>9. QED
  BY <1>1, <1>3, <1>4, <1>5, <1>6, <1>7, <1>8 DEF PeersInv

(* An attempt or the operation ends.                                        *)
LEMMA EndsGoOn ==
  ASSUME PeersInv, op # None,
         \/ Retry
         \/ /\ \E r \in {"answered", "failed", "expired"} :
                 End(r) /\ (r = "expired" => LateAnswer)
            /\ asess' # None => /\ asess # None /\ asess' \in Sessions
                                /\ asess'.sid = asess.sid /\ asess'.send = asess.send
  PROVE  /\ ClientTypes' /\ down' \in Seq(DownFrame) /\ Rcvd' \subseteq Rcvd /\ GoesOn
         /\ UNCHANGED conn => ClientOK'
<1>1. RelayTypes /\ ClientTypes /\ ClientOK
  BY DEF PeersInv, FramesOK
<1>2. CASE Retry
  <2>1. /\ pc' = "connect" /\ attempt = 1 /\ attempt' = 2 /\ asess' = None /\ down' = <<>>
        /\ op' = op /\ told' = told
    BY <1>2 DEF Retry
  <2>2. ClientTypes'
    BY <1>1, <2>1 DEF ClientTypes, Pcs
  <2>3. down' \in Seq(DownFrame) /\ Rcvd' \subseteq Rcvd
    BY <1>1, <2>1, Read
  <2>4. GoesOn
    BY <2>1 DEF GoesOn, NotSent, Asked
  <2>5. UNCHANGED conn => ClientOK'
    BY <1>1, <2>1 DEF ClientOK
  <2>6. QED
    BY <2>2, <2>3, <2>4, <2>5
<1>3. ASSUME NEW r \in {"answered", "failed", "expired"}, End(r), r = "expired" => LateAnswer,
             asess' # None => /\ asess # None /\ asess' \in Sessions
                              /\ asess'.sid = asess.sid /\ asess'.send = asess.send
      PROVE  /\ ClientTypes' /\ down' \in Seq(DownFrame) /\ Rcvd' \subseteq Rcvd /\ GoesOn
             /\ UNCHANGED conn => ClientOK'
  <2>1. /\ pc' = "idle" /\ attempt' = 1 /\ op' = None /\ down' = <<>>
        /\ told' = [told EXCEPT ![op] = r]
    BY <1>3 DEF End
  <2>2. /\ told' \in [Ops -> {"none", "answered", "failed", "expired"}]
        /\ op \in Ops /\ told'[op] = r
        /\ \A o \in Ops : o # op => told'[o] = told[o]
    BY <1>1, <1>3, <2>1 DEF ClientTypes
  <2>3. ClientTypes'
    BY <1>1, <1>3, <2>1, <2>2 DEF ClientTypes, Pcs
  <2>4. down' \in Seq(DownFrame) /\ Rcvd' \subseteq Rcvd
    BY <1>1, <2>1, Read
  <2>5. GoesOn
    BY <1>3, <2>1, <2>2 DEF GoesOn, NotSent, Asked, Mutating, Ops
  <2>6. UNCHANGED conn => ClientOK'
    BY <1>1, <1>3, <2>1 DEF ClientOK
  <2>7. QED
    BY <2>3, <2>4, <2>5, <2>6
<1>4. QED
  BY <1>2, <1>3

(* An operation is begun.                                                   *)
LEMMA BeginStep ==
  ASSUME PeersInv, NEW o \in Ops, Begin(o)
  PROVE  PeersInv'
<1>1. RelayTypes /\ ClientTypes /\ ClientOK
  BY DEF PeersInv, FramesOK
<1>2. /\ pc = "idle" /\ op = None /\ told[o] = "none"
      /\ op' = o /\ pc' = "connect" /\ attempt' = 1
      /\ UNCHANGED <<asess, told, rvars, wvars, sealed>>
  BY <1>1 DEF Begin, ClientTypes
<1>3. ClientTypes'
  BY <1>1, <1>2, PeerAssumption DEF ClientTypes, Pcs, PeerAssumption
<1>4. ClientOK'
  BY <1>1, <1>2 DEF ClientOK, rvars
<1>5. GoesOn
  BY <1>2, PeerAssumption DEF GoesOn, NotSent, Asked, Mutating, Ops, PeerAssumption
<1>6. down' \in Seq(DownFrame) /\ Rcvd' \subseteq Rcvd
  BY <1>1, <1>2 DEF RelayTypes, Rcvd, rvars
<1>7. QED
  BY <1>2, <1>3, <1>4, <1>5, <1>6, ClientStep DEF rvars

(* An attempt fails, and is followed by the second one or by the end.       *)
LEMMA FailureSteps ==
  ASSUME PeersInv, ConnectFails \/ TransportFails \/ UploadFails
  PROVE  PeersInv'
<1>1. /\ Retry \/ (End("failed") /\ UNCHANGED asess)
      /\ UNCHANGED <<conn, up, route, wvars, sealed>>
      /\ op # None /\ asess \in Sessions \cup {None}
  BY DEF ConnectFails, TransportFails, UploadFails, FailRecoverable, Fail, Waiting,
         PeersInv, FramesOK, ClientTypes
<1>2. QED
  BY <1>1, EndsGoOn, ClientStep

(* The process dies with its session, and with it the operation.            *)
LEMMA AndroidRestartStep ==
  ASSUME PeersInv, AndroidRestart
  PROVE  PeersInv'
<1>1. /\ RelayTypes /\ ClientTypes /\ ClientOK
      /\ asess' = None /\ UNCHANGED <<conn, up, route, wvars, sealed>>
  BY DEF PeersInv, FramesOK, AndroidRestart
<1>2. CASE op # None
  <2>1. End("failed")
    BY <1>2 DEF AndroidRestart
  <2>2. QED
    BY <1>1, <1>2, <2>1, EndsGoOn, ClientStep
<1>3. CASE op = None
  <2>1. UNCHANGED <<told, op, pc, attempt, down>>
    BY <1>3 DEF AndroidRestart
  <2>2. pc = "idle"
    BY <1>1, <1>3 DEF ClientTypes
  <2>3. ClientTypes' /\ ClientOK'
    BY <1>1, <2>1, <2>2 DEF ClientTypes, ClientOK
  <2>4. GoesOn
    BY <1>1, <1>3, <2>1 DEF GoesOn, NotSent, Asked
  <2>5. down' \in Seq(DownFrame) /\ Rcvd' \subseteq Rcvd
    BY <1>1, <2>1 DEF RelayTypes, Rcvd
  <2>6. QED
    BY <1>1, <2>3, <2>4, <2>5, ClientStep
<1>4. QED
  BY <1>2, <1>3

(* The client's session gets old.                                           *)
LEMMA AgeAndroidStep ==
  ASSUME PeersInv, AgeAndroid
  PROVE  PeersInv'
<1>1. /\ RelayTypes /\ ClientTypes /\ ClientOK
      /\ asess # None /\ asess' = [asess EXCEPT !.aged = TRUE]
      /\ UNCHANGED <<pc, op, attempt, told, rvars, wvars, sealed>>
  BY DEF PeersInv, FramesOK, AgeAndroid, Live
<1>2. asess' \in Sessions /\ asess'.sid = asess.sid /\ asess'.send = asess.send
  BY <1>1 DEF ClientTypes, Sessions
<1>3. ClientTypes' /\ ClientOK'
  <2>1. asess' # None
    BY <1>2, PeerAssumption DEF PeerAssumption
  <2>2. ClientTypes'
    BY <1>1, <1>2, <2>1 DEF ClientTypes
  <2>3. ClientOK'
    BY <1>1, <1>2 DEF ClientOK, rvars
  <2>4. QED
    BY <2>2, <2>3
<1>4. GoesOn
  BY <1>1, <1>2 DEF GoesOn, NotSent, Asked
<1>5. down' \in Seq(DownFrame) /\ Rcvd' \subseteq Rcvd
  BY <1>1 DEF RelayTypes, Rcvd, rvars
<1>6. QED
  BY <1>1, <1>3, <1>4, <1>5, ClientStep DEF rvars

(* The client reads the relay's acceptance, or anything in its place.       *)
LEMMA ReadAcceptedStep ==
  ASSUME PeersInv, ReadAccepted
  PROVE  PeersInv'
<1>1. /\ RelayTypes /\ ClientTypes /\ ClientOK
      /\ pc \in {"init_accept", "req_accept"} /\ op # None /\ down # <<>>
      /\ UNCHANGED <<conn, up, route, wvars, sealed>>
  BY DEF PeersInv, FramesOK, ReadAccepted, ClientTypes
<1>2. CASE Fail
  BY <1>1, <1>2, EndsGoOn, ClientStep DEF Fail, ClientTypes
<1>3. CASE /\ pc' = IF pc = "init_accept" THEN "init_reply" ELSE "req_reply"
           /\ down' = Tail(down) /\ UNCHANGED <<op, attempt, asess, told>>
  <2>1. down' \in Seq(DownFrame) /\ Rcvd' \subseteq Rcvd
    BY <1>1, <1>3, Read
  <2>2. ClientTypes' /\ ClientOK'
    BY <1>1, <1>3 DEF ClientTypes, ClientOK, Pcs, Waiting
  <2>3. GoesOn
    BY <1>1, <1>3 DEF GoesOn, NotSent, Asked
  <2>4. QED
    BY <1>1, <2>1, <2>2, <2>3, ClientStep
<1>4. QED
  BY <1>2, <1>3 DEF ReadAccepted

(* The client reads an answer: it was told "expired" only in its second     *)
(* attempt, under the session of that attempt.                              *)
LEMMA ReadResponseStep ==
  ASSUME PeersInv, ReadResponse
  PROVE  PeersInv'
<1> DEFINE f == Head(down)
<1>1. /\ RelayTypes /\ ClientTypes /\ ClientOK
      /\ pc \in {"req_reply", "completion"} /\ op # None /\ asess # None /\ down # <<>>
      /\ UNCHANGED <<conn, up, route, wvars, sealed>>
  BY DEF PeersInv, FramesOK, ReadResponse, ClientTypes
<1>2. f \in Rcvd /\ asess \in Sessions
  BY <1>1, Read DEF ClientTypes
<1>3. CASE ~AndroidOpens(f) /\ FailRecoverable
  BY <1>1, <1>2, <1>3, EndsGoOn, ClientStep DEF FailRecoverable, Fail
<1>4. CASE /\ AndroidOpens(f)
           /\ asess' = [asess EXCEPT !.recv = @ + 1]
           /\ \/ pc = "completion" /\ Completed(f)
              \/ pc = "req_reply" /\ RequestOf(op, attempt) = "start" /\ StartAnswered(f)
              \/ pc = "req_reply" /\ RequestOf(op, attempt) = "resume" /\ ResumeAnswered(f)
  <2>1. /\ asess' \in Sessions /\ asess'.sid = asess.sid /\ asess'.send = asess.send
    BY <1>2, <1>4 DEF Sessions
  <2>2. asess' # None
    BY <2>1, PeerAssumption DEF PeerAssumption
  <2>3. RequestOf(op, attempt) = "resume" => LateAnswer
    <3>1. RequestOf(op, attempt) = "resume" => attempt = 2
      BY DEF RequestOf
    <3>2. QED
      BY <1>1, <1>2, <1>4, <3>1 DEF LateAnswer, AndroidOpens, ClientOK
  <2>4. CASE \E r \in {"answered", "failed", "expired"} : End(r) /\ (r = "expired" => LateAnswer)
    BY <1>1, <1>2, <2>1, <2>4, EndsGoOn, ClientStep
  <2>5. CASE \E p \in {"upload", "completion"} : Proceed(p) /\ (p = "upload" => op \in Files)
    <3>1. PICK p \in {"upload", "completion"} : Proceed(p) /\ (p = "upload" => op \in Files)
      BY <2>5
    <3>2. /\ pc' = p /\ down' = Tail(down) /\ UNCHANGED <<op, attempt, told>>
      BY <3>1 DEF Proceed
    <3>3. down' \in Seq(DownFrame) /\ Rcvd' \subseteq Rcvd
      BY <1>1, <3>2, Read
    <3>4. ClientTypes'
      BY <1>1, <2>1, <2>2, <3>2 DEF ClientTypes, Pcs, Waiting
    <3>5. ClientOK'
      BY <1>1, <2>1, <2>2, <3>1, <3>2 DEF ClientOK
    <3>6. GoesOn
      BY <1>1, <2>1, <3>1, <3>2 DEF GoesOn, NotSent, Asked
    <3>7. QED
      BY <1>1, <3>3, <3>4, <3>5, <3>6, ClientStep
  <2>6. QED
    <3>1. CASE pc = "completion"
      BY <1>4, <2>4, <3>1 DEF Completed
    <3>2. CASE RequestOf(op, attempt) = "start" /\ StartAnswered(f)
      BY <2>4, <2>5, <3>2 DEF StartAnswered
    <3>3. CASE RequestOf(op, attempt) = "resume" /\ ResumeAnswered(f)
      BY <2>3, <2>4, <2>5, <3>3 DEF ResumeAnswered
    <3>4. QED
      BY <1>4, <3>1, <3>2, <3>3
<1>5. QED
  BY <1>3, <1>4 DEF ReadResponse

(* The client sends its request on connection n under session s: nothing    *)
(* else starts the operation if the request does, and no handshake of the   *)
(* session is under way.                                                    *)
LEMMA RequestSent ==
  ASSUME PeersInv, NEW n \in Conns, NEW s \in Sessions,
         SendRequest(n, s), pc \in {"connect", "init_reply"},
         conn' = n, conn <= n, s.sid <= n,
         attempt = 2 => s.sid = n /\ conn = n /\ pc = "init_reply",
         s.send = sealed["android"][s.sid],
         \A g \in Sent : IsInit(g) => g.sid # s.sid,
         route' \in 0..n, down' \in Seq(DownFrame), Rcvd' \subseteq Rcvd,
         UNCHANGED <<op, attempt, told, wvars>>
  PROVE  PeersInv'
<1> DEFINE r == [type |-> "session_envelope", sid |-> s.sid, seq |-> s.send,
                 req |-> RequestOf(op, attempt), op |-> op]
<1> USE DEF wvars
<1>1. /\ RelayTypes /\ ClientTypes /\ WispTypes /\ ClientOK /\ NoTwo
      /\ op \in Ops /\ op # None /\ told[op] = "none"
      /\ asess' = [s EXCEPT !.send = @ + 1] /\ up' = [up EXCEPT ![n] = r]
      /\ sealed' = [sealed EXCEPT !["android"][s.sid] = @ + 1] /\ pc' = "req_accept"
  BY DEF PeersInv, FramesOK, ClientTypes, ClientOK, SendRequest
<1>2. s.sid \in Conns /\ s.send \in Nat /\ n \in Nat /\ conn \in Nat /\ n # 0
  BY <1>1 DEF Sessions, Conns, RelayTypes
<1>3. asess' \in Sessions /\ asess'.sid = s.sid /\ asess'.send = s.send + 1
  BY <1>1, <1>2 DEF Sessions
<1>4. asess' # None
  BY <1>3, PeerAssumption DEF PeerAssumption
<1>5. /\ RequestOf(op, attempt) \in {"start", "resume"}
      /\ RequestOf(op, attempt) = "start" /\ op \in Mutating => attempt = 1
  BY <1>1, PeerAssumption DEF RequestOf, ClientTypes, Mutating, PeerAssumption
<1>6. /\ r \in UpFrame /\ IsRequest(r) /\ ~IsInit(r)
      /\ r.sid = s.sid /\ r.op = op
      /\ IsStart(r) => op \in Mutating /\ attempt = 1
  <2>1. /\ r \in UpFrame /\ IsRequest(r) /\ ~IsInit(r)
        /\ r.sid = s.sid /\ r.req = RequestOf(op, attempt) /\ r.op = op
    BY <1>1, <1>2, <1>5, UpFrameMade
  <2>2. QED
    BY <1>5, <2>1 DEF IsStart
<1>7. attempt = 1 => NotSent(op)
  BY <1>1 DEF NotSent
<1>8. \A g \in Sent : ~Same(r, g)
  BY <1>6, <1>7 DEF Same, IsStart, PeersInv, StartsNew
<1>9. /\ Sent' \subseteq Sent \cup {r} /\ NoTwo'
      /\ up' \in [Conns -> UpFrame \cup {None}]
  BY <1>1, <1>6, <1>8, PutNew
<1>10. /\ sealed' \in [{"android", "wisp"} -> [Conns -> Nat]]
       /\ sealed'["wisp"] = sealed["wisp"]
       /\ sealed'["android"][s.sid] = s.send + 1
       /\ \A t \in Conns : t # s.sid => sealed'["android"][t] = sealed["android"][t]
  BY <1>1, <1>2 DEF WispTypes
<1>11. FramesOK'
  <2>1. ClientTypes'
    BY <1>1, <1>3, <1>4 DEF ClientTypes, Pcs, Waiting
  <2>2. RelayTypes'
    <3>1. conn' \in 0..MaxConns
      BY PeerAssumption DEF Conns, PeerAssumption
    <3>2. QED
      BY <1>1, <1>9, <3>1 DEF RelayTypes
  <2>3. WispTypes'
    BY <1>1, <1>10 DEF WispTypes
  <2>4. QED
    BY <2>1, <2>2, <2>3 DEF FramesOK
<1>12. ClientOK'
  BY <1>1, <1>2, <1>3, <1>4 DEF ClientOK
<1>13. /\ \A g : Left(g)' = Left(g)
       /\ \A g : IsInit(g)' = IsInit(g) /\ IsRequest(g)' = IsRequest(g) /\ IsStart(g)' = IsStart(g)
       /\ \A g \in Sent : g.sid \in Conns
       /\ \A o : NotSent(o)' => NotSent(o) /\ o # op
       /\ \A o : o # op => (NotSent(o) => NotSent(o)')
       /\ \A o : Asked(o) => Asked(o)'
       /\ Asked(op)'
  BY <1>1, SentFrames, UpFrameKinds
  DEF Left, IsInit, IsRequest, IsStart, NotSent, Asked
<1>14. InitsNew'
  <2> SUFFICES ASSUME NEW g \in Sent', IsInit(g)
               PROVE  /\ g.sid <= n /\ sealed'["wisp"][g.sid] = 0
                      /\ Left(g) /\ (asess' # None => asess'.sid # g.sid)
                      /\ \A f \in Rcvd' : f.type = "session_accept" => f.sid # g.sid
                      /\ \A h \in Sent' : IsRequest(h) => h.sid # g.sid
    BY <1>13 DEF InitsNew
  <2>1. g \in Sent /\ g.sid # s.sid
    BY <1>6, <1>9
  <2>2. /\ g.sid <= conn /\ sealed["wisp"][g.sid] = 0 /\ Left(g)
        /\ \A f \in Rcvd : f.type = "session_accept" => f.sid # g.sid
        /\ \A h \in Sent : IsRequest(h) => h.sid # g.sid
    BY <2>1 DEF PeersInv, InitsNew
  <2>3. g.sid <= n
    BY <1>2, <1>13, <2>1, <2>2 DEF Conns
  <2>4. \A h \in Sent' : IsRequest(h) => h.sid # g.sid
    BY <1>6, <1>9, <2>1, <2>2
  <2>5. QED
    BY <1>3, <1>10, <2>1, <2>2, <2>3, <2>4
<1>15. RequestsAsked'
  <2> SUFFICES ASSUME NEW g \in Sent', IsRequest(g)
               PROVE  g.sid <= n /\ Asked(g.op)'
    BY <1>13 DEF RequestsAsked
  <2>1. CASE g = r
    BY <1>6, <1>13, <2>1
  <2>2. CASE g \in Sent
    <3>1. g.sid <= conn /\ Asked(g.op) /\ g.sid \in Conns
      BY <1>13, <2>2 DEF PeersInv, RequestsAsked
    <3>2. QED
      BY <1>2, <1>13, <3>1 DEF Conns
  <2>3. QED
    BY <1>9, <2>1, <2>2
<1>16. StartsNew'
  <2> SUFFICES ASSUME NEW g \in Sent', IsStart(g)
               PROVE  /\ runs[g.op] = 0 /\ (g.op \in Files => transfer[g.op] = NoTransfer)
                      /\ ~NotSent(g.op)'
                      /\ g.op = op /\ attempt = 2 => g.sid < n
    BY <1>1, <1>13 DEF StartsNew
  <2>1. CASE g = r
    BY <1>6, <1>7, <1>13, <2>1 DEF PeersInv, NotRunYet
  <2>2. CASE g \in Sent
    <3>1. /\ runs[g.op] = 0 /\ (g.op \in Files => transfer[g.op] = NoTransfer)
          /\ ~NotSent(g.op)
          /\ g.op = op /\ attempt = 2 /\ pc # "connect" => g.sid < conn
      BY <2>2 DEF PeersInv, StartsNew
    <3>2. QED
      BY <1>13, <3>1
  <2>3. QED
    BY <1>9, <2>1, <2>2
<1>17. NotRunYet' /\ TransfersNew' /\ RunsOnce'
  BY <1>13 DEF PeersInv, NotRunYet, TransfersNew, RunsOnce
<1>18. Numbers'
  <2>1. /\ NonceOnce'
        /\ wsess # None => wsess.sid <= conn /\ wsess.sid \in Conns
    BY <1>1, <1>3, <1>10 DEF PeersInv, Numbers, NonceOnce, WispTypes, Sessions
  <2>2. wsess # None => wsess.sid <= n
    BY <1>2, <2>1 DEF Conns
  <2>3. ASSUME NEW t \in Conns, t > n
        PROVE  sealed'["android"][t] = 0 /\ sealed'["wisp"][t] = 0
    <3>1. t > conn /\ t # s.sid
      BY <1>2, <2>3 DEF Conns
    <3>2. QED
      BY <1>10, <3>1 DEF PeersInv, Numbers
  <2>4. QED
    BY <1>1, <2>1, <2>2, <2>3 DEF Numbers
<1>19. GivenUp'
  <2> SUFFICES ASSUME NEW g \in Sent', IsStart(g),
                      told[g.op] = "expired" \/ (g.op = op /\ LateAnswer')
               PROVE  Left(g)
    BY <1>13 DEF GivenUp
  <2>1. LateAnswer' => attempt = 2 /\ LateAnswer
    BY DEF LateAnswer
  <2>2. g \in Sent
    BY <1>1, <1>6, <1>9, <2>1
  <2>3. QED
    BY <2>1, <2>2 DEF PeersInv, GivenUp
<1>20. QED
  BY <1>9, <1>11, <1>12, <1>14, <1>15, <1>16, <1>17, <1>18, <1>19 DEF PeersInv

(* The client connects, and begins a handshake whose number is new or sends *)
(* its request under the session it has.                                    *)
LEMMA ConnectStep ==
  ASSUME PeersInv, Connect
  PROVE  PeersInv'
<1> DEFINE n == conn + 1
           h == InitOf(n)
<1>1. /\ RelayTypes /\ ClientTypes /\ WispTypes /\ ClientOK /\ NoTwo
      /\ pc = "connect" /\ conn < MaxConns /\ op \in Ops /\ told[op] = "none"
      /\ conn' = n /\ route' = n /\ down' = <<>>
      /\ UNCHANGED <<op, attempt, told, wvars>>
  BY DEF PeersInv, FramesOK, Connect, ClientTypes, ClientOK
<1>2. n \in Conns /\ n \in Nat /\ conn \in Nat /\ conn <= n /\ n > conn /\ n # 0 /\ n \in 0..MaxConns
  BY <1>1, PeerAssumption DEF RelayTypes, Conns, PeerAssumption
<1>3. down' \in Seq(DownFrame) /\ Rcvd' = {} /\ route' \in 0..n
  BY <1>1, <1>2, Read
<1>4. CASE Live(asess) /\ SendRequest(n, asess)
  <2>1. /\ asess \in Sessions /\ asess.sid \in Conns /\ asess.sid <= conn
        /\ asess.send = sealed["android"][asess.sid]
        /\ attempt # 2
    BY <1>1, <1>4 DEF Live, ClientTypes, ClientOK, Sessions, PeersInv, Numbers, NonceOnce
  <2>2. asess.sid <= n
    BY <1>2, <2>1 DEF Conns
  <2>3. \A g \in Sent : IsInit(g) => g.sid # asess.sid
    BY <1>4 DEF PeersInv, InitsNew, Live
  <2>4. QED
    BY <1>1, <1>2, <1>3, <1>4, <2>1, <2>2, <2>3, RequestSent
<1>5. CASE /\ asess' = None /\ up' = [up EXCEPT ![n] = h]
           /\ pc' = "init_accept" /\ UNCHANGED sealed
  <2> USE DEF wvars
  <2>1. h \in UpFrame /\ IsInit(h) /\ ~IsRequest(h) /\ h.sid = n
    BY <1>2, UpFrameMade
  <2>2. \A g \in Sent : (IsInit(g) \/ IsRequest(g)) /\ g.sid \in Conns /\ g.sid <= conn
    BY <1>1, SentFrames, UpFrameKinds DEF PeersInv, InitsNew, RequestsAsked
  <2>3. \A g \in Sent : g.sid \in Conns /\ g.sid # n /\ g.sid < n /\ g.sid <= n
    BY <1>2, <2>2 DEF Conns
  <2>4. \A g \in Sent : ~Same(h, g)
    BY <2>1, <2>3 DEF Same, IsStart
  <2>5. /\ Sent' \subseteq Sent \cup {h} /\ NoTwo'
        /\ up' \in [Conns -> UpFrame \cup {None}]
    BY <1>1, <1>2, <1>5, <2>1, <2>4, PutNew
  <2>6. FramesOK' /\ ClientOK'
    <3>1. ClientTypes'
      BY <1>1, <1>5 DEF ClientTypes, Pcs, Waiting
    <3>2. RelayTypes'
      BY <1>1, <1>2, <1>3, <2>5 DEF RelayTypes
    <3>3. WispTypes'
      BY <1>1, <1>5 DEF WispTypes
    <3>4. ClientOK'
      BY <1>1, <1>2, <1>5 DEF ClientOK
    <3>5. QED
      BY <3>1, <3>2, <3>3, <3>4 DEF FramesOK
  <2>7. /\ \A g : Left(g)' = Left(g)
        /\ \A g : IsInit(g)' = IsInit(g) /\ IsRequest(g)' = IsRequest(g) /\ IsStart(g)' = IsStart(g)
        /\ \A o : NotSent(o)' = NotSent(o)
        /\ \A o : Asked(o)' = Asked(o)
    BY <1>1, <1>5 DEF Left, IsInit, IsRequest, IsStart, NotSent, Asked
  <2>8. /\ sealed["android"][n] = 0 /\ sealed["wisp"][n] = 0
        /\ wsess # None => wsess.sid \in Conns /\ wsess.sid <= conn
    BY <1>1, <1>2 DEF PeersInv, Numbers, WispTypes, Sessions
  <2>9. wsess # None => wsess.sid # n /\ wsess.sid <= n
    BY <1>2, <2>8 DEF Conns
  <2>10. InitsNew'
    <3> SUFFICES ASSUME NEW g \in Sent', IsInit(g)
                 PROVE  /\ g.sid <= n /\ sealed["wisp"][g.sid] = 0 /\ Left(g)
                        /\ \A r \in Sent' : IsRequest(r) => r.sid # g.sid
      BY <1>1, <1>3, <1>5, <2>7 DEF InitsNew
    <3>1. CASE g = h
      BY <1>2, <2>1, <2>3, <2>5, <2>8, <2>9, <3>1 DEF Left
    <3>2. CASE g \in Sent
      <4>1. /\ sealed["wisp"][g.sid] = 0 /\ Left(g)
            /\ \A r \in Sent : IsRequest(r) => r.sid # g.sid
        BY <3>2 DEF PeersInv, InitsNew
      <4>2. QED
        BY <2>1, <2>3, <2>5, <3>2, <4>1
    <3>3. QED
      BY <2>5, <3>1, <3>2
  <2>11. RequestsAsked'
    BY <1>1, <2>1, <2>3, <2>5, <2>7 DEF PeersInv, RequestsAsked
  <2>12. StartsNew'
    <3> SUFFICES ASSUME NEW g \in Sent', IsStart(g)
                 PROVE  /\ runs[g.op] = 0 /\ (g.op \in Files => transfer[g.op] = NoTransfer)
                        /\ ~NotSent(g.op) /\ g.sid < n
      BY <1>1, <2>7 DEF StartsNew
    <3>1. g \in Sent
      BY <2>1, <2>5 DEF IsStart
    <3>2. QED
      BY <2>3, <3>1 DEF PeersInv, StartsNew
  <2>13. NotRunYet' /\ TransfersNew' /\ RunsOnce'
    BY <1>1, <2>7 DEF PeersInv, NotRunYet, TransfersNew, RunsOnce
  <2>14. Numbers'
    <3>1. NonceOnce'
      BY <1>1, <1>5 DEF PeersInv, Numbers, NonceOnce
    <3>2. ASSUME NEW t \in Conns, t > n
          PROVE  sealed["android"][t] = 0 /\ sealed["wisp"][t] = 0
      <4>1. t > conn
        BY <1>2, <3>2 DEF Conns
      <4>2. QED
        BY <4>1 DEF PeersInv, Numbers
    <3>3. QED
      BY <1>1, <1>5, <2>8, <2>9, <3>1, <3>2 DEF Numbers
  <2>15. GivenUp'
    <3> SUFFICES ASSUME NEW g \in Sent', IsStart(g), told[g.op] = "expired"
                 PROVE  Left(g)
      BY <1>1, <1>3, <2>7 DEF GivenUp, LateAnswer
    <3>1. g \in Sent
      BY <2>1, <2>5 DEF IsStart
    <3>2. QED
      BY <3>1 DEF PeersInv, GivenUp
  <2>16. QED
    BY <2>5, <2>6, <2>10, <2>11, <2>12, <2>13, <2>14, <2>15 DEF PeersInv
<1>6. QED
  BY <1>1, <1>4, <1>5 DEF Connect

(* The Wisp's acceptance of the handshake is read, and the request sent.    *)
LEMMA ReadAcceptanceStep ==
  ASSUME PeersInv, ReadAcceptance
  PROVE  PeersInv'
<1>1. /\ RelayTypes /\ ClientTypes /\ WispTypes /\ ClientOK
      /\ pc = "init_reply" /\ op # None /\ down # <<>> /\ asess = None
      /\ UNCHANGED <<conn, route, wvars>>
  BY DEF PeersInv, FramesOK, ReadAcceptance, ClientTypes, ClientOK
<1>2. /\ Head(down) \in Rcvd
      /\ down' = Tail(down) => down' \in Seq(DownFrame) /\ Rcvd' \subseteq Rcvd
  BY <1>1, Read
<1>3. CASE down' = Tail(down) /\ UNCHANGED <<avars, up, sealed>>
  <2>1. ClientTypes' /\ ClientOK' /\ GoesOn
    BY <1>1, <1>3 DEF ClientTypes, ClientOK, GoesOn, NotSent, Asked, avars
  <2>2. QED
    BY <1>1, <1>2, <1>3, <2>1, ClientStep
<1>4. CASE /\ Head(down) = AcceptOf(conn) /\ SendRequest(conn, Fresh(conn))
           /\ down' = Tail(down) /\ UNCHANGED <<op, attempt, told>>
  <2>1. conn \in Conns /\ conn \in Nat /\ conn <= conn
    BY <1>1 DEF RelayTypes, ClientOK, Conns
  <2>2. Fresh(conn) \in Sessions /\ Fresh(conn).sid = conn /\ Fresh(conn).send = 0
    BY <2>1, FreshSession
  <2>3. sealed["android"][conn] = 0
    BY <1>1 DEF PeersInv, Numbers
  <2>4. \A g \in Sent : IsInit(g) => g.sid # conn
    BY <1>2, <1>4, <2>1, DownFrameMade DEF PeersInv, InitsNew
  <2>5. route' \in 0..conn
    BY <1>1 DEF RelayTypes
  <2>6. QED
    BY <1>1, <1>2, <1>4, <2>1, <2>2, <2>3, <2>4, <2>5, RequestSent
<1>5. CASE Fail /\ UNCHANGED <<up, sealed>>
  BY <1>1, <1>5, EndsGoOn, ClientStep DEF Fail
<1>6. QED
  BY <1>3, <1>4, <1>5 DEF ReadAcceptance

(* The file is received, and the callback of its action started.            *)
LEMMA UploadStep ==
  ASSUME PeersInv, Upload
  PROVE  PeersInv'
<1>1. /\ RelayTypes /\ ClientTypes /\ WispTypes /\ ClientOK
      /\ pc = "upload" /\ op \in Files /\ op \in Ops /\ op \in Mutating
      /\ transfer[op] = [pc |-> "receiving", sid |-> asess.sid] /\ pc' = "completion"
      /\ transfer' = [transfer EXCEPT ![op] = [pc |-> "callback"]]
      /\ runs' = [runs EXCEPT ![op] = @ + 1]
      /\ UNCHANGED <<op, attempt, asess, told, rvars, wlink, wq, wsess, loop, outcome, sealed>>
  BY DEF PeersInv, FramesOK, ClientOK, Upload, Mutating, Ops
<1> USE DEF rvars
<1>2. runs[op] = 0 /\ transfer[op] # NoTransfer
  BY <1>1 DEF PeersInv, TransfersNew, NoTransfer
<1>3. [pc |-> "callback"] \in Transfers
  BY DEF Transfers
<1>4. /\ transfer' \in [Files -> Transfers] /\ runs' \in [Ops -> Nat]
      /\ transfer'[op].pc = "callback" /\ runs'[op] = 1
      /\ \A f \in Files : f # op => transfer'[f] = transfer[f]
      /\ \A o \in Ops : o # op => runs'[o] = runs[o]
  BY <1>1, <1>2, <1>3 DEF WispTypes
<1>5. FramesOK' /\ ClientOK'
  <2>1. ClientTypes'
    BY <1>1 DEF ClientTypes, Pcs, Waiting
  <2>2. RelayTypes' /\ WispTypes'
    BY <1>1, <1>4 DEF RelayTypes, WispTypes
  <2>3. ClientOK'
    BY <1>1 DEF ClientOK
  <2>4. QED
    BY <2>1, <2>2, <2>3 DEF FramesOK
<1>6. /\ Sent' = Sent /\ Rcvd' = Rcvd /\ NoTwo'
      /\ \A g : Left(g)' = Left(g)
      /\ \A g : IsInit(g)' = IsInit(g) /\ IsRequest(g)' = IsRequest(g) /\ IsStart(g)' = IsStart(g)
      /\ \A o : Asked(o)' = Asked(o)
      /\ \A o : NotSent(o)' => NotSent(o) /\ o # op
      /\ \A o : o # op /\ NotSent(o) => NotSent(o)'
      /\ ~NotSent(op)
  BY <1>1 DEF Sent, Rcvd, PeersInv, NoTwo, Same, Left, IsInit, IsRequest, IsStart, Asked, NotSent
<1>7. InitsNew' /\ RequestsAsked' /\ Numbers'
  BY <1>1, <1>6 DEF PeersInv, InitsNew, RequestsAsked, Numbers, NonceOnce
<1>8. StartsNew'
  <2> SUFFICES ASSUME NEW g \in Sent, IsStart(g)
               PROVE  /\ runs'[g.op] = 0 /\ (g.op \in Files => transfer'[g.op] = NoTransfer)
                      /\ ~NotSent(g.op)'
                      /\ g.op = op /\ attempt = 2 => g.sid < conn
    BY <1>1, <1>6 DEF StartsNew
  <2>1. /\ runs[g.op] = 0 /\ (g.op \in Files => transfer[g.op] = NoTransfer)
        /\ ~NotSent(g.op) /\ g.op \in Mutating
    BY DEF PeersInv, StartsNew, IsStart
  <2>2. g.op # op /\ g.op \in Ops
    BY <1>1, <1>2, <2>1 DEF Mutating, Ops
  <2>3. QED
    BY <1>4, <1>6, <2>1, <2>2
<1>9. NotRunYet'
  <2> SUFFICES ASSUME NEW o \in Mutating, NotSent(o), o # op
               PROVE  runs'[o] = 0 /\ (o \in Files => transfer'[o] = NoTransfer)
    BY <1>6 DEF NotRunYet, Mutating
  <2>1. QED
    BY <1>4 DEF PeersInv, NotRunYet, Mutating, Ops
<1>10. TransfersNew' /\ RunsOnce'
  BY <1>1, <1>4 DEF PeersInv, TransfersNew, RunsOnce, Ops
<1>11. GivenUp'
  BY <1>1, <1>6 DEF PeersInv, GivenUp, LateAnswer
<1>12. QED
  BY <1>5, <1>6, <1>7, <1>8, <1>9, <1>10, <1>11 DEF PeersInv

-----------------------------------------------------------------------------
(* The theorems                                                             *)

(* Initially nothing is under way.                                          *)
LEMMA InitInv == Init => PeersInv
<1> SUFFICES ASSUME Init PROVE PeersInv
  OBVIOUS
<1> USE DEF Init
<1>1. Sent = {} /\ Rcvd = {} /\ Len(wq) = 0
  BY EmptySeq DEF Sent, Rcvd
<1>2. ClientTypes /\ ClientOK
  BY DEF ClientTypes, ClientOK, Pcs
<1>3. RelayTypes
  <2>1. conn \in 0..MaxConns /\ route \in 0..conn
    BY PeerAssumption DEF PeerAssumption
  <2>2. up \in [Conns -> UpFrame \cup {None}]
    OBVIOUS
  <2>3. wq \in Seq(UpFrame) /\ down \in Seq(DownFrame)
    BY EmptySeq
  <2>4. QED
    BY <2>1, <2>2, <2>3 DEF RelayTypes
<1>4. WispTypes
  <2>1. NoTransfer \in Transfers
    BY DEF NoTransfer, Transfers
  <2>2. transfer \in [Files -> Transfers]
    BY <2>1
  <2>3. sealed \in [{"android", "wisp"} -> [Conns -> Nat]]
    OBVIOUS
  <2>4. QED
    BY <2>2, <2>3 DEF WispTypes
<1>5. NoTwo
  <2>1. 1..Len(wq) = {}
    BY <1>1
  <2>2. QED
    BY <2>1 DEF NoTwo
<1>6. InitsNew /\ RequestsAsked /\ StartsNew /\ GivenUp
  BY <1>1 DEF InitsNew, RequestsAsked, StartsNew, GivenUp
<1>7. NotRunYet /\ TransfersNew /\ RunsOnce
  BY DEF NotRunYet, TransfersNew, RunsOnce, NoTransfer, Mutating, Ops
<1>8. Numbers
  BY DEF Numbers, NonceOnce
<1>9. QED
  BY <1>2, <1>3, <1>4, <1>5, <1>6, <1>7, <1>8 DEF PeersInv, FramesOK

(* Every step preserves the invariant.                                      *)
LEMMA StepInv == PeersInv /\ [Next]_vars => PeersInv'
<1> SUFFICES ASSUME PeersInv, [Next]_vars PROVE PeersInv'
  OBVIOUS
<1>1. CASE Android
  BY <1>1, BeginStep, ConnectStep, FailureSteps, AndroidRestartStep, AgeAndroidStep,
     ReadAcceptedStep, ReadAcceptanceStep, ReadResponseStep, UploadStep DEF Android
<1>2. CASE Relay
  BY <1>2, RelaySteps
<1>3. CASE Wisp
  BY <1>3, LinkSteps, HandshakeStep, UnopenedSteps, RequestStep, CallbackSteps, TaskSteps
  DEF Wisp
<1>4. CASE UNCHANGED vars
  <2> USE <1>4 DEF vars, avars, rvars, wvars
  <2>1. /\ FramesOK' /\ ClientOK' /\ Sent' = Sent /\ Rcvd' = Rcvd
        /\ UNCHANGED <<avars, conn, wsess, runs, transfer, sealed>>
    BY DEF PeersInv, FramesOK, ClientTypes, RelayTypes, WispTypes, ClientOK, Sent, Rcvd
  <2>2. SessionKept
    BY <2>1, SessionUntouched
  <2>3. RelayTypes' /\ WispTypes' /\ NoTwo'
    BY <2>1 DEF FramesOK, PeersInv, NoTwo, Same, IsInit, IsStart, IsRequest
  <2>4. QED
    BY <2>1, <2>2, <2>3, WispStep DEF NotStarted
<1>5. QED
  BY <1>1, <1>2, <1>3, <1>4 DEF Next

(* The inductive invariant holds in every reachable state.                  *)
THEOREM Invariance == Spec => []PeersInv
BY InitInv, StepInv, PTL DEF Spec

(* The variables have the types TypeOK names.                               *)
THEOREM TypeCorrect == Spec => []TypeOK
<1>1. PeersInv => TypeOK
  BY DEF PeersInv, FramesOK, ClientTypes, RelayTypes, WispTypes, TypeOK
<1>2. QED
  BY <1>1, Invariance, PTL

(* The callback of an action or file action is started at most once, though *)
(* recoverMutationOnce tries twice and frames of abandoned connections are  *)
(* forwarded late.                                                          *)
THEOREM MutationsRunOnce == Spec => []RunsOnce
<1>1. PeersInv => RunsOnce
  BY DEF PeersInv
<1>2. QED
  BY <1>1, Invariance, PTL

(* The next sequence number of either side was never used under the key of  *)
(* its session (PeerSession.encrypt of both runtimes).                      *)
THEOREM NoncesAreNew == Spec => []NonceOnce
<1>1. PeersInv => NonceOnce
  BY DEF PeersInv, Numbers
<1>2. QED
  BY <1>1, Invariance, PTL

-----------------------------------------------------------------------------
(* The refinement of RemoteOperation                                        *)

(* The end of an operation tells its caller.                                *)
LEMMA EndTells ==
  ASSUME PeersInv, op # None, NEW r \in {"answered", "failed", "expired"}, End(r),
         r = "expired" => op \in Mutating, UNCHANGED runs
  PROVE  Remote!Next
<1>1. /\ op \in Ops /\ told[op] = "none" /\ op' = None
      /\ told' = [told EXCEPT ![op] = r]
      /\ told \in [Ops -> {"none", "answered", "failed", "expired"}]
  BY DEF PeersInv, FramesOK, ClientTypes, ClientOK, End
<1>2. {o \in Ops : o = op' \/ told'[o] # "none"} = {o \in Ops : o = op \/ told[o] # "none"}
  BY <1>1, PeerAssumption DEF PeerAssumption
<1>3. Remote!Tell(op, r)
  BY <1>1, <1>2 DEF Remote!Tell, Mutating
<1>4. QED
  BY <1>1, <1>3 DEF Remote!Next, Remote!Results

(* The start of a callback is one of the abstract specification's.          *)
LEMMA RunStarts ==
  ASSUME PeersInv, NEW o \in Ops, Asked(o),
         o \in Mutating => runs[o] = 0 /\ told[o] # "expired",
         runs' = [runs EXCEPT ![o] = @ + 1], UNCHANGED <<op, told>>
  PROVE  Remote!Next
<1>1. Remote!Start(o)
  BY DEF Remote!Start, Asked, Mutating
<1>2. QED
  BY <1>1 DEF Remote!Next

(* What the client does is to ask, to tell or nothing, and an upload starts *)
(* the callback of an operation that is not over.                           *)
LEMMA ClientMaps ==
  ASSUME PeersInv, Android
  PROVE  Remote!Next \/ UNCHANGED Remote!vars
<1>1. /\ ClientTypes /\ ClientOK
      /\ UNCHANGED <<op, told, runs>> => UNCHANGED Remote!vars
      /\ FailRecoverable => UNCHANGED <<op, told>> \/ End("failed")
      /\ pc # "idle" => op # None
  BY DEF PeersInv, FramesOK, ClientTypes, Remote!vars, FailRecoverable, Fail, Retry
<1>2. ASSUME NEW o \in Ops, Begin(o)
      PROVE  Remote!Next
  <2>1. /\ op = None /\ op' = o /\ told[o] = "none" /\ UNCHANGED <<told, runs>>
    BY <1>1, <1>2 DEF Begin, ClientTypes, wvars
  <2>2. o # None
    BY PeerAssumption DEF PeerAssumption
  <2>3. Remote!Ask(o)
    BY <2>1, <2>2, PeerAssumption DEF Remote!Ask, PeerAssumption
  <2>4. QED
    BY <2>3 DEF Remote!Next
<1>3. CASE Connect \/ AgeAndroid
  BY <1>1, <1>3 DEF Connect, AgeAndroid, wvars
<1>4. CASE ConnectFails \/ TransportFails \/ UploadFails
  BY <1>1, <1>4, EndTells DEF ConnectFails, TransportFails, UploadFails, Fail, Waiting, wvars
<1>5. CASE AndroidRestart
  BY <1>1, <1>5, EndTells DEF AndroidRestart, wvars
<1>6. CASE ReadAccepted \/ ReadAcceptance
  BY <1>1, <1>6, EndTells DEF ReadAccepted, ReadAcceptance, Fail, avars, wvars
<1>7. CASE ReadResponse
  <2>1. /\ op # None /\ op \in Ops /\ UNCHANGED runs
        /\ RequestOf(op, attempt) = "resume" => op \in Mutating
    BY <1>1, <1>7 DEF ReadResponse, RequestOf, ClientTypes, Mutating, Ops, wvars
  <2>2. CASE UNCHANGED <<op, told>> \/ End("answered") \/ End("failed")
    BY <1>1, <2>1, <2>2, EndTells
  <2>3. CASE RequestOf(op, attempt) = "resume" /\ End("expired")
    BY <2>1, <2>3, EndTells
  <2>4. QED
    BY <1>1, <1>7, <2>2, <2>3
    DEF ReadResponse, StartAnswered, ResumeAnswered, Completed, Proceed
<1>8. CASE Upload
  <2>1. /\ op \in Files /\ op \in Ops /\ Asked(op) /\ told[op] = "none" /\ runs[op] = 0
    <3>1. /\ op \in Files /\ told[op] = "none" /\ transfer[op].pc = "receiving"
      BY <1>1, <1>8, PeerAssumption DEF Upload, ClientOK, PeerAssumption, Ops
    <3>2. QED
      BY <3>1 DEF PeersInv, TransfersNew, Asked, Ops
  <2>2. QED
    BY <1>8, <2>1, RunStarts DEF Upload
<1>9. QED
  BY <1>2, <1>3, <1>4, <1>5, <1>6, <1>7, <1>8 DEF Android

(* The Wisp starts a callback for the one request that asks for it, and not *)
(* after its caller was told "expired": the request is of a session it has  *)
(* left by then.                                                            *)
LEMMA WispMaps ==
  ASSUME PeersInv, Relay \/ Wisp
  PROVE  Remote!Next \/ UNCHANGED Remote!vars
<1>1. /\ RelayTypes /\ NoTwo
      /\ UNCHANGED <<op, told, runs>> => UNCHANGED Remote!vars
  BY DEF PeersInv, FramesOK, Remote!vars
<1>2. CASE ReadRequest
  <2> DEFINE g == Head(wq)
  <2>1. /\ wq # <<>> /\ IsRequest(g) /\ wsess # None /\ wsess.sid = g.sid
        /\ wq' = Tail(wq) /\ up' = up /\ UNCHANGED <<op, told>>
    BY <1>2 DEF ReadRequest, Reading, WispOpens, IsRequest, avars
  <2>2. /\ g \in Sent /\ g \in UpFrame /\ g.op \in Ops /\ Asked(g.op)
    BY <1>1, <2>1, Consumed, UpFrameKinds DEF PeersInv, RequestsAsked
  <2>3. g.req = "start" /\ g.op \in Mutating => runs[g.op] = 0 /\ told[g.op] # "expired"
    BY <2>1, <2>2 DEF PeersInv, StartsNew, GivenUp, IsStart, Left
  <2>4. UNCHANGED runs \/ (g.req = "start" /\ runs' = [runs EXCEPT ![g.op] = @ + 1])
    BY <1>2 DEF ReadRequest, Dispatch
  <2>5. QED
    BY <1>1, <2>1, <2>2, <2>3, <2>4, RunStarts
<1>3. CASE UNCHANGED <<avars, runs>>
  BY <1>1, <1>3 DEF avars
<1>4. QED
  BY <1>2, <1>3
  DEF Relay, Forward, HandlerEnds, Wisp, WispConnect, WispDisconnect, WispRestart, AgeWisp,
      ReadInit, ReadUnknown, ReadInvalid, CallbackReturns, CallbackRaises,
      TaskStarts, TaskEnds, TaskSends, wvars

(* The client's operations, over sessions that are lost, late or begun      *)
(* again, implement RemoteOperation.                                        *)
THEOREM PromiseIsKept == Spec => KeepsPromise
<1>1. Init => Remote!Init
  BY PeerAssumption DEF Init, Remote!Init, PeerAssumption
<1>2. PeersInv /\ [Next]_vars => [Remote!Next]_(Remote!vars)
  <2> SUFFICES ASSUME PeersInv, [Next]_vars
               PROVE  Remote!Next \/ UNCHANGED Remote!vars
    OBVIOUS
  <2>1. CASE UNCHANGED vars
    BY <2>1 DEF vars, avars, wvars, Remote!vars
  <2>2. QED
    BY <2>1, ClientMaps, WispMaps DEF Next
<1>3. QED
  BY <1>1, <1>2, Invariance, PTL DEF Spec, KeepsPromise, Remote!Spec

=============================================================================
