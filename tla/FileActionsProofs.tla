------------------------- MODULE FileActionsProofs -------------------------
(***************************************************************************)
(* Proofs about FileActions, for every finite set of transfers and every    *)
(* MAX_ACTIVE_TRANSFERS.                                                    *)
(***************************************************************************)
EXTENDS FileActions, FiniteSetTheorems, SequenceTheorems, TLAPS

-----------------------------------------------------------------------------
(* The inductive invariant.  Files: before the sweep of a process there is  *)
(* no action that could lose its files to it.  Service: the starts that are *)
(* not delivered yet have the last startIds, one after the other, so that   *)
(* stopSelf with the id of a delivered one never ends the service under     *)
(* them; and when a transfer runs, no stop that is still to be made has the *)
(* id it was started with, or a later one.                                  *)

FilesInv ==
  /\ stage \in [Transfers -> Stages]
  /\ dir \subseteq Transfers
  /\ swept \in BOOLEAN /\ selected \in BOOLEAN
  /\ bridge \in {"none", "live", "detached"}
  /\ ~swept => bridge = "none" /\ \A t \in Transfers : stage[t] \in {"none", "over"}
  /\ \A t \in Transfers :
       stage[t] \in {"staging", "finishing", "parting", "queued", "running"} => t \in dir
  /\ NoLitter

Start == [id : Nat, transfer : Transfers]

ServiceInv ==
  /\ service \in BOOLEAN
  /\ lastId \in Nat /\ latest \in Nat
  /\ starts \in Seq(Start)
  /\ active = {t \in Transfers : stage[t] \in {"running", "ended"}}
  /\ stops \subseteq Nat \ {0}
  /\ ~service => lastId = 0 /\ active = {}
  /\ latest + Len(starts) <= lastId
  /\ \A i \in 1..Len(starts) : starts[i].id + Len(starts) = lastId + i
  /\ \A s \in stops : s <= latest
  /\ active # {} => latest # 0 /\ latest \notin stops

\* The actions that have left the stager: no more startIds than these
HandedOver(st) == {t \in Transfers : st[t] \notin {"none", "staging", "finishing", "parting"}}

FileInv ==
  /\ FilesInv
  /\ ServiceInv
  /\ lastId <= Cardinality(HandedOver(stage))

-----------------------------------------------------------------------------
(* Counting, and the parts a step does not touch                            *)

(* Actions leave the stager for good, so there are never fewer of them.     *)
LEMMA HandedOverGrows ==
  ASSUME NEW st, NEW su, HandedOver(st) \subseteq HandedOver(su)
  PROVE  /\ Cardinality(HandedOver(st)) \in Nat /\ Cardinality(HandedOver(su)) \in Nat
         /\ Cardinality(HandedOver(st)) <= Cardinality(HandedOver(su))
<1>1. HandedOver(su) \subseteq Transfers
  BY DEF HandedOver
<1>2. IsFiniteSet(HandedOver(su))
  BY <1>1, FS_Subset, FilesAssumption
<1>3. QED
  BY <1>2, FS_Subset, FS_CardinalityType

(* One more of them makes one more startId possible.                        *)
LEMMA HandedOverOneMore ==
  ASSUME NEW st \in [Transfers -> Stages], NEW t \in Transfers,
         st[t] \in {"finishing", "parting"}
  PROVE  Cardinality(HandedOver([st EXCEPT ![t] = "queued"])) = Cardinality(HandedOver(st)) + 1
<1>1. /\ t \notin HandedOver(st)
      /\ HandedOver([st EXCEPT ![t] = "queued"]) = HandedOver(st) \cup {t}
  BY DEF HandedOver
<1>2. IsFiniteSet(HandedOver(st))
  BY FS_Subset, FilesAssumption DEF HandedOver
<1>3. QED
  BY <1>1, <1>2, FS_AddElement

(* The service does not notice what is staged.                              *)
LEMMA ServiceSame ==
  ASSUME FileInv, UNCHANGED owner,
         \A t \in Transfers : stage'[t] \in {"running", "ended"} <=> stage[t] \in {"running", "ended"},
         HandedOver(stage) \subseteq HandedOver(stage')
  PROVE  ServiceInv' /\ (lastId <= Cardinality(HandedOver(stage)))'
<1>1. ServiceInv'
  BY DEF FileInv, ServiceInv, owner
<1>2. lastId' <= Cardinality(HandedOver(stage'))
  <2>1. lastId' = lastId /\ lastId \in Nat
    BY DEF FileInv, ServiceInv, owner
  <2>2. QED
    BY <2>1, HandedOverGrows DEF FileInv
<1>3. QED
  BY <1>1, <1>2

-----------------------------------------------------------------------------
(* The screen and the stager                                                *)

(* Opening, showing and leaving the screen move no action; the first        *)
(* opening of a process finds none it could take the files of.              *)
LEMMA ScreenInv ==
  ASSUME FileInv, OpenActivity \/ Show \/ Leave
  PROVE  FileInv'
<1>1. UNCHANGED <<stage, owner>>
  BY DEF OpenActivity, Show, Leave
<1>2. ServiceInv' /\ (lastId <= Cardinality(HandedOver(stage)))'
  BY <1>1, ServiceSame
<1>3. FilesInv'
  <2>1. selected' \in BOOLEAN
    BY DEF OpenActivity, Show, Leave, screen, FileInv, FilesInv
  <2>2. CASE OpenActivity /\ ~swept
    <3>1. dir' = {} /\ swept' = TRUE /\ bridge' = bridge /\ stage' = stage
      BY <1>1, <2>2 DEF OpenActivity, screen
    <3>2. \A t \in Transfers : stage[t] \notin {"staging", "finishing", "parting", "queued", "running"}
      BY <2>2 DEF FileInv, FilesInv
    <3>3. QED
      BY <2>1, <3>1, <3>2 DEF FileInv, FilesInv, NoLitter
  <2>3. CASE ~OpenActivity \/ swept
    <3>1. /\ stage' = stage /\ dir' = dir
          /\ swept' = swept /\ (bridge' = bridge \/ (bridge' = "live" /\ swept))
      BY <1>1, <2>3 DEF OpenActivity, Show, Leave, screen, FileInv, FilesInv
    <3>2. QED
      BY <2>1, <3>1 DEF FileInv, FilesInv, NoLitter
  <2>4. QED
    BY <2>2, <2>3
<1>4. QED
  BY <1>2, <1>3 DEF FileInv

(* The end of the page takes the staged actions, with their files, or       *)
(* strands them; those being handed over go on.                             *)
LEMMA PageInv ==
  ASSUME FileInv, Dispose \/ Release
  PROVE  FileInv'
<1> USE DEF FileInv, FilesInv
<1>1. /\ stage' \in [Transfers -> Stages] /\ UNCHANGED owner
      /\ \A t \in Transfers :
           \/ stage'[t] = stage[t]
           \/ stage[t] = "staging" /\ stage'[t] \in {"over", "stranded"}
           \/ stage[t] = "finishing" /\ stage'[t] = "parting"
  BY DEF Dispose, Release, Staging, Stages, Parted
<1>2. ServiceInv' /\ (lastId <= Cardinality(HandedOver(stage)))'
  BY <1>1, ServiceSame DEF HandedOver
<1>3. FilesInv'
  <2>1. CASE Dispose
    <3>1. /\ dir' = {t \in dir : stage[t] # "staging"} /\ swept' = swept /\ swept
          /\ selected' = selected /\ bridge' = "detached"
      BY <2>1 DEF Dispose, Staging
    <3>2. \A t \in Transfers : stage[t] = "staging" => stage'[t] = "over"
      BY <2>1 DEF Dispose, Staging
    <3>3. QED
      BY <1>1, <3>1, <3>2 DEF NoLitter
  <2>2. CASE Release
    <3>1. dir' = dir /\ swept' = swept /\ swept /\ selected' = FALSE /\ bridge' = "none"
      BY <2>2 DEF Release
    <3>2. \A t \in Transfers : stage[t] = "staging" => stage'[t] = "stranded"
      BY <2>2 DEF Release, Parted
    <3>3. QED
      BY <1>1, <3>1, <3>2 DEF NoLitter
  <2>3. QED
    BY <2>1, <2>2
<1>4. QED
  BY <1>2, <1>3

(* The page's calls before finish hands over.                               *)
LEMMA StagerInv ==
  ASSUME FileInv, NEW t \in Transfers, Begin(t) \/ Cancel(t) \/ Finish(t)
  PROVE  FileInv'
<1> USE DEF FileInv, FilesInv, To
<1>1. /\ stage' \in [Transfers -> Stages] /\ UNCHANGED owner
      /\ \A u \in Transfers \ {t} : stage'[u] = stage[u]
      /\ \/ stage[t] = "none" /\ stage'[t] = "staging"
         \/ stage[t] = "staging" /\ stage'[t] \in {"over", "finishing"}
  BY DEF Begin, Cancel, Finish, Stages
<1>2. ServiceInv' /\ (lastId <= Cardinality(HandedOver(stage)))'
  BY <1>1, ServiceSame DEF HandedOver
<1>3. FilesInv'
  BY <1>1 DEF NoLitter, Begin, Cancel, Finish, screen
<1>4. QED
  BY <1>2, <1>3

-----------------------------------------------------------------------------
(* The service                                                              *)

(* A queue that is one shorter numbers what it holds one place lower.       *)
LEMMA OneLess ==
  ASSUME NEW x \in Nat, NEW l \in Nat, NEW n \in Nat, NEW i \in Nat, x + l = n + (i + 1)
  PROVE  x + (l - 1) = n + i
OBVIOUS

\* The starts have the last startIds of n
Numbered(q, n) == \A i \in 1..Len(q) : q[i].id + Len(q) = n + i

(* Starts, and the numbers of starts.                                       *)
LEMMA StartsTyped ==
  ASSUME NEW q \in Seq(Start)
  PROVE  Len(q) \in Nat /\ \A i \in 1..Len(q) : q[i] \in Start /\ q[i].id \in Nat
<1>1. Len(q) \in Nat /\ \A i \in 1..Len(q) : q[i] \in Start
  BY ElementOfSeq, LenProperties
<1>2. \A x \in Start : x.id \in Nat
  BY DEF Start
<1>3. QED
  BY <1>1, <1>2

(* The starts that are left when one is delivered are numbered on.          *)
LEMMA StartTaken ==
  ASSUME NEW q \in Seq(Start), NEW n \in Nat, Numbered(q, n), q # <<>>
  PROVE  /\ Head(q) \in Start /\ Tail(q) \in Seq(Start)
         /\ Head(q).id + Len(q) = n + 1
         /\ Len(Tail(q)) = Len(q) - 1 /\ Len(q) >= 1
         /\ Numbered(Tail(q), n)
<1>1. Len(q) \in Nat /\ \A i \in 1..Len(q) : q[i] \in Start /\ q[i].id \in Nat
  BY StartsTyped
<1>2. /\ Head(q) \in Start /\ Tail(q) \in Seq(Start)
      /\ Len(Tail(q)) = Len(q) - 1
      /\ \A i \in 1..Len(Tail(q)) : Tail(q)[i] = q[i + 1]
  BY HeadTailProperties
<1>3. Len(q) >= 1 /\ Head(q) = q[1]
  BY <1>1, EmptySeq
<1>4. Head(q).id + Len(q) = n + 1
  BY <1>1, <1>3 DEF Numbered
<1>5. ASSUME NEW i \in 1..Len(Tail(q))
      PROVE  Tail(q)[i].id + Len(Tail(q)) = n + i
  <2> DEFINE x == q[i + 1].id
             l == Len(q)
  <2>1. i \in Nat /\ i + 1 \in 1..Len(q) /\ Tail(q)[i].id = x /\ Len(Tail(q)) = l - 1
    BY <1>1, <1>2
  <2>2. x \in Nat /\ l \in Nat
    BY <1>1, <2>1
  <2>3. x + l = n + (i + 1)
    BY <2>1 DEF Numbered
  <2> HIDE DEF x, l
  <2>4. x + (l - 1) = n + i
    BY <2>1, <2>2, <2>3, OneLess
  <2>5. QED
    BY <2>1, <2>4
<1>6. QED
  BY <1>2, <1>3, <1>4, <1>5 DEF Numbered

(* One start more, with the next startId.                                   *)
LEMMA StartAdded ==
  ASSUME NEW q \in Seq(Start), NEW n \in Nat, Numbered(q, n),
         NEW t \in Transfers, NEW p, p = Append(q, [id |-> n + 1, transfer |-> t])
  PROVE  p \in Seq(Start) /\ Len(p) = Len(q) + 1 /\ Numbered(p, n + 1)
<1> DEFINE e == [id |-> n + 1, transfer |-> t]
<1>1. Len(q) \in Nat /\ \A i \in 1..Len(q) : q[i] \in Start /\ q[i].id \in Nat
  BY StartsTyped
<1>2. e \in Start /\ e.id = n + 1
  BY DEF Start
<1>3. p = Append(q, e)
  OBVIOUS
<1> HIDE DEF e
<1>4. /\ p \in Seq(Start) /\ Len(p) = Len(q) + 1
      /\ \A i \in 1..Len(q) : p[i] = q[i]
      /\ p[Len(q) + 1] = e
  BY <1>2, <1>3, AppendProperties
<1>5. ASSUME NEW i \in 1..Len(p)
      PROVE  p[i].id + Len(p) = n + 1 + i
  <2>1. CASE i \in 1..Len(q)
    <3> DEFINE x == q[i].id
               l == Len(q)
    <3>1. p[i].id = x /\ Len(p) = l + 1
      BY <1>4, <2>1
    <3>2. x \in Nat /\ l \in Nat /\ i \in Nat
      BY <1>1, <2>1
    <3>3. x + l = n + i
      BY <2>1 DEF Numbered
    <3> HIDE DEF x, l
    <3>4. x + (l + 1) = n + 1 + i
      BY <3>2, <3>3
    <3>5. QED
      BY <3>1, <3>4
  <2>2. CASE i = Len(q) + 1
    BY <1>1, <1>2, <1>4, <2>2
  <2>3. QED
    BY <1>1, <1>4, <2>1, <2>2
<1>6. QED
  BY <1>4, <1>5 DEF Numbered

(* finish hands its action over: as a start with the next startId, or not   *)
(* at all.                                                                  *)
LEMMA HandOverInv ==
  ASSUME FileInv, NEW t \in Transfers, HandOver(t)
  PROVE  FileInv'
<1> USE DEF FileInv, HandOver, To
<1>1. /\ stage' \in [Transfers -> Stages] /\ stage[t] \in {"finishing", "parting"}
      /\ \A u \in Transfers \ {t} : stage'[u] = stage[u]
      /\ stage'[t] \in {"queued", "over", "stranded"}
  BY DEF FilesInv, Stages
<1>2. FilesInv'
  BY <1>1 DEF FilesInv, NoLitter, screen
<1>3. CASE stage'[t] # "queued"
  <2>1. UNCHANGED owner
    BY <1>1, <1>3 DEF FilesInv, owner
  <2>2. ServiceInv' /\ (lastId <= Cardinality(HandedOver(stage)))'
    BY <1>1, <2>1, ServiceSame DEF HandedOver
  <2>3. QED
    BY <1>2, <2>2
<1>4. CASE stage'[t] = "queued"
  <2>1. /\ lastId' = lastId + 1 /\ service' = TRUE
        /\ starts' = Append(starts, [id |-> lastId + 1, transfer |-> t])
        /\ UNCHANGED <<active, latest, stops>>
        /\ stage' = [stage EXCEPT ![t] = "queued"]
    BY <1>1, <1>4 DEF FilesInv
  <2>2. /\ starts' \in Seq(Start) /\ Len(starts') = Len(starts) + 1
        /\ \A i \in 1..Len(starts') : starts'[i].id + Len(starts') = lastId + 1 + i
        /\ Len(starts) \in Nat
    <3>1. starts \in Seq(Start) /\ lastId \in Nat /\ Len(starts) \in Nat
      BY LenProperties DEF ServiceInv
    <3>2. Numbered(starts, lastId)
      BY DEF ServiceInv, Numbered
    <3> HIDE DEF FileInv, HandOver, To
    <3>3. Len(starts') = Len(starts) + 1 /\ starts' \in Seq(Start) /\ Numbered(starts', lastId + 1)
      BY <2>1, <3>1, <3>2, StartAdded
    <3>4. QED
      BY <3>1, <3>3 DEF Numbered
  <2>3. ServiceInv'
    <3>1. active' = {u \in Transfers : stage'[u] \in {"running", "ended"}}
      BY <1>1, <1>4, <2>1 DEF ServiceInv
    <3>2. /\ lastId \in Nat /\ latest \in Nat /\ latest + Len(starts) <= lastId
          /\ stops \subseteq Nat \ {0} /\ \A x \in stops : x <= latest
          /\ active # {} => latest # 0 /\ latest \notin stops
      BY DEF ServiceInv
    <3> HIDE DEF FileInv, HandOver, To
    <3>3. lastId' \in Nat /\ latest' + Len(starts') <= lastId'
      BY <2>1, <2>2, <3>2
    <3>4. \A i \in 1..Len(starts') : starts'[i].id + Len(starts') = lastId' + i
      BY <2>1, <2>2
    <3>5. QED
      BY <2>1, <2>2, <3>1, <3>2, <3>3, <3>4 DEF ServiceInv
  <2>4. Cardinality(HandedOver(stage')) = Cardinality(HandedOver(stage)) + 1
    BY <1>1, <2>1, HandedOverOneMore DEF FilesInv
  <2>5. lastId' <= Cardinality(HandedOver(stage'))
    BY <2>1, <2>4, HandedOverGrows DEF ServiceInv
  <2>6. QED
    BY <1>2, <2>3, <2>5
<1>5. QED
  BY <1>3, <1>4

(* stopSelf ends the service only where no transfer runs and no start is    *)
(* left: the id it is called with is the last one otherwise.                *)
LEMMA StoppedInv ==
  ASSUME FileInv, NEW q, NEW id \in Nat \ {0}, Stopped(id), UNCHANGED <<stage, active>>,
         starts' = q, q \in Seq(Start), Len(q) + latest <= lastId,
         \A i \in 1..Len(q) : q[i].id + Len(q) = lastId + i,
         id = lastId => q = <<>> /\ active = {}
  PROVE  ServiceInv' /\ (lastId <= Cardinality(HandedOver(stage)))'
<1> USE DEF FileInv, Stopped
<1>1. Cardinality(HandedOver(stage)) \in Nat
  BY HandedOverGrows
<1>2. CASE id = lastId
  <2>1. /\ service' = FALSE /\ lastId' = 0 /\ latest' = 0 /\ stops' = {}
        /\ starts' = <<>> /\ active' = {} /\ active = {}
    BY <1>2
  <2>2. starts' \in Seq(Start) /\ Len(starts') = 0 /\ \A i \in 1..Len(starts') : FALSE
    BY <2>1, EmptySeq
  <2>3. active' = {t \in Transfers : stage'[t] \in {"running", "ended"}}
    BY DEF ServiceInv
  <2>4. latest' + Len(starts') <= lastId' /\ lastId' \in Nat /\ latest' \in Nat
    BY <2>1, <2>2
  <2>5. \A i \in 1..Len(starts') : starts'[i].id + Len(starts') = lastId' + i
    BY <2>2
  <2>6. ServiceInv'
    BY <2>1, <2>2, <2>3, <2>4, <2>5, Zenon DEF ServiceInv
  <2>7. QED
    BY <1>1, <2>1, <2>6
<1>3. CASE id # lastId
  <2>1. UNCHANGED <<service, lastId, latest>> /\ stops' = stops \ {id}
    BY <1>3
  <2>2. Len(q) \in Nat
    BY LenProperties
  <2>3. QED
    BY <1>1, <2>1, <2>2 DEF ServiceInv
<1>4. QED
  BY <1>2, <1>3

(* onStartCommand: a start that still has its job runs it, with a later     *)
(* startId than any transfer before it; one without is stopped, unless      *)
(* another transfer runs.                                                   *)
LEMMA OnStartCommandInv ==
  ASSUME FileInv, OnStartCommand
  PROVE  FileInv'
<1> DEFINE t == Head(starts).transfer
           id == Head(starts).id
<1>1. /\ starts # <<>> /\ starts' = Tail(starts)
      /\ starts \in Seq(Start) /\ lastId \in Nat /\ latest \in Nat
      /\ latest + Len(starts) <= lastId
      /\ Len(starts) \in Nat
  BY LenProperties DEF OnStartCommand, FileInv, ServiceInv
<1>2. /\ Head(starts) \in Start /\ Tail(starts) \in Seq(Start)
      /\ id + Len(starts) = lastId + 1
      /\ Len(Tail(starts)) = Len(starts) - 1 /\ Len(starts) >= 1
      /\ \A i \in 1..Len(Tail(starts)) : Tail(starts)[i].id + Len(Tail(starts)) = lastId + i
  <2>1. Numbered(starts, lastId)
    BY DEF FileInv, ServiceInv, Numbered
  <2>2. Numbered(Tail(starts), lastId) /\ Len(Tail(starts)) = Len(starts) - 1 /\ Len(starts) >= 1
    BY <1>1, <2>1, StartTaken
  <2>3. /\ Head(starts) \in Start /\ Tail(starts) \in Seq(Start)
        /\ Head(starts).id + Len(starts) = lastId + 1
    BY <1>1, <2>1, StartTaken
  <2>4. QED
    BY <2>2, <2>3 DEF Numbered
<1>3. t \in Transfers /\ id \in Nat
  BY <1>2 DEF Start
<1> HIDE DEF t, id
<1>4. /\ id > latest /\ id + Len(Tail(starts)) = lastId
      /\ lastId # 0 /\ id \in Nat \ {0}
      /\ latest + Len(Tail(starts)) <= lastId
  BY <1>1, <1>2, <1>3
<1>5. service
  BY <1>4 DEF FileInv, ServiceInv
<1>6. UNCHANGED <<dir, swept, selected, bridge>>
  BY DEF OnStartCommand, screen
<1>7. CASE stage[t] = "queued"
  <2>1. /\ stage' = [stage EXCEPT ![t] = "running"] /\ active' = active \cup {t}
        /\ latest' = id /\ UNCHANGED <<service, lastId, stops>>
    BY <1>4, <1>7 DEF OnStartCommand, To, Started, t, id
  <2>2. FilesInv'
    BY <1>3, <1>6, <1>7, <2>1 DEF FileInv, FilesInv, NoLitter, Stages
  <2>3. stage \in [Transfers -> Stages]
    BY DEF FileInv, FilesInv
  <2>4. /\ active' = {u \in Transfers : stage'[u] \in {"running", "ended"}}
        /\ active' # {}
    BY <1>3, <2>1, <2>3 DEF FileInv, ServiceInv
  <2>5. /\ latest' \in Nat /\ latest' # 0
        /\ stops' \subseteq Nat \ {0}
        /\ \A s \in stops' : s <= latest'
        /\ latest' \notin stops'
    BY <1>1, <1>3, <1>4, <2>1 DEF FileInv, ServiceInv
  <2>6. /\ latest' + Len(starts') <= lastId'
        /\ \A i \in 1..Len(starts') : starts'[i].id + Len(starts') = lastId' + i
        /\ starts' \in Seq(Start) /\ lastId' \in Nat
    BY <1>1, <1>2, <1>4, <2>1
  <2>7. service' /\ service' \in BOOLEAN
    BY <1>5, <2>1 DEF FileInv, ServiceInv
  <2>8. ServiceInv'
    BY <2>4, <2>5, <2>6, <2>7, Zenon DEF ServiceInv
  <2>9. HandedOver(stage) \subseteq HandedOver(stage')
    BY <1>3, <2>1, <2>3 DEF HandedOver
  <2>10. lastId' <= Cardinality(HandedOver(stage'))
    <3>1. lastId' = lastId /\ lastId \in Nat /\ lastId <= Cardinality(HandedOver(stage))
      BY <1>1, <2>1 DEF FileInv
    <3>2. QED
      BY <2>9, <3>1, HandedOverGrows
  <2>11. QED
    BY <2>2, <2>8, <2>10 DEF FileInv
<1>8. CASE stage[t] # "queued"
  <2>1. /\ UNCHANGED <<stage, active>>
        /\ active = {} => Stopped(id)
        /\ active # {} => UNCHANGED <<service, lastId, latest, stops>>
    BY <1>8 DEF OnStartCommand, t, id
  <2>2. FilesInv'
    BY <1>6, <2>1 DEF FileInv, FilesInv, NoLitter
  <2>3. ServiceInv' /\ (lastId <= Cardinality(HandedOver(stage)))'
    <3>1. CASE active = {}
      <4>1. id = lastId => Tail(starts) = <<>>
        BY <1>2, <1>3, <1>4, EmptySeq
      <4>2. Len(Tail(starts)) + latest <= lastId
        BY <1>1, <1>2, <1>4
      <4>3. QED
        BY <1>1, <1>2, <1>4, <2>1, <3>1, <4>1, <4>2, StoppedInv
    <3>2. CASE active # {}
      BY <1>1, <1>2, <1>4, <2>1, <3>2 DEF FileInv, ServiceInv
    <3>3. QED
      BY <3>1, <3>2
  <2>4. QED
    BY <2>2, <2>3 DEF FileInv
<1>9. QED
  BY <1>7, <1>8

(* A transfer's coroutine: its files go before its place among the active   *)
(* ones, and the last one out takes the latest startId with it.             *)
LEMMA TransferInv ==
  ASSUME FileInv, NEW t \in Transfers, Clean(t) \/ Finished(t)
  PROVE  FileInv'
<1>1. /\ stage \in [Transfers -> Stages] /\ stage' \in [Transfers -> Stages]
      /\ \A u \in Transfers \ {t} : stage'[u] = stage[u]
      /\ \/ stage[t] = "running" /\ stage'[t] = "ended" /\ dir' = dir \ {t}
         \/ stage[t] = "ended" /\ stage'[t] = "over" /\ dir' = dir
      /\ UNCHANGED <<swept, selected, bridge>>
  BY DEF FileInv, FilesInv, Clean, Finished, To, Stages, screen
<1>2. FilesInv'
  BY <1>1 DEF FileInv, FilesInv, NoLitter
<1>3. HandedOver(stage) \subseteq HandedOver(stage')
  BY <1>1 DEF HandedOver
<1>4. CASE Clean(t)
  <2>1. stage[t] = "running" /\ stage'[t] = "ended" /\ UNCHANGED owner
    BY <1>1, <1>4 DEF Clean, To
  <2>2. QED
    BY <1>1, <1>2, <1>3, <2>1, ServiceSame DEF FileInv
<1>5. CASE Finished(t)
  <2>1. /\ stage[t] = "ended" /\ stage'[t] = "over"
        /\ active' = active \ {t} /\ UNCHANGED <<service, lastId, starts, latest>>
        /\ stops' = IF active' = {} THEN stops \cup {latest} ELSE stops
    BY <1>1, <1>5 DEF Finished, To
  <2>2. /\ t \in active /\ latest # 0 /\ latest \in Nat /\ latest \notin stops
        /\ stops \subseteq Nat \ {0} /\ \A s \in stops : s <= latest
    BY <2>1 DEF FileInv, ServiceInv
  <2>3. active' = {u \in Transfers : stage'[u] \in {"running", "ended"}}
    BY <1>1, <2>1 DEF FileInv, ServiceInv
  <2>4. /\ stops' \subseteq Nat \ {0}
        /\ \A s \in stops' : s <= latest'
        /\ active' # {} => latest' # 0 /\ latest' \notin stops'
    <3>1. latest' = latest
      BY <2>1
    <3>2. CASE active' = {}
      BY <2>1, <2>2, <3>1, <3>2
    <3>3. CASE active' # {}
      BY <2>1, <2>2, <3>1, <3>3
    <3>4. QED
      BY <3>2, <3>3
  <2>5. ServiceInv'
    BY <2>1, <2>3, <2>4 DEF FileInv, ServiceInv
  <2>6. lastId' <= Cardinality(HandedOver(stage'))
    <3>1. lastId' = lastId /\ lastId \in Nat
      BY <2>1 DEF FileInv, ServiceInv
    <3>2. QED
      BY <1>3, <3>1, HandedOverGrows DEF FileInv
  <2>7. QED
    BY <1>2, <2>5, <2>6 DEF FileInv
<1>6. QED
  BY <1>4, <1>5

(* stopSelf, after the last transfer: a later start has a later startId.    *)
LEMMA StopSelfInv ==
  ASSUME FileInv, NEW id \in stops, StopSelf(id)
  PROVE  FileInv'
<1>1. Stopped(id) /\ UNCHANGED <<stage, dir, swept, selected, bridge, starts, active>>
  BY DEF StopSelf, screen
<1>2. FilesInv'
  BY <1>1 DEF FileInv, FilesInv, NoLitter
<1>3. /\ id \in Nat \ {0} /\ id <= latest /\ latest \in Nat /\ lastId \in Nat
      /\ starts \in Seq(Start) /\ Len(starts) \in Nat
      /\ latest + Len(starts) <= lastId
  BY LenProperties DEF FileInv, ServiceInv
<1>4. ASSUME id = lastId
      PROVE  starts = <<>> /\ active = {}
  <2>1. Len(starts) = 0 /\ latest = id
    BY <1>3, <1>4
  <2>2. active = {}
    BY <2>1 DEF FileInv, ServiceInv
  <2>3. QED
    BY <1>3, <2>1, <2>2, EmptySeq
<1>5. \A i \in 1..Len(starts) : starts[i].id + Len(starts) = lastId + i
  BY DEF FileInv, ServiceInv
<1>6. Len(starts) + latest <= lastId
  BY <1>3
<1>7. QED
  BY <1>1, <1>2, <1>3, <1>4, <1>5, <1>6, StoppedInv DEF FileInv

(* The process is killed: only the directories and the system's starts are  *)
(* left of it.                                                              *)
LEMMA KillInv ==
  ASSUME FileInv, Kill
  PROVE  FileInv'
<1>1. /\ stage \in [Transfers -> Stages] /\ stage' \in [Transfers -> Stages]
      /\ \A t \in Transfers : stage'[t] \in {"none", "over"}
      /\ \A t \in Transfers : stage[t] # "none" => stage'[t] = "over"
  BY DEF FileInv, FilesInv, Kill, Stages
<1>2. FilesInv'
  BY <1>1 DEF FileInv, FilesInv, Kill, NoLitter
<1>3. /\ active' = {} /\ latest' = 0 /\ stops' = {} /\ starts' = starts
      /\ starts = <<>> => service' = FALSE /\ lastId' = 0
      /\ starts # <<>> => UNCHANGED <<service, lastId>>
  BY DEF Kill
<1>4. /\ starts \in Seq(Start) /\ Len(starts) \in Nat
      /\ starts = <<>> => Len(starts) = 0
      /\ lastId \in Nat /\ latest \in Nat /\ latest + Len(starts) <= lastId
  BY LenProperties, EmptySeq DEF FileInv, ServiceInv
<1>5. /\ active' = {t \in Transfers : stage'[t] \in {"running", "ended"}}
  BY <1>1, <1>3
<1>6. lastId' \in Nat /\ lastId' <= lastId /\ latest' + Len(starts') <= lastId'
  BY <1>3, <1>4
<1>7. \A i \in 1..Len(starts') : starts'[i].id + Len(starts') = lastId' + i
  BY <1>3, <1>4 DEF FileInv, ServiceInv
<1>8. service' \in BOOLEAN /\ (~service' => lastId' = 0)
  <2>1. service \in BOOLEAN /\ (~service => lastId = 0)
    BY DEF FileInv, ServiceInv
  <2>2. CASE starts = <<>>
    BY <1>3, <2>2
  <2>3. CASE starts # <<>>
    BY <1>3, <2>1, <2>3
  <2>4. QED
    BY <2>2, <2>3
<1>9. ServiceInv'
  <2>1. starts' \in Seq(Start) /\ latest' \in Nat
    BY <1>3, <1>4
  <2>2. stops' \subseteq Nat \ {0} /\ \A x \in stops' : x <= latest'
    BY <1>3
  <2>3. QED
    BY <1>3, <1>5, <1>6, <1>7, <1>8, <2>1, <2>2, Zenon DEF ServiceInv
<1>10. HandedOver(stage) \subseteq HandedOver(stage')
  BY <1>1 DEF HandedOver
<1>11. lastId' <= Cardinality(HandedOver(stage'))
  BY <1>4, <1>6, <1>10, HandedOverGrows DEF FileInv
<1>12. QED
  BY <1>2, <1>9, <1>11 DEF FileInv

-----------------------------------------------------------------------------
(* The theorems                                                             *)

(* Nothing is staged, and no service runs, in the beginning.                *)
LEMMA InitInv == Init => FileInv
<1> SUFFICES ASSUME Init PROVE FileInv
  OBVIOUS
<1>1. FilesInv
  BY DEF Init, FilesInv, NoLitter, Stages
<1>2. starts \in Seq(Start) /\ Len(starts) = 0
  BY EmptySeq DEF Init
<1>3. ServiceInv
  <2>1. /\ active = {t \in Transfers : stage[t] \in {"running", "ended"}}
        /\ stops = {} /\ active = {} /\ service = FALSE /\ lastId = 0 /\ latest = 0
    BY DEF Init
  <2>2. latest + Len(starts) <= lastId
    BY <1>2, <2>1
  <2>3. \A i \in 1..Len(starts) : starts[i].id + Len(starts) = lastId + i
    BY <1>2
  <2>4. QED
    BY <1>2, <2>1, <2>2, <2>3 DEF ServiceInv
<1>4. lastId <= Cardinality(HandedOver(stage))
  <2>1. Cardinality(HandedOver(stage)) \in Nat
    BY HandedOverGrows
  <2>2. QED
    BY <2>1 DEF Init
<1>5. QED
  BY <1>1, <1>3, <1>4 DEF FileInv

(* Every step keeps the invariant.                                          *)
LEMMA StepInv == FileInv /\ [Next]_vars => FileInv'
<1> SUFFICES ASSUME FileInv, [Next]_vars PROVE FileInv'
  OBVIOUS
<1>1. CASE OpenActivity \/ Show \/ Leave
  BY <1>1, ScreenInv
<1>2. CASE Dispose \/ Release
  BY <1>2, PageInv
<1>3. ASSUME NEW t \in Transfers, Begin(t) \/ Cancel(t) \/ Finish(t)
      PROVE  FileInv'
  BY <1>3, StagerInv
<1>4. ASSUME NEW t \in Transfers, HandOver(t)
      PROVE  FileInv'
  BY <1>4, HandOverInv
<1>5. CASE OnStartCommand
  BY <1>5, OnStartCommandInv
<1>6. ASSUME NEW t \in Transfers, Clean(t) \/ Finished(t)
      PROVE  FileInv'
  BY <1>6, TransferInv
<1>7. ASSUME NEW id \in stops, StopSelf(id)
      PROVE  FileInv'
  BY <1>7, StopSelfInv
<1>8. CASE Kill
  BY <1>8, KillInv
<1>9. CASE UNCHANGED vars
  <2>1. /\ UNCHANGED <<stage, dir, swept, selected, bridge>>
        /\ UNCHANGED owner
    BY <1>9 DEF vars, screen
  <2>2. FilesInv'
    BY <2>1 DEF FileInv, FilesInv, NoLitter
  <2>3. ServiceInv' /\ (lastId <= Cardinality(HandedOver(stage)))'
    BY <2>1, ServiceSame
  <2>4. QED
    BY <2>2, <2>3 DEF FileInv
<1>10. QED
  BY <1>1, <1>2, <1>3, <1>4, <1>5, <1>6, <1>7, <1>8, <1>9 DEF Next

(* FileInv holds in every state of FileActions.                             *)
THEOREM Invariance == Spec => []FileInv
<1>1. QED
  BY InitInv, StepInv, PTL DEF Spec

(* Every variable keeps its type: among others, no start has a startId the  *)
(* system has not given, and neither has a call of stopSelf.                *)
THEOREM TypeCorrect == Spec => []TypeOK
<1>1. FileInv => TypeOK
  <2> SUFFICES ASSUME FileInv PROVE TypeOK
    OBVIOUS
  <2>1. /\ IsFiniteSet(Transfers) /\ HandedOver(stage) \subseteq Transfers
        /\ lastId \in Nat /\ latest \in Nat /\ starts \in Seq(Start) /\ Len(starts) \in Nat
        /\ latest + Len(starts) <= lastId
    BY FilesAssumption, LenProperties DEF HandedOver, FileInv, ServiceInv
  <2>2. lastId \in 0..Cardinality(Transfers) /\ latest \in 0..lastId
    <3>1. /\ Cardinality(Transfers) \in Nat /\ Cardinality(HandedOver(stage)) \in Nat
          /\ Cardinality(HandedOver(stage)) <= Cardinality(Transfers)
      BY <2>1, FS_Subset, FS_CardinalityType
    <3>2. lastId <= Cardinality(HandedOver(stage))
      BY DEF FileInv
    <3>3. QED
      BY <2>1, <3>1, <3>2
  <2>3. \A i \in 1..Len(starts) : starts[i] \in [id : 1..lastId, transfer : Transfers]
    <3> SUFFICES ASSUME NEW i \in 1..Len(starts)
                 PROVE  starts[i] \in [id : 1..lastId, transfer : Transfers]
      OBVIOUS
    <3>1. starts[i] \in Start
      BY <2>1, ElementOfSeq
    <3> DEFINE x == starts[i].id
    <3>2. x \in Nat /\ x + Len(starts) = lastId + i
      BY <3>1 DEF Start, FileInv, ServiceInv
    <3> HIDE DEF x
    <3>3. x \in 1..lastId
      BY <2>1, <3>2
    <3>4. QED
      BY <3>1, <3>3 DEF Start, x
  <2>4. starts \in Seq([id : 1..lastId, transfer : Transfers])
    <3> DEFINE S == [id : 1..lastId, transfer : Transfers]
    <3> HIDE DEF S
    <3>1. \A i \in 1..Len(starts) : starts[i] \in S
      BY <2>3 DEF S
    <3>2. starts \in [1..Len(starts) -> S]
      BY <2>1, <3>1, LenProperties
    <3>3. starts \in UNION {[1..n -> S] : n \in Nat}
      BY <2>1, <3>2
    <3>4. QED
      BY <3>3, SeqDef, Zenon DEF S
  <2>5. stops \subseteq 1..lastId
    BY <2>1 DEF FileInv, ServiceInv
  <2>6. QED
    BY <2>2, <2>4, <2>5 DEF TypeOK, FileInv, FilesInv, ServiceInv
<1>2. QED
  BY <1>1, Invariance, PTL

(* An action's files are on disk until its transfer is over, and the        *)
(* service does not stop under a transfer.                                  *)
THEOREM FilesUndisturbed == Spec => []Undisturbed
<1>1. FileInv => Undisturbed
  BY DEF FileInv, FilesInv, ServiceInv, Undisturbed
<1>2. QED
  BY <1>1, Invariance, PTL

(* What is on disk after the sweep belongs to an action that is not over,   *)
(* or to one that was stranded.                                             *)
THEOREM NoLitterLeft == Spec => []NoLitter
<1>1. FileInv => NoLitter
  BY DEF FileInv, FilesInv
<1>2. QED
  BY <1>1, Invariance, PTL
-----------------------------------------------------------------------------
(* What a running service is for                                            *)

(* The service does not run for nothing: a transfer or a start that is not  *)
(* delivered has need of it, or stopSelf is about to be called with the     *)
(* startId that ends it.  ServiceStops needs no more than that the system   *)
(* delivers starts, and that coroutines run.                                *)
ServiceHasReason == service => active # {} \/ starts # <<>> \/ lastId \in stops

GivenAway == {"queued", "running", "ended", "over", "stranded"}

\* Transfer ids are used once, and a process that was killed left no job of the
\* starts it had been given, while those that came later have theirs
InOrder(st, q) ==
  /\ \A i \in 1..Len(q) : st[q[i].transfer] \in GivenAway
  /\ \A i, j \in 1..Len(q) : i < j =>
       /\ q[i].transfer # q[j].transfer
       /\ st[q[i].transfer] = "queued" => st[q[j].transfer] = "queued"

AllQueued(st, q) == \A i \in 1..Len(q) : st[q[i].transfer] = "queued"

\* While a transfer runs, every start has its job, and latestStartId is the one
\* before the first of them
QueueInv ==
  /\ InOrder(stage, starts)
  /\ active # {} => AllQueued(stage, starts) /\ latest + Len(starts) = lastId
  /\ ServiceHasReason

(* What the starts know of their actions, as typed facts.                   *)
LEMMA QueueTyped ==
  ASSUME FileInv
  PROVE  /\ starts \in Seq(Start) /\ Len(starts) \in Nat
         /\ \A i \in 1..Len(starts) : starts[i].transfer \in Transfers
         /\ stage \in [Transfers -> Stages]
<1>1. starts \in Seq(Start) /\ Len(starts) \in Nat
  BY LenProperties DEF FileInv, ServiceInv
<1>2. \A i \in 1..Len(starts) : starts[i] \in Start
  BY <1>1, ElementOfSeq
<1>3. QED
  BY <1>1, <1>2 DEF Start, FileInv, FilesInv

(* A step that delivers no start and takes no job from one keeps the order. *)
LEMMA OrderKept ==
  ASSUME FileInv, starts' = starts,
         \A t \in Transfers : stage[t] \in GivenAway =>
           stage'[t] \in GivenAway /\ (stage'[t] = "queued" <=> stage[t] = "queued")
  PROVE  /\ InOrder(stage, starts) => InOrder(stage', starts')
         /\ InOrder(stage, starts) /\ AllQueued(stage, starts) => AllQueued(stage', starts')
<1>1. \A i \in 1..Len(starts) : starts[i].transfer \in Transfers
  BY QueueTyped
<1>2. QED
  BY <1>1 DEF InOrder, AllQueued

(* The service's part of the step is a stutter.                             *)
LEMMA QueueSame ==
  ASSUME FileInv, QueueInv, UNCHANGED owner,
         \A t \in Transfers : stage[t] \in GivenAway =>
           stage'[t] \in GivenAway /\ (stage'[t] = "queued" <=> stage[t] = "queued")
  PROVE  QueueInv'
<1>1. UNCHANGED <<service, lastId, starts, active, latest, stops>>
  BY DEF owner
<1>2. QED
  BY <1>1, OrderKept DEF QueueInv, ServiceHasReason

(* An action handed over comes last, and its job is there before its start. *)
LEMMA HandOverQueue ==
  ASSUME FileInv, QueueInv, NEW t \in Transfers, HandOver(t)
  PROVE  QueueInv'
<1>1. /\ stage \in [Transfers -> Stages] /\ stage[t] \in {"finishing", "parting"}
      /\ starts \in Seq(Start) /\ Len(starts) \in Nat
      /\ \A i \in 1..Len(starts) : starts[i].transfer \in Transfers
      /\ \A u \in Transfers \ {t} : stage'[u] = stage[u]
      /\ stage'[t] \in {"queued", "over", "stranded"}
  BY QueueTyped DEF HandOver, To
<1>2. CASE stage'[t] # "queued"
  <2>1. UNCHANGED owner
    BY <1>1, <1>2 DEF HandOver, To, owner
  <2>2. QED
    BY <1>1, <2>1, QueueSame DEF GivenAway
<1>3. CASE stage'[t] = "queued"
  <2> DEFINE e == [id |-> lastId + 1, transfer |-> t]
  <2>1. /\ lastId' = lastId + 1 /\ starts' = Append(starts, e)
        /\ UNCHANGED <<active, latest, stops>>
    BY <1>1, <1>3 DEF HandOver, To
  <2>2. e \in Start /\ e.transfer = t /\ lastId \in Nat /\ latest \in Nat
    BY DEF Start, FileInv, ServiceInv
  <2> HIDE DEF e
  <2>3. /\ Len(starts') = Len(starts) + 1
        /\ \A i \in 1..Len(starts) : starts'[i] = starts[i]
        /\ starts'[Len(starts) + 1] = e
    BY <1>1, <2>1, <2>2, AppendProperties
  <2>4. \A i \in 1..Len(starts) :
          /\ starts[i].transfer # t
          /\ stage'[starts[i].transfer] = stage[starts[i].transfer]
    BY <1>1 DEF QueueInv, InOrder, GivenAway
  <2>5. \A i \in 1..Len(starts') : i \in 1..Len(starts) \/ i = Len(starts) + 1
    BY <1>1, <2>3
  <2>6. InOrder(stage', starts')
    <3>1. \A i \in 1..Len(starts') : stage'[starts'[i].transfer] \in GivenAway
      BY <1>3, <2>2, <2>3, <2>4, <2>5 DEF QueueInv, InOrder, GivenAway
    <3>2. ASSUME NEW i \in 1..Len(starts'), NEW j \in 1..Len(starts'), i < j
          PROVE  /\ starts'[i].transfer # starts'[j].transfer
                 /\ stage'[starts'[i].transfer] = "queued" => stage'[starts'[j].transfer] = "queued"
      <4>1. i \in 1..Len(starts)
        BY <1>1, <2>3, <3>2
      <4>2. CASE j \in 1..Len(starts)
        BY <2>3, <2>4, <3>2, <4>1, <4>2 DEF QueueInv, InOrder
      <4>3. CASE j = Len(starts) + 1
        BY <1>3, <2>2, <2>3, <2>4, <4>1, <4>3
      <4>4. QED
        BY <2>5, <4>2, <4>3
    <3>3. QED
      BY <3>1, <3>2 DEF InOrder
  <2>7. active' # {} => AllQueued(stage', starts') /\ latest' + Len(starts') = lastId'
    <3> SUFFICES ASSUME active # {}
                 PROVE  AllQueued(stage', starts') /\ latest' + Len(starts') = lastId'
      BY <2>1
    <3>1. AllQueued(stage', starts')
      BY <1>3, <2>2, <2>3, <2>4, <2>5 DEF QueueInv, AllQueued
    <3>2. latest' + Len(starts') = lastId'
      BY <1>1, <2>1, <2>2, <2>3 DEF QueueInv
    <3>3. QED
      BY <3>1, <3>2
  <2>8. starts' # <<>>
    BY <1>1, <2>3, EmptySeq
  <2>9. QED
    BY <2>6, <2>7, <2>8 DEF QueueInv, ServiceHasReason
<1>4. QED
  BY <1>2, <1>3

(* A start that is delivered first is followed by starts with their jobs,   *)
(* if it has its own; without it, no transfer runs, and the service goes on *)
(* only for a later start.                                                  *)
LEMMA OnStartCommandQueue ==
  ASSUME FileInv, QueueInv, OnStartCommand
  PROVE  QueueInv'
<1> DEFINE t == Head(starts).transfer
           id == Head(starts).id
<1>1. /\ starts # <<>> /\ starts' = Tail(starts)
      /\ starts \in Seq(Start) /\ Len(starts) \in Nat
      /\ lastId \in Nat /\ latest \in Nat /\ latest + Len(starts) <= lastId
      /\ stage \in [Transfers -> Stages]
      /\ \A i \in 1..Len(starts) : starts[i].transfer \in Transfers
  BY QueueTyped DEF OnStartCommand, FileInv, ServiceInv
<1>2. /\ Head(starts) \in Start /\ id + Len(starts) = lastId + 1
      /\ Len(Tail(starts)) = Len(starts) - 1 /\ Len(starts) >= 1
  <2>1. Numbered(starts, lastId)
    BY DEF FileInv, ServiceInv, Numbered
  <2>2. QED
    BY <1>1, <2>1, StartTaken
<1>3. /\ Head(starts) = starts[1]
      /\ \A i \in 1..Len(Tail(starts)) : i + 1 \in 1..Len(starts) /\ Tail(starts)[i] = starts[i + 1]
  BY <1>1, <1>2, HeadTailProperties
<1>4. t \in Transfers /\ id \in Nat /\ t = starts[1].transfer
  BY <1>2, <1>3 DEF Start
<1> HIDE DEF t, id
<1>5. id > latest /\ id + Len(starts') = lastId
  BY <1>1, <1>2, <1>4
<1>6. \A i \in 1..Len(starts') : /\ i \in Nat /\ i + 1 \in 1..Len(starts) /\ i + 1 > 1
                                 /\ starts'[i] = starts[i + 1]
  BY <1>1, <1>2, <1>3
<1>7. 1 \in 1..Len(starts)
  BY <1>1, <1>2
<1>8. \A i \in 1..Len(starts') : starts'[i].transfer # t
  BY <1>4, <1>6, <1>7 DEF QueueInv, InOrder
<1>9. ASSUME NEW st, \A i \in 1..Len(starts') :
                       st[starts'[i].transfer] = stage[starts'[i].transfer]
      PROVE  InOrder(st, starts')
  <2>1. ASSUME NEW i \in 1..Len(starts')
        PROVE  st[starts'[i].transfer] \in GivenAway
    BY <1>6, <1>9 DEF QueueInv, InOrder
  <2>2. ASSUME NEW i \in 1..Len(starts'), NEW j \in 1..Len(starts'), i < j
        PROVE  /\ starts'[i].transfer # starts'[j].transfer
               /\ st[starts'[i].transfer] = "queued" => st[starts'[j].transfer] = "queued"
    <3>1. /\ i + 1 \in 1..Len(starts) /\ j + 1 \in 1..Len(starts) /\ i + 1 < j + 1
          /\ starts'[i] = starts[i + 1] /\ starts'[j] = starts[j + 1]
      BY <1>6, <2>2
    <3> DEFINE k == i + 1
               l == j + 1
    <3>2. k \in 1..Len(starts) /\ l \in 1..Len(starts) /\ k < l
      BY <3>1
    <3>3. starts'[i] = starts[k] /\ starts'[j] = starts[l]
      BY <3>1
    <3> HIDE DEF k, l
    <3>4. /\ starts[k].transfer # starts[l].transfer
          /\ stage[starts[k].transfer] = "queued" => stage[starts[l].transfer] = "queued"
      BY <3>2 DEF QueueInv, InOrder
    <3>5. QED
      BY <1>9, <3>3, <3>4
  <2>3. QED
    BY <2>1, <2>2 DEF InOrder
<1>10. CASE stage[t] = "queued"
  <2>1. /\ stage' = [stage EXCEPT ![t] = "running"] /\ active' = active \cup {t}
        /\ latest' = id /\ lastId' = lastId
    BY <1>5, <1>10 DEF OnStartCommand, To, Started, t, id
  <2>2. \A i \in 1..Len(starts') : stage'[starts'[i].transfer] = stage[starts'[i].transfer]
    BY <1>1, <1>6, <1>8, <2>1
  <2>3. AllQueued(stage', starts')
    BY <1>4, <1>6, <1>7, <1>10, <2>2 DEF QueueInv, InOrder, AllQueued
  <2>4. QED
    BY <1>5, <1>9, <2>1, <2>2, <2>3 DEF QueueInv, ServiceHasReason
<1>11. CASE stage[t] # "queued"
  <2>1. active = {}
    BY <1>4, <1>7, <1>11 DEF QueueInv, AllQueued
  <2>2. UNCHANGED <<stage, active>> /\ Stopped(id)
    BY <1>11, <2>1 DEF OnStartCommand, t, id
  <2>3. InOrder(stage', starts')
    BY <1>9, <2>2
  <2>4. service' => starts' # <<>>
    <3>1. CASE id = lastId
      BY <2>2, <3>1 DEF Stopped
    <3>2. CASE id # lastId
      <4>1. Len(starts') # 0
        BY <1>1, <1>2, <1>4, <1>5, <3>2
      <4>2. QED
        BY <4>1, EmptySeq
    <3>3. QED
      BY <3>1, <3>2
  <2>5. QED
    BY <2>1, <2>2, <2>3, <2>4 DEF QueueInv, ServiceHasReason
<1>12. QED
  BY <1>10, <1>11

(* The last transfer to end finds latestStartId to be the system's last     *)
(* one, unless there are starts to come.                                    *)
LEMMA TransferQueue ==
  ASSUME FileInv, QueueInv, NEW t \in Transfers, Clean(t) \/ Finished(t)
  PROVE  QueueInv'
<1>1. /\ stage \in [Transfers -> Stages]
      /\ \A u \in Transfers \ {t} : stage'[u] = stage[u]
      /\ stage[t] \in {"running", "ended"} /\ stage'[t] \in {"ended", "over"}
      /\ starts' = starts
  BY QueueTyped DEF Clean, Finished, To, owner
<1>2. \A u \in Transfers : stage[u] \in GivenAway =>
        stage'[u] \in GivenAway /\ (stage'[u] = "queued" <=> stage[u] = "queued")
  BY <1>1 DEF GivenAway
<1>3. CASE Clean(t)
  BY <1>2, <1>3, QueueSame DEF Clean
<1>4. CASE Finished(t)
  <2>1. /\ active' = active \ {t} /\ UNCHANGED <<service, lastId, latest>>
        /\ stops' = IF active' = {} THEN stops \cup {latest} ELSE stops
        /\ t \in active
    BY <1>1, <1>4 DEF Finished, FileInv, ServiceInv
  <2>2. /\ InOrder(stage', starts') /\ AllQueued(stage', starts')
        /\ latest + Len(starts) = lastId
    BY <1>1, <1>2, <2>1, OrderKept DEF QueueInv
  <2>3. starts = <<>> => latest = lastId
    <3>1. starts = <<>> => Len(starts) = 0
      BY EmptySeq
    <3>2. QED
      BY <2>2, <3>1 DEF FileInv, ServiceInv
  <2>4. QED
    BY <1>1, <2>1, <2>2, <2>3 DEF QueueInv, ServiceHasReason
<1>5. QED
  BY <1>3, <1>4

(* stopSelf with another startId than the last leaves the one that ends the *)
(* service to be called.                                                    *)
LEMMA StopSelfQueue ==
  ASSUME FileInv, QueueInv, NEW id \in stops, StopSelf(id)
  PROVE  QueueInv'
<1>1. Stopped(id) /\ UNCHANGED <<stage, starts, active>>
  BY DEF StopSelf
<1>2. CASE id = lastId
  <2>1. /\ id \in Nat /\ id <= latest /\ latest \in Nat /\ Len(starts) \in Nat
        /\ latest + Len(starts) <= lastId
    BY QueueTyped DEF FileInv, ServiceInv
  <2>2. latest = id
    BY <1>2, <2>1
  <2>3. active = {}
    BY <2>2 DEF FileInv, ServiceInv
  <2>4. QED
    BY <1>1, <1>2, <2>3 DEF Stopped, QueueInv, ServiceHasReason
<1>3. CASE id # lastId
  BY <1>1, <1>3 DEF Stopped, QueueInv, ServiceHasReason
<1>4. QED
  BY <1>2, <1>3

(* No start has its job in the process that is started next, which runs for *)
(* the starts only.                                                         *)
LEMMA KillQueue ==
  ASSUME FileInv, QueueInv, Kill
  PROVE  QueueInv'
<1>1. \A t \in Transfers : stage[t] \in GivenAway => stage'[t] = "over"
  BY DEF Kill, GivenAway
<1>2. starts' = starts /\ active' = {} /\ (service' => starts # <<>>)
  BY DEF Kill
<1>3. InOrder(stage', starts')
  BY <1>1, <1>2, QueueTyped DEF QueueInv, InOrder, GivenAway
<1>4. QED
  BY <1>2, <1>3 DEF QueueInv, ServiceHasReason

(* Whatever the order in which transfers end, starts come and the process   *)
(* is killed, the service has a reason to run, or is about to be stopped.   *)
THEOREM ServiceRunsForSomething == Spec => []ServiceHasReason
<1>1. Init => QueueInv
  BY EmptySeq DEF Init, QueueInv, ServiceHasReason, InOrder
<1>2. FileInv /\ QueueInv /\ [Next]_vars => QueueInv'
  <2> SUFFICES ASSUME FileInv, QueueInv, [Next]_vars PROVE QueueInv'
    OBVIOUS
  <2>1. stage \in [Transfers -> Stages]
    BY QueueTyped
  <2>2. CASE OpenActivity \/ Show \/ Leave
    BY <2>2, QueueSame DEF OpenActivity, Show, Leave
  <2>3. CASE Dispose \/ Release
    <3>1. /\ \A t \in Transfers : stage[t] \notin {"staging", "finishing"} => stage'[t] = stage[t]
          /\ \A t \in Transfers : stage[t] \in {"staging", "finishing"} => stage'[t] # "queued"
          /\ UNCHANGED owner
      BY <2>1, <2>3 DEF Dispose, Release, Staging, Parted
    <3>2. QED
      BY <3>1, QueueSame DEF GivenAway
  <2>4. ASSUME NEW t \in Transfers, Begin(t) \/ Cancel(t) \/ Finish(t)
        PROVE  QueueInv'
    <3>1. /\ stage[t] \notin GivenAway
          /\ \A u \in Transfers \ {t} : stage'[u] = stage[u]
          /\ UNCHANGED owner
      BY <2>1, <2>4 DEF Begin, Cancel, Finish, To, GivenAway
    <3>2. QED
      BY <3>1, QueueSame
  <2>5. ASSUME NEW t \in Transfers, HandOver(t)
        PROVE  QueueInv'
    BY <2>5, HandOverQueue
  <2>6. CASE OnStartCommand
    BY <2>6, OnStartCommandQueue
  <2>7. ASSUME NEW t \in Transfers, Clean(t) \/ Finished(t)
        PROVE  QueueInv'
    BY <2>7, TransferQueue
  <2>8. ASSUME NEW id \in stops, StopSelf(id)
        PROVE  QueueInv'
    BY <2>8, StopSelfQueue
  <2>9. CASE Kill
    BY <2>9, KillQueue
  <2>10. CASE UNCHANGED vars
    BY <2>10, QueueSame DEF vars
  <2>11. QED
    BY <2>2, <2>3, <2>4, <2>5, <2>6, <2>7, <2>8, <2>9, <2>10 DEF Next
<1>3. QueueInv => ServiceHasReason
  BY DEF QueueInv
<1>4. QED
  BY <1>1, <1>2, <1>3, Invariance, PTL DEF Spec
=============================================================================
