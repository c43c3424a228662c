------------------------ MODULE WispConnectionProofs ------------------------
(***************************************************************************)
(* Proofs about WispConnection, for every set of transfer tasks,            *)
(* certificates and keys.                                                   *)
(***************************************************************************)
EXTENDS WispConnection, SequenceTheorems, TLAPS

-----------------------------------------------------------------------------
(* Queues in which nobody stands twice                                      *)

(* Two queues have nobody twice together when each of them has nobody twice *)
(* and they have nobody in common.                                          *)
LEMMA InjectiveConcat ==
  ASSUME NEW S, NEW s \in Seq(S), NEW t \in Seq(S)
  PROVE  /\ Range(s \o t) = Range(s) \cup Range(t)
         /\ IsInjective(s \o t) <=>
              IsInjective(s) /\ IsInjective(t) /\ Range(s) \cap Range(t) = {}
<1>1. /\ Range(s \o t) = Range(s) \cup Range(t)
      /\ Len(s) \in Nat /\ Len(t) \in Nat
      /\ DOMAIN s = 1 .. Len(s) /\ DOMAIN t = 1 .. Len(t)
      /\ DOMAIN (s \o t) = 1 .. (Len(s) + Len(t))
      /\ \A i \in 1 .. (Len(s) + Len(t)) :
           (s \o t)[i] = IF i <= Len(s) THEN s[i] ELSE t[i - Len(s)]
  BY RangeConcatenation, ConcatProperties, LenProperties
<1>2. ASSUME IsInjective(s), IsInjective(t), Range(s) \cap Range(t) = {}
      PROVE  IsInjective(s \o t)
  <2> SUFFICES ASSUME NEW i \in 1 .. (Len(s) + Len(t)), NEW j \in 1 .. (Len(s) + Len(t)),
                      (s \o t)[i] = (s \o t)[j]
               PROVE  i = j
    BY <1>1 DEF IsInjective
  <2>1. CASE i <= Len(s) /\ j <= Len(s)
    <3>1. i \in DOMAIN s /\ j \in DOMAIN s /\ s[i] = s[j]
      BY <1>1, <2>1
    <3>2. QED
      BY <1>2, <3>1 DEF IsInjective
  <2>2. CASE ~(i <= Len(s)) /\ ~(j <= Len(s))
    <3>1. i - Len(s) \in 1 .. Len(t) /\ j - Len(s) \in 1 .. Len(t)
      BY <1>1, <2>2
    <3>2. i - Len(s) = j - Len(s)
      BY <1>1, <1>2, <2>2, <3>1 DEF IsInjective
    <3>3. QED
      BY <1>1, <3>2
  <2>3. ASSUME NEW k \in 1 .. Len(s), NEW l \in 1 .. (Len(s) + Len(t)), ~(l <= Len(s))
        PROVE  s[k] # t[l - Len(s)]
    <3>1. l - Len(s) \in 1 .. Len(t)
      BY <1>1, <2>3
    <3>2. s[k] \in Range(s) /\ t[l - Len(s)] \in Range(t)
      BY <1>1, <3>1 DEF Range
    <3>3. QED
      BY <1>2, <3>2
  <2>4. CASE i <= Len(s) /\ ~(j <= Len(s))
    BY <1>1, <2>3, <2>4
  <2>5. CASE ~(i <= Len(s)) /\ j <= Len(s)
    BY <1>1, <2>3, <2>5
  <2>6. QED
    BY <2>1, <2>2, <2>4, <2>5
<1>3. ASSUME IsInjective(s \o t)
      PROVE  IsInjective(s) /\ IsInjective(t) /\ Range(s) \cap Range(t) = {}
  <2>1. IsInjective(s)
    BY <1>1, <1>3 DEF IsInjective
  <2>2. ASSUME NEW i \in 1 .. Len(t)
        PROVE  i + Len(s) \in 1 .. (Len(s) + Len(t)) /\ (s \o t)[i + Len(s)] = t[i]
    BY <1>1
  <2>3. IsInjective(t)
    <3> SUFFICES ASSUME NEW i \in 1 .. Len(t), NEW j \in 1 .. Len(t), t[i] = t[j]
                 PROVE  i = j
      BY <1>1 DEF IsInjective
    <3>1. i + Len(s) = j + Len(s)
      BY <1>1, <1>3, <2>2 DEF IsInjective
    <3>2. QED
      BY <1>1, <3>1
  <2>4. Range(s) \cap Range(t) = {}
    <3> SUFFICES ASSUME NEW i \in 1 .. Len(s), NEW j \in 1 .. Len(t), s[i] = t[j]
                 PROVE  FALSE
      BY <1>1 DEF Range
    <3>1. i \in 1 .. (Len(s) + Len(t)) /\ (s \o t)[i] = s[i]
      BY <1>1
    <3>2. i = j + Len(s)
      BY <1>1, <1>3, <2>2, <3>1 DEF IsInjective
    <3>3. QED
      BY <1>1, <3>2
  <2>5. QED
    BY <2>1, <2>3, <2>4
<1>4. QED
  BY <1>1, <1>2, <1>3

(* Whoever joins a queue stands in it once, if it was not there.            *)
LEMMA InjectiveJoin ==
  ASSUME NEW S, NEW s \in Seq(S), NEW e \in S
  PROVE  /\ <<e>> \in Seq(S) /\ Range(<<e>>) = {e}
         /\ s \o <<e>> \in Seq(S)
         /\ Append(s, e) = s \o <<e>>
         /\ Range(s \o <<e>>) = Range(s) \cup {e}
         /\ IsInjective(s) /\ e \notin Range(s) => IsInjective(s \o <<e>>)
<1>1. <<e>> \in Seq(S) /\ Range(<<e>>) = {e} /\ IsInjective(<<e>>)
  BY DEF Range, IsInjective
<1>2. s \o <<e>> \in Seq(S) /\ Append(s, e) = s \o <<e>>
  BY <1>1, ConcatProperties, AppendIsConcat
<1>3. /\ Range(s \o <<e>>) = Range(s) \cup Range(<<e>>)
      /\ IsInjective(s \o <<e>>) <=>
           IsInjective(s) /\ IsInjective(<<e>>) /\ Range(s) \cap Range(<<e>>) = {}
  BY <1>1, InjectiveConcat
<1>4. QED
  BY <1>1, <1>2, <1>3

(* The same of Append.                                                      *)
LEMMA InjectiveAppend ==
  ASSUME NEW S, NEW s \in Seq(S), NEW e \in S, IsInjective(s), e \notin Range(s)
  PROVE  /\ Append(s, e) \in Seq(S) /\ IsInjective(Append(s, e))
         /\ Range(Append(s, e)) = Range(s) \cup {e}
<1>1. Append(s, e) = s \o <<e>>
  BY InjectiveJoin
<1>2. /\ s \o <<e>> \in Seq(S) /\ IsInjective(s \o <<e>>)
      /\ Range(s \o <<e>>) = Range(s) \cup {e}
  BY InjectiveJoin
<1>3. QED
  BY <1>1, <1>2

(* The first of a queue leaves it for good.                                 *)
LEMMA InjectiveLeave ==
  ASSUME NEW S, NEW s \in Seq(S), s # <<>>, IsInjective(s)
  PROVE  /\ Head(s) \in S /\ Head(s) \in Range(s)
         /\ Tail(s) \in Seq(S)
         /\ Range(Tail(s)) = Range(s) \ {Head(s)}
         /\ IsInjective(Tail(s))
<1>1. /\ Head(s) \in S /\ Tail(s) \in Seq(S) /\ Len(Tail(s)) = Len(s) - 1
      /\ \A i \in 1 .. Len(Tail(s)) : Tail(s)[i] = s[i + 1]
  BY HeadTailProperties
<1>2. /\ Len(s) \in Nat \ {0} /\ DOMAIN s = 1 .. Len(s)
      /\ DOMAIN Tail(s) = 1 .. (Len(s) - 1) /\ Head(s) = s[1]
  BY <1>1, EmptySeq, LenProperties
<1>3. IsInjective(Tail(s))
  BY <1>1, <1>2 DEF IsInjective
<1>4. Head(s) \in Range(s)
  BY <1>2 DEF Range
<1>5. ASSUME NEW x \in Range(Tail(s)) PROVE x \in Range(s) \ {Head(s)}
  <2>1. PICK i \in 1 .. (Len(s) - 1) : x = s[i + 1]
    BY <1>1, <1>2 DEF Range
  <2>2. i + 1 \in DOMAIN s /\ 1 \in DOMAIN s /\ i + 1 # 1
    BY <1>2
  <2>3. QED
    BY <1>2, <2>1, <2>2 DEF Range, IsInjective
<1>6. ASSUME NEW x \in Range(s), x # Head(s) PROVE x \in Range(Tail(s))
  <2>1. PICK i \in 1 .. Len(s) : x = s[i]
    BY <1>2 DEF Range
  <2>2. i # 1 /\ i - 1 \in 1 .. (Len(s) - 1) /\ (i - 1) + 1 = i
    BY <1>2, <1>6, <2>1
  <2>3. Tail(s)[i - 1] = x
    BY <1>1, <1>2, <2>1, <2>2
  <2>4. QED
    BY <1>2, <2>2, <2>3 DEF Range
<1>7. QED
  BY <1>1, <1>3, <1>4, <1>5, <1>6

(* A part of a queue has nobody twice either, and those of its places.      *)
LEMMA InjectiveSubSeq ==
  ASSUME NEW S, NEW s \in Seq(S), IsInjective(s), NEW m \in 1 .. Len(s) + 1, NEW n \in 0 .. Len(s)
  PROVE  /\ SubSeq(s, m, n) \in Seq(S)
         /\ IsInjective(SubSeq(s, m, n))
         /\ Range(SubSeq(s, m, n)) = {s[i] : i \in m .. n}
<1> DEFINE u == SubSeq(s, m, n)
           l == IF m <= n THEN n - m + 1 ELSE 0
<1>1. Len(s) \in Nat /\ DOMAIN s = 1 .. Len(s) /\ m \in Int /\ n \in Int
      /\ m .. n \subseteq 1 .. Len(s)
  BY LenProperties
<1>2. \A i \in m .. n : s[i] \in S
  BY <1>1, ElementOfSeq
<1>3. /\ u \in Seq(S) /\ Len(u) = l
      /\ \A i \in 1 .. (n - m + 1) : u[i] = s[m + i - 1]
  BY <1>1, <1>2, SubSeqProperties
<1>4. /\ DOMAIN u = 1 .. l /\ l \in Nat
      /\ \A i \in 1 .. l : u[i] = s[m + i - 1] /\ m + i - 1 \in m .. n
      /\ \A i \in m .. n : i - m + 1 \in 1 .. l /\ m + (i - m + 1) - 1 = i
  BY <1>1, <1>3, LenProperties
<1> HIDE DEF u, l
<1>5. IsInjective(u)
  <2> SUFFICES ASSUME NEW i \in 1 .. l, NEW j \in 1 .. l, u[i] = u[j]
               PROVE  i = j
    BY <1>4 DEF IsInjective
  <2>1. m + i - 1 \in DOMAIN s /\ m + j - 1 \in DOMAIN s /\ s[m + i - 1] = s[m + j - 1]
    BY <1>1, <1>4
  <2>2. m + i - 1 = m + j - 1
    BY <2>1 DEF IsInjective
  <2>3. i \in Int /\ j \in Int /\ m \in Int
    BY <1>1, <1>4
  <2>4. QED
    BY <2>2, <2>3
<1>6. Range(u) = {s[i] : i \in m .. n}
  <2>1. Range(u) = {u[i] : i \in 1 .. l}
    BY <1>4 DEF Range
  <2>2. \A i \in 1 .. l : \E j \in m .. n : u[i] = s[j]
    BY <1>4
  <2>3. \A j \in m .. n : \E i \in 1 .. l : u[i] = s[j]
    BY <1>4
  <2>4. \A x \in Range(u) : x \in {s[i] : i \in m .. n}
    BY <2>1, <2>2
  <2>5. \A x \in {s[i] : i \in m .. n} : x \in Range(u)
    BY <2>1, <2>3
  <2>6. QED
    BY <2>4, <2>5
<1>7. QED
  BY <1>3, <1>5, <1>6 DEF u

(* Whoever gives up waiting leaves the others as they were.                 *)
LEMMA InjectiveRemove ==
  ASSUME NEW S, NEW s \in Seq(S), IsInjective(s), NEW e
  PROVE  /\ RemoveFirst(s, e) \in Seq(S)
         /\ IsInjective(RemoveFirst(s, e))
         /\ Range(RemoveFirst(s, e)) = Range(s) \ {e}
<1>1. Len(s) \in Nat /\ DOMAIN s = 1 .. Len(s) /\ Range(s) = {s[i] : i \in 1 .. Len(s)}
  BY LenProperties, RangeEquality
<1>2. CASE ~ \E i \in 1 .. Len(s) : s[i] = e
  BY <1>1, <1>2 DEF RemoveFirst
<1>3. ASSUME NEW k \in 1 .. Len(s), s[k] = e
      PROVE  /\ RemoveFirst(s, e) \in Seq(S)
             /\ IsInjective(RemoveFirst(s, e))
             /\ Range(RemoveFirst(s, e)) = Range(s) \ {e}
  <2> DEFINE a == SubSeq(s, 1, k - 1)
             b == SubSeq(s, k + 1, Len(s))
  <2>1. {i \in 1 .. Len(s) : s[i] = e} = {k}
    BY <1>1, <1>3 DEF IsInjective
  <2>2. Min({k}) = k
    BY DEF Min
  <2>3. RemoveFirst(s, e) = a \o b
    BY <1>3, <2>1, <2>2 DEF RemoveFirst, RemoveAt, SelectInSeq
  <2>4. a \in Seq(S) /\ IsInjective(a) /\ Range(a) = {s[i] : i \in 1 .. (k - 1)}
    BY <1>1, InjectiveSubSeq
  <2>5. b \in Seq(S) /\ IsInjective(b) /\ Range(b) = {s[i] : i \in (k + 1) .. Len(s)}
    BY <1>1, InjectiveSubSeq
  <2> HIDE DEF a, b
  <2>6. Range(a) \cap Range(b) = {}
    <3> SUFFICES ASSUME NEW i \in 1 .. (k - 1), NEW j \in (k + 1) .. Len(s), s[i] = s[j]
                 PROVE  FALSE
      BY <2>4, <2>5
    <3>1. i \in 1 .. Len(s) /\ j \in 1 .. Len(s) /\ i # j
      BY <1>1
    <3>2. QED
      BY <1>1, <3>1 DEF IsInjective
  <2>7. Range(a) \cup Range(b) = Range(s) \ {e}
    <3>1. \A i \in 1 .. Len(s) : i = k \/ i \in 1 .. (k - 1) \/ i \in (k + 1) .. Len(s)
      BY <1>1
    <3>2. /\ \A i \in 1 .. (k - 1) : i \in 1 .. Len(s) /\ i # k
          /\ \A i \in (k + 1) .. Len(s) : i \in 1 .. Len(s) /\ i # k
      BY <1>1
    <3>3. \A i \in 1 .. Len(s) : s[i] = e => i = k
      BY <2>1
    <3>4. QED
      BY <1>1, <1>3, <2>4, <2>5, <3>1, <3>2, <3>3
  <2>8. /\ a \o b \in Seq(S) /\ Range(a \o b) = Range(a) \cup Range(b)
        /\ IsInjective(a \o b) <=> IsInjective(a) /\ IsInjective(b) /\ Range(a) \cap Range(b) = {}
    BY <2>4, <2>5, InjectiveConcat, ConcatProperties
  <2>9. QED
    BY <2>3, <2>4, <2>5, <2>6, <2>7, <2>8
<1>4. QED
  BY <1>2, <1>3

-----------------------------------------------------------------------------
(* The inductive invariant.  A heartbeat is only there while its connection *)
(* is served, so that the next one never finds a predecessor that still has *)
(* or wants the lock; a connection that is past _open_tls for the second    *)
(* time is the relay connection; and memory agrees with what is on file.    *)

Asking(s) == s \in Range(queue) \cup {holder}

LockOK ==
  /\ waiters \in Seq(Tasks) /\ queue \in Seq(Senders)
  /\ holder \in Senders \cup {None}
  /\ IsInjective(waiters) /\ IsInjective(queue)
  /\ holder \notin Range(queue)
  /\ \A t \in Range(waiters) : ~Asking(t)

StateOK ==
  /\ pc \in Pcs
  /\ writer \in {"control", "relay", None}
  /\ ready \in BOOLEAN
  /\ beat \in {"none", "asleep", "writing", "dead"}
  /\ cert \in Certs
  /\ anchor \in Certs \cup {None} /\ anchorFile \in Certs \cup {None, "torn"}
  /\ peerKey \in Keys \cup {None} /\ peerFile \in Keys \cup {None}
  /\ session \in Keys \cup {None}

Attempt ==
  /\ pc \in {"relay", "greeting", "reading", "writing", "ending"} => writer = "relay"
  /\ beat # "none" => pc \in {"reading", "writing", "ending"}

OnFile ==
  /\ anchorFile \in Certs => anchor = anchorFile
  /\ peerFile # None => peerKey = peerFile
  /\ session # None => session = peerKey

ConnectionInv ==
  /\ StateOK
  /\ LockOK
  /\ ReadyIsServed
  /\ LockIsLive
  /\ Attempt
  /\ OnFile

-----------------------------------------------------------------------------
(* What the operations of the lock do                                       *)

(* LockIsLive says who asks for the lock.                                   *)
LEMMA LiveAsking ==
  /\ LockIsLive <=> /\ Asking("loop") <=> pc = "writing"
                    /\ Asking("beat") <=> beat = "writing"
  /\ LockIsLive' <=> /\ Asking("loop")' <=> pc' = "writing"
                     /\ Asking("beat")' <=> beat' = "writing"
BY DEF LockIsLive, Asking

(* An asyncio.Lock.acquire takes the lock or queues for it; nobody else is  *)
(* moved.                                                                   *)
LEMMA AcquireOne ==
  ASSUME LockOK, NEW s \in Senders, ~Asking(s), Acquire(<<s>>),
         waiters' \in Seq(Tasks), IsInjective(waiters'),
         Range(waiters') \subseteq Range(waiters) \ {s}
  PROVE  /\ LockOK'
         /\ \A r \in Senders : Asking(r)' <=> Asking(r) \/ r = s
         /\ holder' \in {holder, s}
<1> USE ConnectionAssumption DEF LockOK
<1>1. Range(waiters') \subseteq Senders
  BY RangeOfSeq DEF Senders
<1>2. CASE holder = None /\ queue = <<>>
  <2>1. Head(<<s>>) = s /\ Tail(<<s>>) = <<>> /\ <<s>> # <<>>
    OBVIOUS
  <2>2. holder' = s /\ queue' = <<>>
    BY <1>2, <2>1 DEF Acquire
  <2>3. <<>> \in Seq(Senders) /\ IsInjective(<<>>) /\ Range(<<>>) = {}
    BY DEF IsInjective, Range
  <2>4. QED
    BY <1>1, <1>2, <2>2, <2>3 DEF Asking, Senders
<1>3. CASE ~(holder = None /\ queue = <<>>)
  <2>1. holder' = holder /\ queue' = queue \o <<s>>
    BY <1>3 DEF Acquire
  <2>2. /\ queue \o <<s>> \in Seq(Senders)
        /\ Range(queue \o <<s>>) = Range(queue) \cup {s}
        /\ IsInjective(queue \o <<s>>)
    BY InjectiveJoin DEF Asking
  <2>3. QED
    BY <1>1, <2>1, <2>2 DEF Asking
<1>4. QED
  BY <1>2, <1>3

(* A task that finds at once that the peer has no session does not ask.     *)
LEMMA AcquireAnswering ==
  ASSUME LockOK, NEW t \in Tasks, ~Asking(t), Acquire(Answering(<<t>>)),
         waiters' \in Seq(Tasks), IsInjective(waiters'),
         Range(waiters') \subseteq Range(waiters) \ {t}
  PROVE  /\ LockOK'
         /\ \A r \in Senders : Asking(r)' => Asking(r) \/ r = t
         /\ \A r \in Senders : Asking(r) => Asking(r)'
         /\ holder' \in {holder, t}
<1>1. t \in Senders
  BY DEF Senders
<1>2. CASE Answering(<<t>>) = <<t>>
  BY <1>1, <1>2, AcquireOne
<1>3. CASE Answering(<<t>>) = <<>>
  <2>1. queue' = queue \o <<>> \/ queue' = queue
    BY <1>3 DEF Acquire
  <2>2. holder' = holder /\ queue' = queue
    BY <1>3, <2>1, ConcatEmptySeq DEF Acquire, LockOK
  <2>3. QED
    BY <2>2 DEF LockOK, Asking
<1>4. QED
  BY <1>2, <1>3 DEF Answering

(* Release and the wake-up of the next one: whoever has been at the head of *)
(* the queue is out of it, and has the lock or has turned away.             *)
LEMMA HeadLeaves ==
  ASSUME LockOK, queue # <<>>, holder = None, queue' = Tail(queue)
  PROVE  /\ Head(queue) \in Senders /\ Asking(Head(queue))
         /\ queue' \in Seq(Senders) /\ IsInjective(queue')
         /\ Range(queue') = Range(queue) \ {Head(queue)}
         /\ Head(queue) \notin Range(waiters)
BY InjectiveLeave DEF LockOK, Asking

-----------------------------------------------------------------------------
(* One lemma per action or group of actions                                 *)

(* A task with an answer waits for the connection or asks for the lock.     *)
LEMMA SendSessionInv ==
  ASSUME ConnectionInv, NEW t \in Tasks, SendSession(t)
  PROVE  ConnectionInv'
<1> USE ConnectionAssumption DEF ConnectionInv, SendSession
<1>1. t \in Senders \ {"loop", "beat"} /\ t \notin Range(waiters) /\ ~Asking(t)
  <2>1. waiters \in Seq(Senders) /\ queue \in Seq(Senders)
    BY SeqMonotonic DEF LockOK, Senders
  <2>2. Range(waiters \o queue) = Range(waiters) \cup Range(queue)
    BY <2>1, InjectiveConcat
  <2>3. QED
    BY <2>2 DEF Busy, Asking, Senders
<1>2. LockOK' /\ \A r \in {"loop", "beat"} : Asking(r)' <=> Asking(r)
  <2>1. CASE ready
    <3>1. Acquire(Answering(<<t>>)) /\ waiters' = waiters
      BY <2>1
    <3>2. QED
      BY <1>1, <3>1, AcquireAnswering DEF LockOK, Senders
  <2>2. CASE ~ready
    <3>1. waiters' = Append(waiters, t) /\ queue' = queue /\ holder' = holder
      BY <2>2
    <3>2. /\ waiters' \in Seq(Tasks) /\ IsInjective(waiters')
          /\ Range(waiters') = Range(waiters) \cup {t}
      BY <1>1, <3>1, InjectiveAppend DEF LockOK
    <3>3. QED
      BY <1>1, <3>1, <3>2 DEF LockOK, Asking
  <2>3. QED
    BY <2>1, <2>2
<1>3. StateOK' /\ ReadyIsServed' /\ Attempt' /\ OnFile'
  BY DEF StateOK, ReadyIsServed, Attempt, OnFile, trust
<1>4. LockIsLive'
  BY <1>2, LiveAsking
<1>5. QED
  BY <1>2, <1>3, <1>4

(* The next one gets the lock, or leaves the queue for good: a task whose   *)
(* connection is gone waits for the next one, the event loop reads on.      *)
LEMMA GrantInv ==
  ASSUME ConnectionInv, Grant
  PROVE  ConnectionInv'
<1> DEFINE s == Head(queue)
<1> USE ConnectionAssumption DEF ConnectionInv
<1>1. holder = None /\ queue # <<>> /\ queue' = Tail(queue)
  BY DEF Grant
<1>2. /\ s \in Senders /\ Asking(s)
      /\ queue' \in Seq(Senders) /\ IsInjective(queue')
      /\ Range(queue') = Range(queue) \ {s}
      /\ s \notin Range(waiters)
  BY <1>1, HeadLeaves
<1>3. UNCHANGED <<writer, ready, beat, trust>>
  BY DEF Grant
<1>4. \/ /\ s \in Tasks /\ waiters' = Append(waiters, s)
         /\ UNCHANGED <<holder, pc>>
      \/ /\ s \in Tasks /\ UNCHANGED <<holder, waiters, pc>>
      \/ /\ holder' = s
         /\ UNCHANGED <<waiters, pc>>
      \/ /\ s = "loop" /\ pc' = "reading" /\ UNCHANGED <<holder, waiters>>
  BY DEF Grant
<1> HIDE DEF s
<1>5. CASE s \in Tasks /\ waiters' = Append(waiters, s) /\ UNCHANGED <<holder, pc>>
  <2>1. /\ waiters' \in Seq(Tasks) /\ IsInjective(waiters')
        /\ Range(waiters') = Range(waiters) \cup {s}
    BY <1>2, <1>5, InjectiveAppend DEF LockOK
  <2>2. LockOK' /\ \A r \in {"loop", "beat"} : Asking(r)' <=> Asking(r)
    BY <1>1, <1>2, <1>5, <2>1 DEF LockOK, Asking, Senders
  <2>3. LockIsLive'
    BY <1>3, <1>5, <2>2, LiveAsking
  <2>4. QED
    BY <1>3, <1>5, <2>2, <2>3 DEF StateOK, ReadyIsServed, Attempt, OnFile, trust
<1>6. CASE s \in Tasks /\ UNCHANGED <<holder, waiters, pc>>
  <2>1. LockOK' /\ \A r \in {"loop", "beat"} : Asking(r)' <=> Asking(r)
    BY <1>1, <1>2, <1>6 DEF LockOK, Asking, Senders
  <2>2. LockIsLive'
    BY <1>3, <1>6, <2>1, LiveAsking
  <2>3. QED
    BY <1>3, <1>6, <2>1, <2>2 DEF StateOK, ReadyIsServed, Attempt, OnFile, trust
<1>7. CASE holder' = s /\ UNCHANGED <<waiters, pc>>
  <2>1. LockOK' /\ \A r \in {"loop", "beat"} : Asking(r)' <=> Asking(r)
    BY <1>1, <1>2, <1>7 DEF LockOK, Asking, Senders
  <2>2. LockIsLive'
    BY <1>3, <1>7, <2>1, LiveAsking
  <2>3. QED
    BY <1>3, <1>7, <2>1, <2>2 DEF StateOK, ReadyIsServed, Attempt, OnFile, trust
<1>8. CASE s = "loop" /\ pc' = "reading" /\ UNCHANGED <<holder, waiters>>
  <2>1. pc = "writing"
    BY <1>2, <1>8, LiveAsking
  <2>2. LockOK' /\ ~Asking("loop")' /\ (Asking("beat")' <=> Asking("beat"))
    BY <1>1, <1>2, <1>8 DEF LockOK, Asking, Senders
  <2>3. LockIsLive'
    BY <1>3, <1>8, <2>2, LiveAsking
  <2>4. QED
    BY <1>3, <1>8, <2>1, <2>2, <2>3 DEF StateOK, Pcs, ReadyIsServed, Attempt, OnFile, trust
<1>9. QED
  BY <1>4, <1>5, <1>6, <1>7, <1>8

(* Whoever held the lock goes on without it.                                *)
LEMMA DrainedInv ==
  ASSUME ConnectionInv, Drained
  PROVE  ConnectionInv'
<1> USE ConnectionAssumption DEF ConnectionInv
<1>1. /\ holder # None /\ holder' = None
      /\ UNCHANGED <<writer, ready, waiters, queue, trust>>
      /\ \/ holder = "loop" /\ pc' \in {"reading", "ending"} /\ beat' = beat
         \/ holder = "beat" /\ beat' \in {"asleep", "dead"} /\ pc' = pc
         \/ holder \in Tasks /\ pc' = pc /\ beat' = beat
  BY DEF Drained
<1>2. /\ LockOK'
      /\ \A r \in {"loop", "beat"} : Asking(r)' <=> (Asking(r) /\ r # holder)
  <2>1. \A r \in Senders : Asking(r)' <=> r \in Range(queue)
    BY <1>1 DEF Asking, Senders
  <2>2. None \notin Range(queue) \cup Range(waiters)
    BY RangeOfSeq DEF LockOK, Senders
  <2>3. LockOK'
    BY <1>1, <2>2 DEF LockOK, Asking
  <2>4. QED
    BY <2>1, <2>3 DEF Asking, LockOK, Senders
<1>3. /\ holder = "loop" => pc = "writing"
      /\ holder = "beat" => beat = "writing"
  BY LiveAsking DEF Asking
<1>4. LockIsLive'
  BY <1>1, <1>2, <1>3, LiveAsking
<1>5. StateOK' /\ ReadyIsServed' /\ Attempt' /\ OnFile'
  BY <1>1, <1>3 DEF StateOK, Pcs, ReadyIsServed, Attempt, OnFile, trust
<1>6. QED
  BY <1>2, <1>4, <1>5

(* The steps of an attempt leave the lock alone.                            *)
LEMMA SameLock ==
  ASSUME LockOK, UNCHANGED lock
  PROVE  LockOK' /\ \A r : Asking(r)' <=> Asking(r)
BY DEF LockOK, Asking, lock

(* An attempt goes on or fails before the event loop is reached.            *)
LEMMA AttemptInv ==
  ASSUME ConnectionInv,
         Wake \/ Fail \/ Bootstrap \/ OpenTLS \/ Authenticated \/ Registered \/ RelayReady
           \/ Ends \/ Renew
  PROVE  ConnectionInv'
<1> USE DEF ConnectionInv
<1>1. LockOK' /\ \A r : Asking(r)' <=> Asking(r)
  BY SameLock DEF Wake, Fail, Bootstrap, OpenTLS, Authenticated, Registered, RelayReady, Ends, Renew
<1>2. StateOK'
  <2>1. CASE Wake \/ Fail \/ Ends \/ Renew
    BY <2>1 DEF StateOK, Pcs, CloseConnection, trust, Wake, Fail, Ends, Renew
  <2>2. CASE Bootstrap \/ OpenTLS \/ Authenticated \/ Registered \/ RelayReady
    BY <2>2 DEF StateOK, Pcs, CloseConnection, trust,
                Bootstrap, OpenTLS, Authenticated, Registered, RelayReady
  <2>3. QED
    BY <2>1, <2>2
<1>3. ReadyIsServed' /\ Attempt'
  BY DEF ReadyIsServed, Attempt, CloseConnection,
         Wake, Fail, Bootstrap, OpenTLS, Authenticated, Registered, RelayReady, Ends, Renew
<1>4. /\ pc' = "writing" <=> pc = "writing"
      /\ beat' = "writing" <=> beat = "writing"
  BY DEF Attempt, CloseConnection,
         Wake, Fail, Bootstrap, OpenTLS, Authenticated, Registered, RelayReady, Ends, Renew
<1>5. LockIsLive'
  BY <1>1, <1>4, LiveAsking
<1>6. OnFile'
  BY ConnectionAssumption DEF OnFile, StateOK, CloseConnection, trust,
         Wake, Fail, Bootstrap, OpenTLS, Authenticated, Registered, RelayReady, Ends, Renew
<1>7. QED
  BY <1>1, <1>2, <1>3, <1>5, <1>6

(* A task that waited for the connection asks for the lock in its turn.     *)
LEMMA ResumesInv ==
  ASSUME ConnectionInv, Resumes
  PROVE  ConnectionInv'
<1> DEFINE t == Head(waiters)
<1> USE ConnectionAssumption DEF ConnectionInv, Resumes
<1>1. /\ t \in Tasks /\ t \in Range(waiters)
      /\ waiters' \in Seq(Tasks) /\ IsInjective(waiters')
      /\ Range(waiters') = Range(waiters) \ {t}
  BY InjectiveLeave DEF LockOK
<1>2. ~Asking(t) /\ Acquire(Answering(<<t>>))
  BY <1>1 DEF LockOK
<1> HIDE DEF t
<1>3. LockOK' /\ \A r \in {"loop", "beat"} : Asking(r)' <=> Asking(r)
  <2>1. /\ LockOK'
        /\ \A r \in Senders : Asking(r)' => Asking(r) \/ r = t
        /\ \A r \in Senders : Asking(r) => Asking(r)'
    BY <1>1, <1>2, AcquireAnswering
  <2>2. QED
    BY <1>1, <2>1 DEF Senders
<1>4. LockIsLive'
  BY <1>3, LiveAsking
<1>5. StateOK' /\ ReadyIsServed' /\ Attempt' /\ OnFile'
  BY DEF StateOK, ReadyIsServed, Attempt, OnFile, trust
<1>6. QED
  BY <1>3, <1>4, <1>5

(* The finally gives up the heartbeat's place in the queue and its lock.    *)
LEMMA EndInv ==
  ASSUME ConnectionInv, End
  PROVE  ConnectionInv'
<1> USE ConnectionAssumption DEF ConnectionInv, End, CancelHeartbeat, CloseConnection
<1>1. /\ queue' \in Seq(Senders) /\ IsInjective(queue')
      /\ Range(queue') = Range(queue) \ {"beat"}
  BY InjectiveRemove DEF LockOK
<1>2. None \notin Range(queue) \cup Range(waiters)
  BY RangeOfSeq DEF LockOK, Senders
<1>3. LockOK' /\ ~Asking("beat")' /\ (Asking("loop")' <=> Asking("loop"))
  BY <1>1, <1>2 DEF LockOK, Asking, Senders
<1>4. LockIsLive'
  BY <1>3, LiveAsking
<1>5. StateOK' /\ ReadyIsServed' /\ Attempt' /\ OnFile'
  BY DEF StateOK, Pcs, ReadyIsServed, Attempt, OnFile, trust
<1>6. QED
  BY <1>3, <1>4, <1>5
(* The event loop asks for the lock when it starts to write, and only then. *)
LEMMA LoopAsks ==
  ASSUME ConnectionInv, pc = "reading", pc' = "writing", waiters' = waiters, beat' = beat,
         Acquire(<<"loop">>)
  PROVE  LockOK' /\ LockIsLive'
<1>1. "loop" \in Senders /\ ~Asking("loop") /\ "loop" \notin Range(waiters)
  BY LiveAsking, RangeOfSeq, ConnectionAssumption DEF ConnectionInv, LockOK, Senders
<1>2. LockOK' /\ \A r \in Senders : Asking(r)' <=> Asking(r) \/ r = "loop"
  BY <1>1, AcquireOne DEF ConnectionInv, LockOK
<1>3. LockIsLive'
  BY <1>2, LiveAsking DEF ConnectionInv, Senders
<1>4. QED
  BY <1>2, <1>3

(* The event loop writes.                                                   *)
LEMMA AnswerInv ==
  ASSUME ConnectionInv, Answer
  PROVE  ConnectionInv'
BY LoopAsks DEF Answer, ConnectionInv, StateOK, Pcs, ReadyIsServed, Attempt, OnFile, trust

(* The heartbeat writes.                                                    *)
LEMMA HeartbeatDueInv ==
  ASSUME ConnectionInv, HeartbeatDue
  PROVE  ConnectionInv'
<1> USE DEF ConnectionInv, HeartbeatDue
<1>1. "beat" \in Senders /\ ~Asking("beat") /\ "beat" \notin Range(waiters)
  BY LiveAsking, RangeOfSeq, ConnectionAssumption DEF LockOK, Senders
<1>2. LockOK' /\ \A r \in Senders : Asking(r)' <=> Asking(r) \/ r = "beat"
  BY <1>1, AcquireOne DEF LockOK
<1>3. LockIsLive'
  BY <1>2, LiveAsking DEF Senders
<1>4. QED
  BY <1>2, <1>3 DEF StateOK, ReadyIsServed, Attempt, OnFile, trust

(* A handshake makes a session with the key it remembers, which is the one  *)
(* on file if there is one.                                                 *)
LEMMA HandleEnvelopeInv ==
  ASSUME ConnectionInv, NEW k \in Keys, HandleEnvelope(k)
  PROVE  ConnectionInv'
<1> USE ConnectionAssumption DEF ConnectionInv, HandleEnvelope
<1>1. /\ peerKey' = k /\ peerKey \in {k, None}
      /\ peerFile' = peerFile \/ (peerKey = None /\ peerFile' = k)
      /\ (session' = session /\ peerFile' = peerFile) \/ session' = k
      /\ peerKey = None => session = None /\ peerFile = None
  BY DEF Trusted, RememberPeer, OnFile
<1>2. StateOK' /\ ReadyIsServed' /\ Attempt'
  BY <1>1 DEF StateOK, Pcs, ReadyIsServed, Attempt
<1>3. OnFile'
  BY <1>1 DEF OnFile
<1>4. LockOK' /\ LockIsLive'
  <2>1. CASE pc' = "writing" /\ Acquire(<<"loop">>)
    BY <2>1, LoopAsks
  <2>2. CASE pc' = "ending" /\ UNCHANGED <<queue, holder>>
    BY <2>2, SameLock, LiveAsking DEF lock
  <2>3. QED
    BY <2>1, <2>2
<1>5. QED
  BY <1>2, <1>3, <1>4

(* A session that is dropped leaves the pinned key.                         *)
LEMMA DropSessionInv ==
  ASSUME ConnectionInv, DropSession
  PROVE  ConnectionInv'
<1> USE DEF ConnectionInv, DropSession
<1>1. LockOK' /\ LockIsLive'
  BY SameLock, LiveAsking
<1>2. QED
  BY <1>1 DEF StateOK, ReadyIsServed, Attempt, OnFile

(* Nobody is in a queue of a process that starts.                           *)
LEMMA NobodyWaits ==
  /\ <<>> \in Seq(Tasks) /\ <<>> \in Seq(Senders)
  /\ IsInjective(<<>>) /\ Range(<<>>) = {}
BY DEF IsInjective, Range

(* A restart reads back what is on file.                                    *)
LEMMA RestartInv ==
  ASSUME ConnectionInv, Restart
  PROVE  ConnectionInv'
<1> USE ConnectionAssumption DEF ConnectionInv, Restart
<1>1. LockOK' /\ \A r \in {"loop", "beat"} : ~Asking(r)'
  BY NobodyWaits DEF LockOK, Asking, Senders
<1>2. LockIsLive'
  BY <1>1, LiveAsking
<1>3. QED
  BY <1>1, <1>2 DEF StateOK, Pcs, ReadyIsServed, Attempt, OnFile

-----------------------------------------------------------------------------
(* Theorems                                                                 *)

(* The runtime starts without a connection, and nothing pinned.             *)
LEMMA InitInv == Init => ConnectionInv
<1> SUFFICES ASSUME Init PROVE ConnectionInv
  OBVIOUS
<1> USE ConnectionAssumption DEF Init
<1>1. LockOK /\ \A r \in {"loop", "beat"} : ~Asking(r)
  BY NobodyWaits DEF LockOK, Asking, Senders
<1>2. LockIsLive
  BY <1>1, LiveAsking
<1>3. QED
  BY <1>1, <1>2 DEF ConnectionInv, StateOK, Pcs, ReadyIsServed, Attempt, OnFile

(* Every step of the runtime keeps the inductive invariant.                 *)
LEMMA StepInv == ConnectionInv /\ [Next]_vars => ConnectionInv'
<1> SUFFICES ASSUME ConnectionInv, [Next]_vars PROVE ConnectionInv'
  OBVIOUS
<1>1. CASE UNCHANGED vars
  <2>1. LockOK' /\ LockIsLive'
    BY <1>1, SameLock, LiveAsking DEF vars, ConnectionInv
  <2>2. QED
    BY <1>1, <2>1 DEF vars, trust, ConnectionInv, StateOK, ReadyIsServed, Attempt, OnFile
<1>2. CASE Next
  BY <1>2, SendSessionInv, GrantInv, DrainedInv, AttemptInv, ResumesInv, EndInv, AnswerInv,
     HeartbeatDueInv, DropSessionInv, HandleEnvelopeInv, RestartInv
     DEF Next
<1>3. QED
  BY <1>1, <1>2

(* The inductive invariant holds over every loss of the connection,         *)
(* cancelled heartbeat and restart.                                         *)
THEOREM Invariance == Spec => []ConnectionInv
BY InitInv, StepInv, PTL DEF Spec

(* The runtime's state keeps its type; above all nobody is in the queues of *)
(* _relay_ready and _send_lock twice, or waits for a lock it holds.         *)
THEOREM TypeCorrect == Spec => []TypeOK
<1>1. ConnectionInv => TypeOK
  <2> SUFFICES ASSUME ConnectionInv PROVE TypeOK
    OBVIOUS
  <2>1. waiters \in Seq(Senders) /\ queue \in Seq(Senders)
    BY SeqMonotonic DEF ConnectionInv, LockOK, Senders
  <2>2. /\ Range(waiters \o queue) = Range(waiters) \cup Range(queue)
        /\ IsInjective(waiters \o queue) <=>
             IsInjective(waiters) /\ IsInjective(queue) /\ Range(waiters) \cap Range(queue) = {}
    BY <2>1, InjectiveConcat
  <2>3. IsInjective(waiters \o queue) /\ holder \notin Range(waiters \o queue)
    BY <2>2 DEF ConnectionInv, LockOK, Asking
  <2>4. QED
    BY <2>3 DEF TypeOK, ConnectionInv, LockOK, StateOK
<1>2. QED
  BY <1>1, Invariance, PTL

(* While _relay_ready is set _writer is an accepted relay connection.       *)
THEOREM ReadyMeansServed == Spec => []ReadyIsServed
<1>1. ConnectionInv => ReadyIsServed
  BY DEF ConnectionInv
<1>2. QED
  BY <1>1, Invariance, PTL

(* _send_lock is held and waited for by those only that will give it up.    *)
THEOREM LockStaysLive == Spec => []LockIsLive
<1>1. ConnectionInv => LockIsLive
  BY DEF ConnectionInv
<1>2. QED
  BY <1>1, Invariance, PTL

(* What a step may do to the pinned certificate and key, in memory and on   *)
(* file: nothing, but for a start that is told to forget the peers.         *)
LEMMA StepsPin ==
  ASSUME ConnectionInv, Next
  PROVE  /\ anchorFile \in Certs => anchorFile' = anchorFile /\ anchor' = anchorFile
         /\ peerFile # None => \/ peerFile' = peerFile /\ peerKey' = peerFile
                               \/ peerFile' = None /\ peerKey' = None
         /\ session' \in {peerKey', None}
<1> USE DEF ConnectionInv, OnFile
<1>1. CASE UNCHANGED trust
  BY <1>1 DEF trust
<1>2. CASE Bootstrap
  BY <1>2, ConnectionAssumption DEF Bootstrap, StateOK
<1>3. CASE DropSession
  BY <1>3 DEF DropSession
<1>4. ASSUME NEW k \in Keys, HandleEnvelope(k)
      PROVE  /\ UNCHANGED <<anchorFile, anchor>>
             /\ peerFile # None => peerFile' = peerFile /\ peerKey' = peerFile
             /\ session' \in {peerKey', None}
  BY <1>4 DEF HandleEnvelope, Trusted, RememberPeer
<1>5. CASE Restart \/ Renew
  BY <1>5, ConnectionAssumption DEF Restart, Renew
<1>6. Next => \/ UNCHANGED trust \/ Bootstrap \/ DropSession \/ Restart \/ Renew
              \/ \E k \in Keys : HandleEnvelope(k)
  BY DEF Next, SendSession, Grant, Drained, Wake, Fail, OpenTLS, Authenticated, Registered,
         RelayReady, Resumes, Ends, End, Answer, HeartbeatDue
<1>7. QED
  BY <1>1, <1>2, <1>3, <1>4, <1>5, <1>6

(* Trust on first use is for good: certificate and peer key, once on file,  *)
(* stay there and in memory, and a session is always with the pinned key.   *)
THEOREM TrustIsPinned == Spec => PinnedForGood
<1>1. ConnectionInv /\ [Next]_vars
        => [/\ anchorFile \in Certs => anchorFile' = anchorFile /\ anchor' = anchorFile
            /\ peerFile # None => \/ peerFile' = peerFile /\ peerKey' = peerFile
                                  \/ peerFile' = None /\ peerKey' = None
            /\ session' \in {peerKey', None}]_vars
  BY StepsPin
<1>2. QED
  BY <1>1, Invariance, PTL DEF Spec, PinnedForGood

(* A task gets the lock at once where _relay_ready is set, or after it has  *)
(* queued for it.                                                           *)
LEMMA LockTaken ==
  ASSUME ConnectionInv, Next, NEW t \in Tasks, holder' = t, holder # t, t \notin Range(queue)
  PROVE  ready'
<1>1. t \notin {"loop", "beat", None}
  BY ConnectionAssumption DEF Senders
<1>2. holder' # holder
  OBVIOUS
<1>3. ASSUME NEW u \in Tasks, SendSession(u) PROVE ready'
  BY <1>2, <1>3 DEF SendSession
<1>4. CASE Resumes
  BY <1>4 DEF Resumes
<1>5. CASE Grant
  <2>1. Head(queue) \in Range(queue) /\ holder' \in {holder, Head(queue)}
    BY <1>5, InjectiveLeave DEF Grant, ConnectionInv, LockOK
  <2>2. QED
    BY <1>2, <2>1
<1>6. CASE Drained \/ Restart \/ End
  BY <1>1, <1>2, <1>6 DEF Drained, Restart, End, CancelHeartbeat
<1>7. Acquire(<<"loop">>) \/ Acquire(<<"beat">>) => FALSE
  BY <1>1, <1>2 DEF Acquire
<1>8. CASE Answer \/ HeartbeatDue \/ \E k \in Keys : HandleEnvelope(k)
  BY <1>2, <1>7, <1>8 DEF Answer, HeartbeatDue, HandleEnvelope
<1>9. Next => \/ holder' = holder
              \/ \E u \in Tasks : SendSession(u)
              \/ Resumes \/ Grant \/ Drained \/ Restart \/ End \/ Answer \/ HeartbeatDue
              \/ \E k \in Keys : HandleEnvelope(k)
  BY DEF Next, Wake, Fail, Bootstrap, OpenTLS, Authenticated, Registered, RelayReady, Ends,
         DropSession, Renew, lock
<1>10. QED
  BY <1>2, <1>3, <1>4, <1>5, <1>6, <1>8, <1>9

(* An answer that finds the lock free goes to an accepted relay connection. *)
THEOREM AnswersGoToRelay == Spec => StraightToRelay
<1>1. ConnectionInv /\ [Next]_vars
        => [\A t \in Tasks : holder' = t /\ holder # t /\ t \notin Range(queue) => ready']_vars
  BY LockTaken
<1>2. QED
  BY <1>1, Invariance, PTL DEF Spec, StraightToRelay
=============================================================================
