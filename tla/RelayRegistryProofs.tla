------------------------ MODULE RelayRegistryProofs ------------------------
(***************************************************************************)
(* Proofs about RelayRegistry, for every set of endpoints, keys, kinds,     *)
(* Wisps and connections.                                                   *)
(***************************************************************************)
EXTENDS RelayRegistry, TLAPS

-----------------------------------------------------------------------------
(* What each operation of RelayState makes of a book, as facts about the    *)
(* fields.                                                                  *)

(* enroll_client changes no known endpoint and adds its own as pending.     *)
LEMMA EnrollFacts ==
  ASSUME NEW b \in Book, NEW c \in ClientIds, NEW k \in Keys, NEW kind \in Kinds
  PROVE  LET e == EnrollClient(b, c, k, kind) IN
         /\ e \in Book
         /\ e.admin = b.admin
         /\ e.wisps = b.wisps
         /\ \A d \in ClientIds :
              /\ b.status[d] # "absent" => e.status[d] = b.status[d] /\ e.key[d] = b.key[d]
              /\ b.status[d] = "absent" =>
                   \/ e.status[d] = "absent" /\ e.key[d] = b.key[d] /\ d # c
                   \/ e.status[d] = "pending" /\ e.key[d] = k /\ d = c
BY DEF EnrollClient, Book, Statuses

(* claim_admin makes its caller an approved administrator, nobody else.     *)
LEMMA ClaimFacts ==
  ASSUME NEW b \in Book, NEW c \in ClientIds
  PROVE  LET e == ClaimAdmin(b, c) IN
         /\ e \in Book
         /\ e.admin = b.admin \cup {c}
         /\ e.key = b.key
         /\ e.status[c] = "approved"
         /\ \A d \in ClientIds \ {c} : e.status[d] = b.status[d]
BY DEF ClaimAdmin, Book, Statuses

(* set_client_status changes one status and, unless it approves, that flag. *)
LEMMA StatusFacts ==
  ASSUME NEW b \in Book, NEW c \in ClientIds, NEW s \in Statuses
  PROVE  LET e == SetClientStatus(b, c, s) IN
         /\ e \in Book
         /\ s = "approved" => e.admin = b.admin
         /\ s # "approved" => e.admin = b.admin \ {c}
         /\ e.key = b.key
         /\ e.status[c] = s
         /\ \A d \in ClientIds \ {c} : e.status[d] = b.status[d]
BY DEF SetClientStatus, Book, Statuses

(* Registering and removing Wisps leaves the endpoints' records alone.      *)
LEMMA WispFacts ==
  ASSUME NEW b \in Book, NEW c \in ClientIds, NEW items \in SUBSET WispIds
  PROVE  /\ RemoveWispsForOwner(b, c) \in Book
         /\ RemoveWispsForOwner(b, c).status = b.status
         /\ RemoveWispsForOwner(b, c).admin = b.admin
         /\ RemoveWispsForOwner(b, c).key = b.key
         /\ WithWisps(b, c, items) \in Book
         /\ WithWisps(b, c, items).status = b.status
         /\ WithWisps(b, c, items).admin = b.admin
         /\ WithWisps(b, c, items).key = b.key
BY DEF RemoveWispsForOwner, WithWisps, Book

(* So do register_wisp and remove_wisp.                                     *)
LEMMA OneWispFacts ==
  ASSUME NEW b \in Book, NEW w \in WispIds, NEW o \in ClientIds \cup {NoOwner}
  PROVE  LET e == [b EXCEPT !.wisps[w] = o] IN
         e \in Book /\ e.status = b.status /\ e.admin = b.admin /\ e.key = b.key
BY DEF Book

(* So does the client_kind an authentication writes.                        *)
LEMMA KindFacts ==
  ASSUME NEW b \in Book, NEW c \in ClientIds, NEW kind \in Kinds
  PROVE  LET e == [b EXCEPT !.kind[c] = kind] IN
         e \in Book /\ e.status = b.status /\ e.admin = b.admin /\ e.key = b.key
BY DEF Book

(* load only gives records without a status the status approved.            *)
LEMMA LoadFacts ==
  ASSUME NEW b \in Book
  PROVE  /\ Load(b) \in Book
         /\ Load(b).admin = b.admin
         /\ Load(b).key = b.key
         /\ \A c \in ClientIds :
              Load(b).status[c] = IF b.status[c] = "legacy" THEN "approved" ELSE b.status[c]
BY DEF Load, Book, Statuses

(* The memory of a relay that has not loaded is an empty registry.          *)
LEMMA EmptyFacts ==
  /\ EmptyBook \in Book
  /\ EmptyBook.admin = {}
  /\ \A c \in ClientIds : EmptyBook.status[c] = "absent" /\ EmptyBook.key[c] = NoKey
BY DEF EmptyBook, Book, Statuses

-----------------------------------------------------------------------------
(* The inductive invariant.  ClaimPermanent and AnswersDurable are not      *)
(* inductive: the next claim is refused because there is an administrator   *)
(* and administrators are approved, an endpoint can only be refused by one, *)
(* and a running relay never forgets a key that is in the file.             *)

Consistent(b) ==
  /\ \A c, d \in b.admin : c = d
  /\ \A c \in b.admin : b.status[c] = "approved"
  /\ \A c \in ClientIds : b.status[c] \in Refused => b.admin # {}
  /\ \A c \in ClientIds : b.status[c] = "absent" <=> b.key[c] = NoKey

Connected ==
  \A i \in Conns : conn[i].pc # "closed" =>
    /\ up
    /\ conn[i].client \in ClientIds
    /\ conn[i].key \in Keys
    /\ conn[i].kind \in Kinds
    /\ conn[i].known => book.status[conn[i].client] # "absent"

Remembered ==
  up => \A c \in ClientIds :
          /\ book.status[c] # "legacy"
          /\ disk.key[c] # NoKey => book.key[c] = disk.key[c]

RegistryInv ==
  /\ TypeOK
  /\ Consistent(book)
  /\ Consistent(disk)
  /\ Connected
  /\ Remembered
  /\ AuthenticatedByRecordedKey
  /\ ClaimPermanent
  /\ AnswersDurable

(* Most steps of a running relay enroll endpoints or touch only Wisps, kinds *)
(* and connections: e extends b.  A save writes the fields of e that count.  *)

Extends(b, e) ==
  /\ e \in Book
  /\ Consistent(e)
  /\ e.admin = b.admin
  /\ \A c \in ClientIds :
       /\ e.status[c] # "legacy" \/ b.status[c] = "legacy"
       /\ b.status[c] # "absent" => e.status[c] = b.status[c] /\ e.key[c] = b.key[c]

SameRecords(b, e) ==
  /\ e \in Book
  /\ e.status = b.status
  /\ e.admin = b.admin
  /\ e.key = b.key

(* Connections go on as they were or close, and one that gets past          *)
(* authentication does so with the recorded key.                            *)
ConnsFollow ==
  /\ conn' \in [Conns -> Connection]
  /\ \A i \in Conns : conn'[i].pc # "closed" =>
       /\ conn[i].pc # "closed"
       /\ conn'[i].client = conn[i].client
       /\ conn'[i].key = conn[i].key
       /\ conn'[i].kind = conn[i].kind
       /\ conn'[i].known = conn[i].known
       /\ conn'[i].pc # "challenged" =>
            \/ conn[i].pc # "challenged"
            \/ /\ book'.status[conn[i].client] # "absent"
               /\ book'.key[conn[i].client] = conn[i].key

(* Consistency is about the records only.                                   *)
LEMMA SameIsConsistent ==
  ASSUME NEW b \in Book, NEW e, SameRecords(b, e), Consistent(b)
  PROVE  Consistent(e)
BY DEF SameRecords, Consistent

(* A book with the same records extends the old one.                        *)
LEMMA SameExtends ==
  ASSUME NEW b \in Book, NEW e, SameRecords(b, e), Consistent(b)
  PROVE  Extends(b, e)
BY SameIsConsistent DEF SameRecords, Extends

(* A closed connection is a connection.                                     *)
LEMMA ClosedType == Closed \in Connection
BY DEF Closed, Connection, Phases

(* An extension stays one when only Wisps or kinds change.                  *)
LEMMA ExtendsThenSame ==
  ASSUME NEW b, NEW e \in Book, NEW f, Extends(b, e), SameRecords(e, f)
  PROVE  Extends(b, f)
BY SameIsConsistent DEF Extends, SameRecords

(* A step that only enrols, and admits connections by the recorded key      *)
(* only, keeps the invariant.                                               *)
LEMMA ExtendingKeepsInv ==
  ASSUME RegistryInv, up, up' = up, claimed' = claimed, answered' = answered,
         Extends(book, book'),
         disk' = disk \/ SameRecords(book', disk'),
         ConnsFollow
  PROVE  RegistryInv'
<1> USE DEF RegistryInv
<1>1. TypeOK'
  BY DEF TypeOK, Extends, SameRecords, ConnsFollow
<1>2. Consistent(book)'
  BY DEF Extends, Consistent
<1>3. Consistent(disk)'
  BY <1>2, SameIsConsistent DEF Extends, Consistent, SameRecords
<1>4. Connected'
  BY DEF Connected, ConnsFollow, Extends, TypeOK
<1>5. Remembered'
  <2> SUFFICES ASSUME NEW c \in ClientIds
               PROVE  /\ book'.status[c] # "legacy"
                      /\ disk'.key[c] # NoKey => book'.key[c] = disk'.key[c]
    BY DEF Remembered
  <2>1. book'.status[c] # "legacy"
    BY DEF Remembered, Extends
  <2>2. CASE SameRecords(book', disk')
    BY <2>1, <2>2 DEF SameRecords
  <2>3. CASE disk' = disk
    <3>1. disk.key[c] # NoKey => book.key[c] = disk.key[c]
      BY DEF Remembered
    <3>2. book.key[c] # NoKey => book.status[c] # "absent"
      BY DEF Consistent
    <3>3. QED
      BY <2>1, <2>3, <3>1, <3>2 DEF Extends
  <2>4. QED
    BY <2>2, <2>3
<1>6. AuthenticatedByRecordedKey'
  BY DEF AuthenticatedByRecordedKey, MayManage, ConnsFollow, Extends, Connected, TypeOK, Connection, Phases
<1>7. ClaimPermanent'
  BY DEF ClaimPermanent, Extends, SameRecords, TypeOK, Book
<1>8. AnswersDurable'
  BY DEF AnswersDurable, Extends, SameRecords, TypeOK, Book
<1>9. QED
  BY <1>1, <1>2, <1>3, <1>4, <1>5, <1>6, <1>7, <1>8

-----------------------------------------------------------------------------
(* One lemma per group of actions                                           *)

(* Enrolling extends a consistent registry.                                 *)
LEMMA EnrollExtends ==
  ASSUME RegistryInv, up, NEW c \in ClientIds, NEW k \in Keys, NEW kind \in Kinds
  PROVE  Extends(book, EnrollClient(book, c, k, kind))
<1> DEFINE e == EnrollClient(book, c, k, kind)
<1>1. book \in Book /\ Consistent(book)
  BY DEF RegistryInv, TypeOK
<1>2. /\ e \in Book
      /\ e.admin = book.admin
      /\ \A d \in ClientIds :
           /\ book.status[d] # "absent" => e.status[d] = book.status[d] /\ e.key[d] = book.key[d]
           /\ book.status[d] = "absent" =>
                \/ e.status[d] = "absent" /\ e.key[d] = book.key[d]
                \/ e.status[d] = "pending" /\ e.key[d] = k
  BY <1>1, EnrollFacts
<1> HIDE DEF e
<1>3. book.admin \subseteq ClientIds
  BY <1>1 DEF Book
<1>4. Consistent(e)
  BY <1>1, <1>2, <1>3, RegistryAssumption DEF Consistent, Refused
<1>5. Extends(book, e)
  BY <1>2, <1>4 DEF Extends
<1>6. QED
  BY <1>5 DEF e

(* The file of an earlier version, or none, satisfies the invariant.        *)
LEMMA InitInv == Init => RegistryInv
<1> SUFFICES ASSUME Init PROVE RegistryInv
  OBVIOUS
<1>1. PICK owners \in [ClientIds -> Keys \cup {NoKey}] :
        disk = [EmptyBook EXCEPT
                  !.status = [c \in ClientIds |-> IF owners[c] = NoKey THEN "absent" ELSE "legacy"],
                  !.key = owners]
  BY DEF Init
<1>2. disk \in Book /\ disk.admin = {} /\ disk.key = owners
      /\ \A c \in ClientIds : disk.status[c] = IF owners[c] = NoKey THEN "absent" ELSE "legacy"
  BY <1>1 DEF EmptyBook, Book, Statuses
<1>3. TypeOK
  BY <1>2, EmptyFacts DEF Init, TypeOK, Closed, Connection, Phases
<1>4. Consistent(book) /\ Consistent(disk)
  BY <1>2, EmptyFacts DEF Init, Consistent, Refused
<1>5. Connected /\ Remembered /\ AuthenticatedByRecordedKey
  BY DEF Init, Connected, Remembered, AuthenticatedByRecordedKey, MayManage, Closed
<1>6. ClaimPermanent /\ AnswersDurable
  BY DEF Init, ClaimPermanent, AnswersDurable
<1>7. QED
  BY <1>3, <1>4, <1>5, <1>6 DEF RegistryInv

(* load on start: memory is the file's content again.                       *)
LEMMA StartInv == RegistryInv /\ Start => RegistryInv'
<1> SUFFICES ASSUME RegistryInv, Start PROVE RegistryInv'
  OBVIOUS
<1> USE DEF RegistryInv, Start
<1>1. TypeOK' /\ book' \in Book
  BY LoadFacts DEF TypeOK
<1>2. Consistent(book)' /\ Consistent(disk)'
  <2>1. disk.admin \subseteq ClientIds
    BY DEF TypeOK, Book
  <2>2. /\ book'.admin = disk.admin /\ book'.key = disk.key
        /\ \A c \in ClientIds :
             book'.status[c] = IF disk.status[c] = "legacy" THEN "approved" ELSE disk.status[c]
    BY LoadFacts DEF TypeOK
  <2>3. QED
    BY <2>1, <2>2 DEF Consistent, Refused
<1>3. Connected' /\ AuthenticatedByRecordedKey'
  BY DEF Connected, AuthenticatedByRecordedKey, MayManage
<1>4. Remembered'
  BY LoadFacts DEF Remembered, TypeOK
<1>5. ClaimPermanent'
  BY LoadFacts DEF ClaimPermanent, TypeOK
<1>6. AnswersDurable'
  BY LoadFacts DEF AnswersDurable, TypeOK
<1>7. QED
  BY <1>1, <1>2, <1>3, <1>4, <1>5, <1>6

(* A crash loses memory and connections, which nothing answered rests on.   *)
LEMMA CrashInv == RegistryInv /\ Crash => RegistryInv'
<1> SUFFICES ASSUME RegistryInv, Crash PROVE RegistryInv'
  OBVIOUS
<1> USE DEF RegistryInv, Crash
<1>1. TypeOK'
  BY EmptyFacts DEF TypeOK, Closed, Connection, Phases
<1>2. Consistent(book)' /\ Consistent(disk)'
  BY EmptyFacts DEF Consistent, Refused
<1>3. Connected' /\ AuthenticatedByRecordedKey' /\ Remembered'
  BY DEF Connected, AuthenticatedByRecordedKey, MayManage, Closed, Remembered
<1>4. ClaimPermanent' /\ AnswersDurable'
  BY DEF ClaimPermanent, AnswersDurable
<1>5. QED
  BY <1>1, <1>2, <1>3, <1>4

(* The bootstrap request enrols at most, saved or not.                      *)
LEMMA BootstrapInv ==
  ASSUME RegistryInv, NEW c \in ClientIds, NEW k \in Keys, NEW kind \in Kinds,
         BootstrapRequest(c, k, kind)
  PROVE  RegistryInv'
<1>1. Extends(book, book')
  BY EnrollExtends DEF BootstrapRequest, Save, SaveFails
<1>2. disk' = disk \/ SameRecords(book', disk')
  BY <1>1 DEF BootstrapRequest, Save, SaveFails, SameRecords, Extends
<1>3. ConnsFollow
  BY DEF BootstrapRequest, ConnsFollow, RegistryInv, TypeOK
<1>4. QED
  BY <1>1, <1>2, <1>3, ExtendingKeepsInv DEF BootstrapRequest, RegistryInv, TypeOK

(* A hello changes its connection only and remembers what it read.          *)
LEMMA HelloInv ==
  ASSUME RegistryInv, NEW i \in Conns, NEW c \in ClientIds, NEW k \in Keys, NEW kind \in Kinds,
         Hello(i, c, k, kind)
  PROVE  RegistryInv'
<1> USE DEF RegistryInv, Hello
<1>1. TypeOK'
  BY DEF TypeOK, Connection, Phases
<1>2. Connected'
  BY DEF Connected, TypeOK
<1>3. AuthenticatedByRecordedKey'
  BY DEF AuthenticatedByRecordedKey, MayManage, TypeOK
<1>4. /\ Consistent(book)' /\ Consistent(disk)' /\ Remembered'
      /\ ClaimPermanent' /\ AnswersDurable'
  BY DEF Consistent, Remembered, ClaimPermanent, AnswersDurable
<1>5. QED
  BY <1>1, <1>2, <1>3, <1>4

(* The end of an authentication enrols by what it finds then, not by what   *)
(* the hello read.                                                          *)
LEMMA ProofInv ==
  ASSUME RegistryInv, NEW i \in Conns, Proof(i)
  PROVE  RegistryInv'
<1> DEFINE n == conn[i]
           b1 == IF n.known THEN book ELSE EnrollClient(book, n.client, n.key, n.kind)
           b2 == [b1 EXCEPT !.kind[n.client] = n.kind]
<1>1. /\ n.pc = "challenged" /\ up
      /\ n.client \in ClientIds /\ n.key \in Keys /\ n.kind \in Kinds
      /\ n.known => book.status[n.client] # "absent"
  BY DEF Proof, RegistryInv, Connected
<1>2. Extends(book, b1)
  <2>1. SameRecords(book, book) /\ book \in Book /\ Consistent(book)
    BY DEF RegistryInv, TypeOK, SameRecords
  <2>2. Extends(book, book)
    BY <2>1, SameExtends
  <2>3. QED
    BY <1>1, <2>2, EnrollExtends
<1>3. b1 \in Book /\ Consistent(b1)
  BY <1>2 DEF Extends
<1>4. SameRecords(b1, b2)
  BY <1>1, <1>3, KindFacts DEF SameRecords
<1>5. Extends(book, b2)
  BY <1>2, <1>3, <1>4, ExtendsThenSame
<1>6. b2.status[n.client] # "absent" /\ b2.key[n.client] = n.key
  <2>1. book \in Book /\ ProofAccess(i) \in {"approved", "admin", "pending"}
    BY DEF Proof, RegistryInv, TypeOK
  <2>2. book.status[n.client] # "absent" => book.key[n.client] = n.key
    BY <2>1 DEF ProofAccess, ClientAccess, EnrollAccess
  <2>3. b1.status[n.client] # "absent" /\ b1.key[n.client] = n.key
    <3>1. CASE n.known
      BY <1>1, <2>2, <3>1
    <3>2. CASE ~n.known
      <4>1. b1 = EnrollClient(book, n.client, n.key, n.kind)
        BY <3>2
      <4>2. QED
        BY <1>1, <2>1, <2>2, <4>1, EnrollFacts
    <3>3. QED
      BY <3>1, <3>2
  <2>4. QED
    BY <1>4, <2>3 DEF SameRecords
<1>7. book' = b2
  BY DEF Proof, Save
<1>8. disk' = disk \/ disk' = b2 \/ disk' = b1
  BY DEF Proof, Save
<1>9. disk' = disk \/ SameRecords(book', disk')
  <2>1. SameRecords(b2, b2) /\ SameRecords(b2, b1)
    BY <1>3, <1>4 DEF SameRecords
  <2>2. QED
    BY <1>7, <1>8, <2>1
<1> HIDE DEF b2
<1>10. ConnsFollow
  <2>1. \/ conn' = [conn EXCEPT ![i].pc = "authenticated"]
        \/ conn' = [conn EXCEPT ![i] = Closed]
    BY DEF Proof
  <2>2. conn \in [Conns -> Connection]
    BY DEF RegistryInv, TypeOK
  <2>3. CASE conn' = [conn EXCEPT ![i].pc = "authenticated"]
    BY <1>1, <1>6, <1>7, <2>2, <2>3 DEF ConnsFollow, Connection, Phases
  <2>4. CASE conn' = [conn EXCEPT ![i] = Closed]
    BY <2>2, <2>4 DEF ConnsFollow, Connection, Phases, Closed
  <2>5. QED
    BY <2>1, <2>3, <2>4
<1>11. UNCHANGED <<up, claimed, answered>>
  BY DEF Proof, RegistryInv, TypeOK
<1>12. QED
  BY <1>1, <1>5, <1>7, <1>9, <1>10, <1>11, ExtendingKeepsInv

(* A step of connection i that leaves the records as they are               *)
LEMMA RecordsKeptInv ==
  ASSUME RegistryInv, NEW i \in Conns, conn[i].pc \notin {"closed", "challenged"},
         up' = up, claimed' = claimed, answered' = answered,
         SameRecords(book, book'),
         disk' \in {disk, book'},
         \/ conn' = conn
         \/ conn' = [conn EXCEPT ![i] = Closed]
         \/ \E p \in Phases : conn' = [conn EXCEPT ![i].pc = p]
  PROVE  RegistryInv'
<1>1. book \in Book /\ Consistent(book) /\ conn \in [Conns -> Connection] /\ up
  BY DEF RegistryInv, TypeOK, Connected
<1>2. Extends(book, book')
  BY <1>1, SameExtends
<1>3. disk' = disk \/ SameRecords(book', disk')
  BY DEF SameRecords
<1>4. ConnsFollow
  <2>1. CASE conn' = conn
    BY <1>1, <2>1 DEF ConnsFollow
  <2>2. CASE conn' = [conn EXCEPT ![i] = Closed]
    BY <1>1, <2>2 DEF ConnsFollow, Connection, Phases, Closed
  <2>3. CASE \E p \in Phases : conn' = [conn EXCEPT ![i].pc = p]
    BY <1>1, <2>3 DEF ConnsFollow, Connection, Phases
  <2>4. QED
    BY <2>1, <2>2, <2>3
<1>5. QED
  BY <1>1, <1>2, <1>3, <1>4, ExtendingKeepsInv

(* A connection that ends takes nothing with it.                            *)
LEMMA DropInv ==
  ASSUME RegistryInv, NEW i \in Conns, Drop(i)
  PROVE  RegistryInv'
<1>1. book \in Book /\ Consistent(book) /\ conn \in [Conns -> Connection] /\ up
  BY DEF RegistryInv, TypeOK, Connected, Drop
<1>2. Extends(book, book') /\ SameRecords(book, book')
  BY <1>1, SameExtends DEF Drop, SameRecords
<1>3. ConnsFollow
  BY <1>1 DEF Drop, ConnsFollow, Connection, Phases, Closed
<1>4. QED
  BY <1>1, <1>2, <1>3, ExtendingKeepsInv DEF Drop, RegistryInv, TypeOK

(* join, registrations and the Wisp requests keep the records.              *)
LEMMA KeepingActionsInv ==
  ASSUME RegistryInv, NEW i \in Conns,
         \/ Join(i)
         \/ \E items \in SUBSET WispIds : RegisterWisps(i, items)
         \/ ClaimAgain(i)
         \/ \E w \in WispIds, owner \in ClientIds : RegisterWispRequest(i, w, owner)
         \/ \E w \in WispIds : RemoveWispRequest(i, w)
  PROVE  RegistryInv'
<1>1. book \in Book /\ (conn[i].pc # "closed" => conn[i].client \in ClientIds)
  BY DEF RegistryInv, TypeOK, Connected
<1>2. SameRecords(book, book)
  BY <1>1 DEF SameRecords
<1> USE DEF Save, SaveFails, Answered, MayManage, Phases
<1>3. CASE Join(i)
  BY <1>1, <1>2, <1>3, RecordsKeptInv DEF Join
<1>4. ASSUME NEW items \in SUBSET WispIds, RegisterWisps(i, items) PROVE RegistryInv'
  <2>1. SameRecords(book, WithWisps(book, conn[i].client, items))
    BY <1>1, <1>4, WispFacts DEF RegisterWisps, SameRecords
  <2>2. QED
    BY <1>1, <1>4, <2>1, RecordsKeptInv DEF RegisterWisps
<1>5. CASE ClaimAgain(i)
  BY <1>1, <1>2, <1>5, RecordsKeptInv DEF ClaimAgain
<1>6. ASSUME NEW w \in WispIds, NEW owner \in ClientIds, RegisterWispRequest(i, w, owner)
      PROVE RegistryInv'
  <2>1. SameRecords(book, [book EXCEPT !.wisps[w] = owner])
    BY <1>1, OneWispFacts DEF SameRecords
  <2>2. QED
    BY <1>1, <1>6, <2>1, RecordsKeptInv DEF RegisterWispRequest
<1>7. ASSUME NEW w \in WispIds, RemoveWispRequest(i, w) PROVE RegistryInv'
  <2>1. SameRecords(book, [book EXCEPT !.wisps[w] = NoOwner])
    BY <1>1, OneWispFacts DEF SameRecords
  <2>2. QED
    BY <1>1, <1>7, <2>1, RecordsKeptInv DEF RemoveWispRequest
<1>8. QED
  BY <1>3, <1>4, <1>5, <1>6, <1>7

(* claim_admin: with no approved administrator there is none at all, so the *)
(* claimant is alone, and nobody was answered "claimed" before.             *)
LEMMA ClaimInv ==
  ASSUME RegistryInv, NEW i \in Conns, ClaimRequest(i)
  PROVE  RegistryInv'
<1> DEFINE c == conn[i].client
           e == ClaimAdmin(book, c)
<1>1. /\ up /\ c \in ClientIds /\ book \in Book /\ book.admin \subseteq ClientIds
      /\ conn \in [Conns -> Connection]
  BY DEF ClaimRequest, MayManage, RegistryInv, Connected, TypeOK, Book
<1>2. book.admin = {}
  BY <1>1 DEF ClaimRequest, ApprovedAdmins, RegistryInv, Consistent
<1>3. claimed = {}
  BY <1>1, <1>2 DEF RegistryInv, ClaimPermanent
<1>4. /\ e \in Book /\ e.admin = {c} /\ e.key = book.key /\ e.status[c] = "approved"
      /\ \A d \in ClientIds \ {c} : e.status[d] = book.status[d]
  BY <1>1, <1>2, ClaimFacts
<1>5. book.status[c] # "absent"
  BY DEF ClaimRequest
<1>6. book' = e /\ disk' \in {disk, e} /\ up' = up
  BY DEF ClaimRequest, Save, SaveFails
<1>7. \/ /\ disk' = e /\ claimed' = {c}
         /\ answered' = [answered EXCEPT ![c] = "approved"]
      \/ /\ claimed' = {}
         /\ answered' = [answered EXCEPT ![c] = "none"]
  BY <1>3 DEF ClaimRequest, Save, SaveFails
<1>8. conn' = conn \/ conn' = [conn EXCEPT ![i] = Closed]
  BY DEF ClaimRequest, Answered
<1> HIDE DEF e
<1>9. TypeOK'
  <2>1. conn' \in [Conns -> Connection]
    BY <1>1, <1>8, ClosedType
  <2>2. /\ answered' \in [ClientIds -> {"none", "approved", "rejected", "revoked"}]
        /\ claimed' \in SUBSET ClientIds
    BY <1>1, <1>7 DEF RegistryInv, TypeOK
  <2>3. up' \in BOOLEAN /\ book' \in Book /\ disk' \in Book
    BY <1>4, <1>6 DEF RegistryInv, TypeOK
  <2>4. QED
    BY <2>1, <2>2, <2>3 DEF TypeOK
<1>10. Consistent(e)
  BY <1>1, <1>4, <1>5 DEF RegistryInv, Consistent, Refused
<1>11. Consistent(book)' /\ Consistent(disk)'
  BY <1>6, <1>10 DEF RegistryInv, Consistent
<1>12. Connected'
  BY <1>1, <1>4, <1>6, <1>8 DEF RegistryInv, Connected, Closed
<1>13. Remembered'
  BY <1>1, <1>4, <1>6 DEF RegistryInv, Remembered
<1>14. AuthenticatedByRecordedKey'
  <2>1. \A j \in Conns : MayManage(j)' =>
          MayManage(j) /\ conn'[j].client = conn[j].client /\ conn'[j].key = conn[j].key
                       /\ conn[j].client \in ClientIds
    BY <1>1, <1>8 DEF MayManage, Closed, RegistryInv, Connected
  <2>2. QED
    BY <1>1, <1>4, <1>5, <1>6, <2>1 DEF RegistryInv, AuthenticatedByRecordedKey
<1>15. ClaimPermanent'
  BY <1>4, <1>6, <1>7 DEF ClaimPermanent
<1>16. AnswersDurable'
  <2>1. answered \in [ClientIds -> {"none", "approved", "rejected", "revoked"}]
    BY DEF RegistryInv, TypeOK
  <2>2. QED
    BY <1>1, <1>4, <1>6, <1>7, <2>1 DEF RegistryInv, AnswersDurable
<1>17. QED
  BY <1>9, <1>11, <1>12, <1>13, <1>14, <1>15, <1>16 DEF RegistryInv

(* approve, reject and revoke: the request is an administrator's and about  *)
(* another endpoint, so the administrator it finds stays.                   *)
LEMMA StatusInv ==
  ASSUME RegistryInv, NEW i \in Conns, NEW target \in ClientIds,
         NEW s \in {"approved", "rejected", "revoked"}, StatusRequest(i, target, s)
  PROVE  RegistryInv'
<1> DEFINE a == conn[i].client
           b1 == SetClientStatus(book, target, s)
           b2 == IF s = "approved" THEN b1 ELSE RemoveWispsForOwner(b1, target)
<1>1. /\ up /\ a \in ClientIds /\ book \in Book /\ book.admin \subseteq ClientIds
      /\ conn \in [Conns -> Connection]
  BY DEF StatusRequest, MayManage, RegistryInv, Connected, TypeOK, Book
<1>2. /\ book.admin = {a} /\ book.status[a] = "approved" /\ target # a
      /\ book.status[target] # "absent"
  BY <1>1 DEF StatusRequest, IsAdmin, RegistryInv, Consistent
<1>3. /\ b1 \in Book /\ b1.admin = {a} /\ b1.key = book.key /\ b1.status[target] = s
      /\ \A d \in ClientIds \ {target} : b1.status[d] = book.status[d]
  <2>1. /\ b1 \in Book /\ b1.key = book.key /\ b1.status[target] = s
        /\ \A d \in ClientIds \ {target} : b1.status[d] = book.status[d]
        /\ s = "approved" => b1.admin = book.admin
        /\ s # "approved" => b1.admin = book.admin \ {target}
    <3>1. s \in Statuses
      BY DEF Statuses
    <3>2. QED
      BY <1>1, <3>1, StatusFacts
  <2>2. b1.admin = {a}
    BY <1>2, <2>1
  <2>3. QED
    BY <2>1, <2>2
<1>4. SameRecords(b1, b2) /\ SameRecords(b1, b1)
  BY <1>3, WispFacts DEF SameRecords
<1>5. /\ up' = up /\ claimed' = claimed
      /\ \/ /\ book' = b2 /\ disk' = b1
            /\ answered' = [answered EXCEPT ![target] = s]
         \/ /\ book' = b1 /\ disk' = disk
            /\ answered' = [answered EXCEPT ![target] = "none"]
  BY DEF StatusRequest, SaveFails
<1>6. conn' = conn \/ conn' = [conn EXCEPT ![i] = Closed]
  BY DEF StatusRequest, Answered
<1>7. SameRecords(b1, book') /\ disk' \in {disk, b1}
  BY <1>4, <1>5
<1> HIDE DEF b1, b2
<1>8. /\ book' \in Book /\ book'.admin = {a} /\ book'.key = book.key /\ book'.status[target] = s
      /\ \A d \in ClientIds \ {target} : book'.status[d] = book.status[d]
  BY <1>3, <1>7 DEF SameRecords
<1>9. TypeOK'
  <2>1. conn' \in [Conns -> Connection]
    BY <1>1, <1>6, ClosedType
  <2>2. answered' \in [ClientIds -> {"none", "approved", "rejected", "revoked"}]
    BY <1>5 DEF RegistryInv, TypeOK
  <2>3. up' \in BOOLEAN /\ book' \in Book /\ disk' \in Book
    BY <1>3, <1>5, <1>7, <1>8 DEF RegistryInv, TypeOK
  <2>4. QED
    BY <1>5, <2>1, <2>2, <2>3 DEF RegistryInv, TypeOK
<1>10. Consistent(b1)
  BY <1>1, <1>2, <1>3 DEF RegistryInv, Consistent, Refused
<1>11. Consistent(book)' /\ Consistent(disk)'
  <2>1. Consistent(book')
    BY <1>3, <1>7, <1>10, SameIsConsistent
  <2>2. Consistent(disk')
    BY <1>7, <1>10 DEF RegistryInv
  <2>3. QED
    BY <2>1, <2>2 DEF Consistent
<1>12. Connected'
  BY <1>1, <1>2, <1>5, <1>6, <1>8 DEF RegistryInv, Connected, Closed
<1>13. Remembered'
  BY <1>1, <1>3, <1>5, <1>7, <1>8 DEF RegistryInv, Remembered
<1>14. AuthenticatedByRecordedKey'
  <2>1. \A j \in Conns : MayManage(j)' =>
          MayManage(j) /\ conn'[j].client = conn[j].client /\ conn'[j].key = conn[j].key
                       /\ conn[j].client \in ClientIds
    BY <1>1, <1>6 DEF MayManage, Closed, RegistryInv, Connected
  <2>2. QED
    BY <1>8, <2>1 DEF RegistryInv, AuthenticatedByRecordedKey
<1>15. ClaimPermanent'
  <2>1. \A c \in claimed : c = a /\ disk.admin = {a} /\ disk.status[a] = "approved"
    BY <1>1, <1>2 DEF RegistryInv, ClaimPermanent
  <2>2. QED
    BY <1>1, <1>2, <1>3, <1>5, <1>7, <1>8, <2>1 DEF ClaimPermanent
<1>16. AnswersDurable'
  <2>1. answered \in [ClientIds -> {"none", "approved", "rejected", "revoked"}]
    BY DEF RegistryInv, TypeOK
  <2>2. \A d \in ClientIds \ {target} : answered'[d] = answered[d]
    BY <1>5, <2>1
  <2>3. answered'[target] # "none" => answered'[target] = s /\ disk' = b1
    BY <1>5, <2>1
  <2>4. QED
    BY <1>1, <1>3, <1>5, <1>7, <1>8, <2>2, <2>3 DEF RegistryInv, AnswersDurable
<1>17. QED
  BY <1>9, <1>11, <1>12, <1>13, <1>14, <1>15, <1>16 DEF RegistryInv

-----------------------------------------------------------------------------
(* Theorems                                                                 *)

(* Every step of the relay keeps the inductive invariant.                   *)
LEMMA StepInv == RegistryInv /\ [Next]_vars => RegistryInv'
<1> SUFFICES ASSUME RegistryInv, [Next]_vars PROVE RegistryInv'
  OBVIOUS
<1>1. CASE UNCHANGED vars
  BY <1>1 DEF vars, RegistryInv, TypeOK, Consistent, Connected, Remembered,
              AuthenticatedByRecordedKey, MayManage, ClaimPermanent, AnswersDurable
<1>2. CASE Start
  BY <1>2, StartInv
<1>3. CASE Crash
  BY <1>3, CrashInv
<1>4. ASSUME NEW c \in ClientIds, NEW k \in Keys, NEW kind \in Kinds,
             BootstrapRequest(c, k, kind)
      PROVE  RegistryInv'
  BY <1>4, BootstrapInv
<1>5. ASSUME NEW i \in Conns, NEW c \in ClientIds, NEW k \in Keys, NEW kind \in Kinds,
             Hello(i, c, k, kind)
      PROVE  RegistryInv'
  BY <1>5, HelloInv
<1>6. ASSUME NEW i \in Conns, Proof(i) PROVE RegistryInv'
  BY <1>6, ProofInv
<1>7. ASSUME NEW i \in Conns, Drop(i) PROVE RegistryInv'
  BY <1>7, DropInv
<1>8. ASSUME NEW i \in Conns, ClaimRequest(i) PROVE RegistryInv'
  BY <1>8, ClaimInv
<1>9. ASSUME NEW i \in Conns, NEW target \in ClientIds,
             NEW s \in {"approved", "rejected", "revoked"}, StatusRequest(i, target, s)
      PROVE  RegistryInv'
  BY <1>9, StatusInv
<1>10. QED
  BY <1>1, <1>2, <1>3, <1>4, <1>5, <1>6, <1>7, <1>8, <1>9, KeepingActionsInv DEF Next

(* The inductive invariant holds in every reachable state of the registry. *)
THEOREM Invariance == Spec => []RegistryInv
<1>1. QED
  BY InitInv, StepInv, PTL DEF Spec

(* The registry's state keeps its type. *)
THEOREM TypeCorrect == Spec => []TypeOK
<1>1. RegistryInv => TypeOK
  BY DEF RegistryInv
<1>2. QED
  BY <1>1, Invariance, PTL

(* An answered administrator claim outlives every later request, failed     *)
(* save, crash and restart.                                                 *)
THEOREM ClaimIsPermanent == Spec => []ClaimPermanent
<1>1. RegistryInv => ClaimPermanent
  BY DEF RegistryInv
<1>2. QED
  BY <1>1, Invariance, PTL

(* A status the relay answered it had set is in the file and in memory.     *)
THEOREM AnswersAreDurable == Spec => []AnswersDurable
<1>1. RegistryInv => AnswersDurable
  BY DEF RegistryInv
<1>2. QED
  BY <1>1, Invariance, PTL

(* Whoever is past authentication proved the key on record.                 *)
THEOREM OnlyTheRecordedKey == Spec => []AuthenticatedByRecordedKey
<1>1. RegistryInv => AuthenticatedByRecordedKey
  BY DEF RegistryInv
<1>2. QED
  BY <1>1, Invariance, PTL

(* What a step writes to the file keeps every key that memory holds, and    *)
(* memory holds every key of the file while the relay runs.                 *)
LEMMA WritesKeepKeys ==
  ASSUME RegistryInv, Next
  PROVE  disk' = disk \/ (up /\ \A c \in ClientIds : book.key[c] # NoKey => disk'.key[c] = book.key[c])
<1>1. /\ book \in Book
      /\ \A i \in Conns : conn[i].pc # "closed" =>
           up /\ conn[i].client \in ClientIds /\ conn[i].key \in Keys /\ conn[i].kind \in Kinds
      /\ \A c \in ClientIds : book.status[c] = "absent" <=> book.key[c] = NoKey
  BY DEF RegistryInv, TypeOK, Connected, Consistent
<1> USE DEF Save, SaveFails
<1>2. ASSUME NEW c \in ClientIds, NEW k \in Keys, NEW kind \in Kinds,
             BootstrapRequest(c, k, kind) \/ \E i \in Conns : Hello(i, c, k, kind)
      PROVE  disk' = disk \/ (up /\ \A d \in ClientIds : book.key[d] # NoKey => disk'.key[d] = book.key[d])
  <2>1. \A d \in ClientIds : book.key[d] # NoKey => EnrollClient(book, c, k, kind).key[d] = book.key[d]
    BY <1>1, EnrollFacts
  <2>2. QED
    BY <1>2, <2>1 DEF BootstrapRequest, Hello
<1>3. ASSUME NEW i \in Conns, Proof(i)
      PROVE  disk' = disk \/ (up /\ \A d \in ClientIds : book.key[d] # NoKey => disk'.key[d] = book.key[d])
  <2> DEFINE n == conn[i]
             b1 == IF n.known THEN book ELSE EnrollClient(book, n.client, n.key, n.kind)
             b2 == [b1 EXCEPT !.kind[n.client] = n.kind]
  <2>1. up /\ n.client \in ClientIds /\ n.key \in Keys /\ n.kind \in Kinds
    BY <1>1, <1>3 DEF Proof
  <2>2. Extends(book, EnrollClient(book, n.client, n.key, n.kind)) /\ Extends(book, book)
    BY <1>1, <2>1, EnrollExtends, SameExtends DEF RegistryInv, SameRecords
  <2>3. Extends(book, b1)
    BY <2>2
  <2>4. b1 \in Book /\ \A d \in ClientIds : book.key[d] # NoKey => b1.key[d] = book.key[d]
    BY <1>1, <2>3 DEF Extends
  <2>5. b2.key = b1.key
    BY <2>1, <2>4, KindFacts
  <2>6. disk' = disk \/ disk' = b1 \/ disk' = b2
    BY <1>3 DEF Proof
  <2> HIDE DEF b1, b2
  <2>7. QED
    BY <2>1, <2>4, <2>5, <2>6
<1>4. ASSUME NEW i \in Conns, Drop(i) \/ Join(i) \/ ClaimAgain(i)
      PROVE  disk' = disk \/ (up /\ \A d \in ClientIds : book.key[d] # NoKey => disk'.key[d] = book.key[d])
  BY <1>1, <1>4 DEF Drop, Join, ClaimAgain
<1>5. ASSUME NEW i \in Conns, ClaimRequest(i)
      PROVE  disk' = disk \/ (up /\ \A d \in ClientIds : book.key[d] # NoKey => disk'.key[d] = book.key[d])
  BY <1>1, <1>5, ClaimFacts DEF ClaimRequest, MayManage
<1>6. ASSUME NEW i \in Conns, NEW target \in ClientIds,
             NEW s \in {"approved", "rejected", "revoked"}, StatusRequest(i, target, s)
      PROVE  disk' = disk \/ (up /\ \A d \in ClientIds : book.key[d] # NoKey => disk'.key[d] = book.key[d])
  <2>1. s \in Statuses
    BY DEF Statuses
  <2>2. SetClientStatus(book, target, s).key = book.key
    BY <1>1, <2>1, StatusFacts
  <2>3. up /\ disk' \in {disk, SetClientStatus(book, target, s)}
    BY <1>1, <1>6 DEF StatusRequest, MayManage
  <2>4. QED
    BY <2>2, <2>3
<1>7. ASSUME NEW i \in Conns,
             \/ \E items \in SUBSET WispIds : RegisterWisps(i, items)
             \/ \E w \in WispIds, owner \in ClientIds : RegisterWispRequest(i, w, owner)
             \/ \E w \in WispIds : RemoveWispRequest(i, w)
      PROVE  disk' = disk \/ (up /\ \A d \in ClientIds : book.key[d] # NoKey => disk'.key[d] = book.key[d])
  <2>1. ASSUME NEW items \in SUBSET WispIds, RegisterWisps(i, items)
        PROVE  up /\ disk' \in {disk, book'} /\ book'.key = book.key
    BY <1>1, <2>1, WispFacts DEF RegisterWisps
  <2>2. ASSUME NEW w \in WispIds, NEW owner \in ClientIds, RegisterWispRequest(i, w, owner)
        PROVE  up /\ disk' \in {disk, book'} /\ book'.key = book.key
    <3>1. [book EXCEPT !.wisps[w] = owner].key = book.key
      BY <1>1, OneWispFacts
    <3>2. QED
      BY <1>1, <2>2, <3>1 DEF RegisterWispRequest, MayManage
  <2>3. ASSUME NEW w \in WispIds, RemoveWispRequest(i, w)
        PROVE  up /\ disk' \in {disk, book'} /\ book'.key = book.key
    <3>1. [book EXCEPT !.wisps[w] = NoOwner].key = book.key
      BY <1>1, OneWispFacts
    <3>2. QED
      BY <1>1, <2>3, <3>1 DEF RemoveWispRequest, MayManage
  <2>4. QED
    BY <1>7, <2>1, <2>2, <2>3
<1>8. CASE Start \/ Crash
  BY <1>8 DEF Start, Crash
<1>9. QED
  BY <1>2, <1>3, <1>4, <1>5, <1>6, <1>7, <1>8 DEF Next

(* The key of an endpoint in the file never changes.                        *)
THEOREM KeysArePinned == Spec => KeyPinned
<1>1. RegistryInv /\ [Next]_vars
        => [\A c \in ClientIds : disk.key[c] # NoKey => disk'.key[c] = disk.key[c]]_vars
  <2> SUFFICES ASSUME RegistryInv, Next, NEW c \in ClientIds, disk.key[c] # NoKey
               PROVE  disk'.key[c] = disk.key[c]
    OBVIOUS
  <2>1. up => book.key[c] = disk.key[c]
    BY DEF RegistryInv, Remembered
  <2>2. QED
    BY <2>1, WritesKeepKeys
<1>2. QED
  BY <1>1, Invariance, PTL DEF Spec, KeyPinned

(* A refused endpoint is approved by a request of another one, which is an  *)
(* administrator: the claim is not open, since somebody refused it.         *)
LEMMA ApprovedByAdmin ==
  ASSUME RegistryInv, Next, up, up', NEW c \in ClientIds,
         book.status[c] \in Refused, book'.status[c] = "approved"
  PROVE  \E i \in Conns : conn[i].client # c /\ IsAdmin(book, conn[i].client)
<1>1. /\ book \in Book
      /\ \A i \in Conns : conn[i].pc # "closed" =>
           conn[i].client \in ClientIds /\ conn[i].key \in Keys /\ conn[i].kind \in Kinds
      /\ book.admin # {}
      /\ \A d \in book.admin : book.status[d] = "approved"
  BY DEF RegistryInv, TypeOK, Connected, Consistent
<1>2. book.status[c] # "absent" /\ book'.status[c] # book.status[c]
  BY DEF Refused
<1> USE DEF Save, SaveFails
<1>3. ASSUME NEW d \in ClientIds, NEW k \in Keys, NEW kind \in Kinds,
             BootstrapRequest(d, k, kind) \/ \E i \in Conns : Hello(i, d, k, kind)
      PROVE  FALSE
  <2>1. EnrollClient(book, d, k, kind).status[c] = book.status[c]
    BY <1>1, <1>2, EnrollFacts
  <2>2. QED
    BY <1>2, <1>3, <2>1 DEF BootstrapRequest, Hello
<1>4. ASSUME NEW i \in Conns, Proof(i)
      PROVE  FALSE
  <2> DEFINE n == conn[i]
             b1 == IF n.known THEN book ELSE EnrollClient(book, n.client, n.key, n.kind)
             b2 == [b1 EXCEPT !.kind[n.client] = n.kind]
  <2>1. n.client \in ClientIds /\ n.key \in Keys /\ n.kind \in Kinds
    BY <1>1, <1>4 DEF Proof
  <2>2. b1 \in Book /\ b1.status[c] = book.status[c]
    BY <1>1, <1>2, <2>1, EnrollFacts
  <2>3. b2.status = b1.status
    BY <2>1, <2>2, KindFacts
  <2>4. book' = b2
    BY <1>4 DEF Proof
  <2> HIDE DEF b1, b2
  <2>5. QED
    BY <1>2, <2>2, <2>3, <2>4
<1>5. ASSUME NEW i \in Conns, Drop(i) \/ Join(i) \/ ClaimAgain(i)
      PROVE  FALSE
  BY <1>2, <1>5 DEF Drop, Join, ClaimAgain
<1>6. ASSUME NEW i \in Conns, ClaimRequest(i)
      PROVE  FALSE
  <2>1. ApprovedAdmins(book) = {}
    BY <1>6 DEF ClaimRequest
  <2>2. QED
    BY <1>1, <2>1 DEF ApprovedAdmins
<1>7. ASSUME NEW i \in Conns, NEW target \in ClientIds,
             NEW s \in {"approved", "rejected", "revoked"}, StatusRequest(i, target, s)
      PROVE  conn[i].client # c /\ IsAdmin(book, conn[i].client)
  <2> DEFINE b1 == SetClientStatus(book, target, s)
  <2>1. s \in Statuses
    BY DEF Statuses
  <2>2. b1 \in Book /\ (target # c => b1.status[c] = book.status[c])
    BY <1>1, <2>1, StatusFacts
  <2>3. RemoveWispsForOwner(b1, target).status = b1.status
    BY <2>2, WispFacts
  <2>4. book'.status = b1.status
    BY <1>7, <2>3 DEF StatusRequest
  <2>5. target = c
    BY <1>2, <2>2, <2>4
  <2>6. QED
    BY <1>7, <2>5 DEF StatusRequest
<1>8. ASSUME NEW i \in Conns,
             \/ \E items \in SUBSET WispIds : RegisterWisps(i, items)
             \/ \E w \in WispIds, owner \in ClientIds : RegisterWispRequest(i, w, owner)
             \/ \E w \in WispIds : RemoveWispRequest(i, w)
      PROVE  FALSE
  <2>1. ASSUME NEW items \in SUBSET WispIds, RegisterWisps(i, items)
        PROVE  book'.status = book.status
    BY <1>1, <2>1, WispFacts DEF RegisterWisps
  <2>2. ASSUME NEW w \in WispIds, NEW owner \in ClientIds, RegisterWispRequest(i, w, owner)
        PROVE  book'.status = book.status
    <3>1. [book EXCEPT !.wisps[w] = owner].status = book.status
      BY <1>1, OneWispFacts
    <3>2. QED
      BY <2>2, <3>1 DEF RegisterWispRequest
  <2>3. ASSUME NEW w \in WispIds, RemoveWispRequest(i, w)
        PROVE  book'.status = book.status
    <3>1. [book EXCEPT !.wisps[w] = NoOwner].status = book.status
      BY <1>1, OneWispFacts
    <3>2. QED
      BY <2>3, <3>1 DEF RemoveWispRequest
  <2>4. QED
    BY <1>2, <1>8, <2>1, <2>2, <2>3
<1>9. CASE Start \/ Crash
  BY <1>9 DEF Start, Crash
<1>10. QED
  BY <1>3, <1>4, <1>5, <1>6, <1>7, <1>8, <1>9 DEF Next

(* A running relay lets a refused endpoint back in only on the request of   *)
(* an administrator other than itself.                                      *)
THEOREM RefusedStayOut == Spec => RefusedUntilApproved
<1>1. RegistryInv /\ [Next]_vars
        => [\A c \in ClientIds :
              up /\ up' /\ book.status[c] \in Refused /\ book'.status[c] = "approved"
                => \E i \in Conns : conn[i].client # c /\ IsAdmin(book, conn[i].client)]_vars
  BY ApprovedByAdmin
<1>2. QED
  BY <1>1, Invariance, PTL DEF Spec, RefusedUntilApproved
=============================================================================
