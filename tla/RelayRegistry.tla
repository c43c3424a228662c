--------------------------- MODULE RelayRegistry ---------------------------
(***************************************************************************)
(* The relay's durable endpoint registry: RelayState of                     *)
(* server/appserve_server/core.py, the control connections that change it   *)
(* (handle_control and _authenticate_endpoint of service.py) and the        *)
(* management requests, with crashes, restarts and saves that fail.         *)
(*                                                                          *)
(* asyncio runs one handler at a time between awaits, so an action is the   *)
(* code between two awaits.  The awaits that matter here are the one        *)
(* between the hello and the proof of an authentication (the answer to      *)
(* `known' is read before it and used after it) and those between the       *)
(* requests of a connection.                                                *)
(*                                                                          *)
(* The session tables a rejection also clears are in RelaySessions and      *)
(* CatalogBroadcast.  Here a connection whose writer has been closed may    *)
(* still work through requests it had already buffered, so closing it       *)
(* leaves it as it is and Drop ends it.                                     *)
(***************************************************************************)

CONSTANTS
  ClientIds,   \* endpoint identifiers
  Keys,        \* endpoint public keys
  Kinds,       \* values of client_kind
  WispIds,     \* identifiers of Wisps
  Conns,       \* control connections
  NoKey, NoKind, NoOwner, NoClient,
  Enrollment   \* RelayConfig.enrollment_enabled

ASSUME RegistryAssumption ==
  /\ NoKey \notin Keys
  /\ NoKind \notin Kinds
  /\ NoOwner \notin ClientIds
  /\ NoClient \notin ClientIds
  /\ Enrollment \in BOOLEAN

VARIABLES
  up,       \* the relay process is running
  book,     \* RelayState in memory: clients and wisps
  disk,     \* the JSON file RelayState.save replaces
  conn,     \* the control connections
  claimed,  \* history: endpoints whose claim was answered "claimed"
  answered  \* history: the last status an answered request gave an endpoint

vars == <<up, book, disk, conn, claimed, answered>>

-----------------------------------------------------------------------------
(* A book is the content of RelayState.  "legacy" is a record written       *)
(* before records had a status; only a file holds it.                       *)

Statuses == {"absent", "pending", "approved", "rejected", "revoked"}

Book == [status : [ClientIds -> Statuses \cup {"legacy"}],
         admin  : SUBSET ClientIds,
         key    : [ClientIds -> Keys \cup {NoKey}],
         kind   : [ClientIds -> Kinds \cup {NoKind}],
         wisps  : [WispIds -> ClientIds \cup {NoOwner}]]

EmptyBook == [status |-> [c \in ClientIds |-> "absent"],
              admin  |-> {},
              key    |-> [c \in ClientIds |-> NoKey],
              kind   |-> [c \in ClientIds |-> NoKind],
              wisps  |-> [w \in WispIds |-> NoOwner]]

\* A faulty load, for a mutation of Load: every record loses its admin flag
LoadResetsAdmin(b) ==
  [b EXCEPT !.status = [c \in ClientIds |->
              IF b.status[c] = "legacy" THEN "approved" ELSE b.status[c]],
            !.admin = {}]

\* RelayState.load: a record without a status is an approved one
Load(b) == [b EXCEPT !.status = [c \in ClientIds |->
                        IF b.status[c] = "legacy" THEN "approved" ELSE b.status[c]]]

\* RelayState.client_access
ClientAccess(b, c, k) ==
  IF b.status[c] = "absent" THEN "unknown_endpoint"
  ELSE IF b.key[c] # k THEN "endpoint_key_changed"
  ELSE b.status[c]

\* A faulty enroll_client, for mutations: the key of a known endpoint is not
\* compared, or a new endpoint gets a status no other code knows
EnrollAccessAnyKey(b, c, k) ==
  IF b.status[c] = "absent" THEN "pending"
  ELSE IF c \in b.admin THEN "admin"
  ELSE b.status[c]

EnrollUnclaimed(b, c, k, kind) ==
  IF b.status[c] # "absent" THEN b
  ELSE [b EXCEPT !.status[c] = "unclaimed", !.key[c] = k, !.kind[c] = kind]

\* RelayState.enroll_client: the answer it returns ("key_changed" stands for
\* the ValueError) and the book it leaves
EnrollAccess(b, c, k) ==
  IF b.status[c] = "absent" THEN "pending"
  ELSE IF b.key[c] # k THEN "key_changed"
  ELSE IF c \in b.admin THEN "admin"
  ELSE b.status[c]

EnrollClient(b, c, k, kind) ==
  IF b.status[c] # "absent" THEN b
  ELSE [b EXCEPT !.status[c] = "pending", !.key[c] = k, !.kind[c] = kind]

\* RelayState.claim_admin: the approved administrators it looks for
ApprovedAdmins(b) == {c \in b.admin : b.status[c] = "approved"}

ClaimAdmin(b, c) ==
  [b EXCEPT !.status[c] = "approved", !.admin = @ \cup {c}]

\* RelayState.set_client_status
SetClientStatus(b, c, s) ==
  [b EXCEPT !.status[c] = s,
            !.admin = IF s = "approved" THEN @ ELSE @ \ {c}]

\* RelayState.remove_wisps_for_owner
RemoveWispsForOwner(b, c) ==
  [b EXCEPT !.wisps = [w \in WispIds |-> IF b.wisps[w] = c THEN NoOwner ELSE b.wisps[w]]]

\* RelayRuntime._is_admin
IsAdmin(b, c) == c \in b.admin /\ b.status[c] = "approved"

-----------------------------------------------------------------------------
(* Control connections.  pc is the await the handler stands at; `known' is  *)
(* what _authenticate_endpoint read of the registry before its challenge.   *)

Phases == {"closed", "challenged", "authenticated", "joined", "subscribed"}

Connection == [pc : Phases, client : ClientIds \cup {NoClient},
               key : Keys \cup {NoKey}, kind : Kinds \cup {NoKind}, known : BOOLEAN]

Closed == [pc |-> "closed", client |-> NoClient, key |-> NoKey,
           kind |-> NoKind, known |-> FALSE]

TypeOK ==
  /\ up \in BOOLEAN
  /\ book \in Book
  /\ disk \in Book
  /\ conn \in [Conns -> Connection]
  /\ claimed \in SUBSET ClientIds
  /\ answered \in [ClientIds -> {"none", "approved", "rejected", "revoked"}]

\* No file yet, or one of a version that kept neither status nor admin
Init ==
  /\ up = FALSE
  /\ book = EmptyBook
  /\ \E owners \in [ClientIds -> Keys \cup {NoKey}] :
       disk = [EmptyBook EXCEPT
                 !.status = [c \in ClientIds |-> IF owners[c] = NoKey THEN "absent" ELSE "legacy"],
                 !.key = owners]
  /\ conn = [i \in Conns |-> Closed]
  /\ claimed = {}
  /\ answered = [c \in ClientIds |-> "none"]

\* A faulty save, for a mutation of Save: the file is not replaced
SaveLost(b) == book' = b /\ disk' = disk

\* RelayState.save: the temporary file replaces the old one, or an error
\* leaves the old one and ends the connection it was for.
Save(b)     == book' = b /\ disk' = b
SaveFails(b) == book' = b /\ disk' = disk

-----------------------------------------------------------------------------
(* serve(): the file is read once, before the listeners open                *)
Start ==
  /\ ~up
  /\ up' = TRUE
  /\ book' = Load(disk)
  /\ UNCHANGED <<disk, conn, claimed, answered>>

Crash ==
  /\ up
  /\ up' = FALSE
  /\ book' = EmptyBook
  /\ conn' = [i \in Conns |-> Closed]
  /\ UNCHANGED <<disk, claimed, answered>>

\* The bootstrap_request branch of handle_control.  Only an unknown endpoint
\* changes anything; the connection then goes on to its hello.
BootstrapRequest(c, k, kind) ==
  /\ up
  /\ Enrollment
  /\ ClientAccess(book, c, k) = "unknown_endpoint"
  /\ \/ Save(EnrollClient(book, c, k, kind))
     \/ SaveFails(EnrollClient(book, c, k, kind))
  /\ UNCHANGED <<up, conn, claimed, answered>>

\* _authenticate_endpoint up to the challenge
Hello(i, c, k, kind) ==
  /\ up
  /\ conn[i].pc = "closed"
  /\ book.status[c] = "absent" => Enrollment
  /\ book.status[c] # "absent" => book.key[c] = k
  /\ conn' = [conn EXCEPT ![i] = [pc |-> "challenged", client |-> c, key |-> k,
                                  kind |-> kind, known |-> book.status[c] # "absent"]]
  /\ UNCHANGED <<up, book, disk, claimed, answered>>

\* What the answer to the challenge leads to, by the registry as it is now
ProofAccess(i) ==
  LET n == conn[i] IN
  IF n.known THEN ClientAccess(book, n.client, n.key)
             ELSE EnrollAccess(book, n.client, n.key)

\* A faulty end of the authentication, for a mutation of Proof: an endpoint
\* that was unknown at the hello is written without looking again
ProofStale(i) ==
  LET n == conn[i]
      b == IF n.known THEN book
           ELSE [book EXCEPT !.status[n.client] = "pending", !.key[n.client] = n.key]
  IN
  /\ n.pc = "challenged"
  /\ n.known => ProofAccess(i) \in {"approved", "admin", "pending"}
  /\ Save(b)
  /\ conn' = [conn EXCEPT ![i].pc = "authenticated"]
  /\ UNCHANGED <<up, claimed, answered>>

\* _authenticate_endpoint after a proof that verifies.  An endpoint unknown
\* at the hello is enrolled, which saves once, and every endpoint let in is
\* saved again with its client_kind.
Proof(i) ==
  LET n  == conn[i]
      b1 == IF n.known THEN book ELSE EnrollClient(book, n.client, n.key, n.kind)
      b2 == [b1 EXCEPT !.kind[n.client] = n.kind]
  IN
  /\ n.pc = "challenged"
  /\ ProofAccess(i) \in {"approved", "admin", "pending"}
  /\ \/ /\ Save(b2)
        /\ conn' = [conn EXCEPT ![i].pc = "authenticated"]
     \/ /\ book' = b2
        /\ disk' \in {disk, IF b1 = book THEN disk ELSE b1}
        /\ conn' = [conn EXCEPT ![i] = Closed]
  /\ UNCHANGED <<up, claimed, answered>>

\* A connection ends: a refused proof, an end of file, a timeout, an error
Drop(i) ==
  /\ conn[i].pc # "closed"
  /\ conn' = [conn EXCEPT ![i] = Closed]
  /\ UNCHANGED <<up, book, disk, claimed, answered>>

-----------------------------------------------------------------------------
(* Requests on an authenticated connection                                  *)

\* handle_control's join, which saves
Join(i) ==
  /\ conn[i].pc = "authenticated"
  /\ \/ /\ Save(book)
        /\ conn' = [conn EXCEPT ![i].pc = "joined"]
     \/ /\ SaveFails(book)
        /\ conn' = [conn EXCEPT ![i] = Closed]
  /\ UNCHANGED <<up, claimed, answered>>

\* The book after an owner's registration of a set of Wisps: its earlier
\* ones go, and an identifier another owner held is taken over
WithWisps(b, c, items) ==
  [b EXCEPT !.wisps = [w \in WispIds |->
      IF w \in items THEN c ELSE RemoveWispsForOwner(b, c).wisps[w]]]

\* handle_control's registration; the connection then stays for its updates
RegisterWisps(i, items) ==
  LET b == WithWisps(book, conn[i].client, items) IN
  /\ conn[i].pc = "joined"
  /\ \/ /\ Save(b)
        /\ conn' = [conn EXCEPT ![i].pc = "subscribed"]
     \/ /\ SaveFails(b)
        /\ conn' = [conn EXCEPT ![i] = Closed]
  /\ UNCHANGED <<up, claimed, answered>>

\* handle_control takes management requests at three places; all but the
\* subscribed connection's end the connection with the answer
MayManage(i) == conn[i].pc \in {"authenticated", "joined", "subscribed"}

Answered(i) == conn' = IF conn[i].pc = "subscribed" THEN conn
                       ELSE [conn EXCEPT ![i] = Closed]

\* management_request claim_admin: only the case in which claim_admin changes
\* something.  It asks nothing of the caller's own status.
ClaimRequest(i) ==
  LET c == conn[i].client IN
  /\ MayManage(i)
  /\ book.status[c] # "absent"
  /\ ApprovedAdmins(book) = {}
  /\ \/ /\ Save(ClaimAdmin(book, c))
        /\ Answered(i)
        /\ claimed' = claimed \cup {c}
        /\ answered' = [answered EXCEPT ![c] = "approved"]
     \/ /\ SaveFails(ClaimAdmin(book, c))
        /\ conn' = [conn EXCEPT ![i] = Closed]
        /\ answered' = [answered EXCEPT ![c] = "none"]
        /\ UNCHANGED claimed
  /\ UNCHANGED up

\* A faulty status request, for a mutation of StatusRequest: the administrator
\* may name itself
StatusRequestSelf(i, target, s) ==
  LET b == SetClientStatus(book, target, s) IN
  /\ MayManage(i)
  /\ IsAdmin(book, conn[i].client)
  /\ book.status[target] # "absent"
  /\ Save(b)
  /\ Answered(i)
  /\ answered' = [answered EXCEPT ![target] = s]
  /\ UNCHANGED <<up, claimed>>

\* management_request approve, reject and revoke.  The removal of the
\* target's Wisps follows the save, so it is in memory only.
StatusRequest(i, target, s) ==
  LET c  == conn[i].client
      b1 == SetClientStatus(book, target, s)
      b2 == IF s = "approved" THEN b1 ELSE RemoveWispsForOwner(b1, target)
  IN
  /\ MayManage(i)
  /\ IsAdmin(book, c)
  /\ target # c
  /\ book.status[target] # "absent"
  /\ \/ /\ book' = b2
        /\ disk' = b1
        /\ Answered(i)
        /\ answered' = [answered EXCEPT ![target] = s]
     \/ /\ SaveFails(b1)
        /\ conn' = [conn EXCEPT ![i] = Closed]
        /\ answered' = [answered EXCEPT ![target] = "none"]
  /\ UNCHANGED <<up, claimed>>

\* management_request claim_admin from the administrator: "already_admin",
\* answered from memory without a save
ClaimAgain(i) ==
  /\ MayManage(i)
  /\ IsAdmin(book, conn[i].client)
  /\ Answered(i)
  /\ UNCHANGED <<up, book, disk, claimed, answered>>

\* management_request register_wisp: the owner is the request's
RegisterWispRequest(i, w, owner) ==
  LET b == [book EXCEPT !.wisps[w] = owner] IN
  /\ MayManage(i)
  /\ IsAdmin(book, conn[i].client)
  /\ book.wisps[w] = NoOwner
  /\ \/ Save(b) /\ Answered(i)
     \/ SaveFails(b) /\ conn' = [conn EXCEPT ![i] = Closed]
  /\ UNCHANGED <<up, claimed, answered>>

\* management_request remove_wisp
RemoveWispRequest(i, w) ==
  LET b == [book EXCEPT !.wisps[w] = NoOwner] IN
  /\ MayManage(i)
  /\ IsAdmin(book, conn[i].client)
  /\ book.wisps[w] # NoOwner
  /\ \/ Save(b) /\ Answered(i)
     \/ SaveFails(b) /\ conn' = [conn EXCEPT ![i] = Closed]
  /\ UNCHANGED <<up, claimed, answered>>

Next ==
  \/ Start
  \/ Crash
  \/ \E c \in ClientIds, k \in Keys, kind \in Kinds :
       \/ BootstrapRequest(c, k, kind)
       \/ \E i \in Conns : Hello(i, c, k, kind)
  \/ \E i \in Conns :
       \/ Proof(i)
       \/ Drop(i)
       \/ Join(i)
       \/ \E items \in SUBSET WispIds : RegisterWisps(i, items)
       \/ ClaimRequest(i)
       \/ \E target \in ClientIds, s \in {"approved", "rejected", "revoked"} :
            StatusRequest(i, target, s)
       \/ ClaimAgain(i)
       \/ \E w \in WispIds, owner \in ClientIds : RegisterWispRequest(i, w, owner)
       \/ \E w \in WispIds : RemoveWispRequest(i, w)

Spec == Init /\ [][Next]_vars

-----------------------------------------------------------------------------
(* Properties                                                               *)

Refused == {"rejected", "revoked"}

(* A claim answered "claimed" is for good: whatever requests, failed saves, *)
(* crashes and restarts follow, the claimant is the one administrator and   *)
(* approved, in the file and in the memory of a running relay               *)
(* (claim_admin, set_client_status, save and load together).                *)
ClaimPermanent ==
  \A c \in claimed :
    /\ disk.admin = {c} /\ disk.status[c] = "approved"
    /\ up => book.admin = {c} /\ book.status[c] = "approved"

(* A status the relay answered it had set (claim_admin or approve, reject,  *)
(* revoke) is the one in the file and in memory until the next request      *)
(* about that endpoint, across crashes and other requests' failed saves.    *)
AnswersDurable ==
  \A c \in ClientIds : answered[c] # "none" =>
    /\ disk.status[c] = answered[c]
    /\ up => book.status[c] = answered[c]

(* Whoever is past authentication proved the key on record: two first       *)
(* connections of one identifier with different keys, both challenged while *)
(* it was unknown, cannot both get in (`known' read before the await of     *)
(* _authenticate_endpoint, enroll_client after it).                         *)
AuthenticatedByRecordedKey ==
  \A i \in Conns : MayManage(i) =>
    /\ book.status[conn[i].client] # "absent"
    /\ book.key[conn[i].client] = conn[i].key

(* The key of an endpoint in the file never changes, restarts included      *)
(* (enroll_client, register_client and client_access).                      *)
KeyPinned ==
  [][\A c \in ClientIds : disk.key[c] # NoKey => disk'.key[c] = disk.key[c]]_vars

(* A running relay lets a refused endpoint back in only on the request of   *)
(* an administrator other than itself: claim_admin looks at nothing but the *)
(* existing administrators, so this rests on there being one whenever       *)
(* anyone is refused.                                                       *)
RefusedUntilApproved ==
  [][\A c \in ClientIds :
       up /\ up' /\ book.status[c] \in Refused /\ book'.status[c] = "approved"
         => \E i \in Conns : conn[i].client # c /\ IsAdmin(book, conn[i].client)]_vars
=============================================================================
