--------------------------- MODULE RemoteOperation ---------------------------
(***************************************************************************)
(* What an operation of the Android client on a Wisp promises its caller,   *)
(* without sessions, connections, retries or retained outcomes: one at a    *)
(* time, a mutation at most once, and never after its caller was told to    *)
(* ask again.  PeerSessions implements it.                                  *)
(*                                                                          *)
(* It does not promise that what was answered had run, or the answer to be  *)
(* the operation's: the client does not see to that.                        *)
(***************************************************************************)
EXTENDS Naturals

CONSTANTS
  Ops,
  Mutations   \* those that change a Wisp: actions, with and without files

VARIABLES
  asked,      \* operations begun
  starts,     \* how often the Wisp's callback was started for them
  result      \* what their caller was told

vars == <<asked, starts, result>>

Results == {"answered", "failed", "expired"}

Init ==
  /\ asked = {}
  /\ starts = [o \in Ops |-> 0]
  /\ result = [o \in Ops |-> "none"]

\* RelayOperationCoordinator.serialized
Ask(o) ==
  /\ o \notin asked
  /\ \A p \in asked : result[p] # "none"
  /\ asked' = asked \cup {o}
  /\ UNCHANGED <<starts, result>>

\* The callback runs: it may still, or only now, when the caller was told of a
\* failure
Start(o) ==
  /\ o \in asked
  /\ o \in Mutations => starts[o] = 0 /\ result[o] # "expired"
  /\ starts' = [starts EXCEPT ![o] = @ + 1]
  /\ UNCHANGED <<asked, result>>

\* "expired; retry explicitly" is said of mutations only
Tell(o, r) ==
  /\ o \in asked /\ result[o] = "none"
  /\ r = "expired" => o \in Mutations
  /\ result' = [result EXCEPT ![o] = r]
  /\ UNCHANGED <<asked, starts>>

Next == \E o \in Ops : Ask(o) \/ Start(o) \/ \E r \in Results : Tell(o, r)

Spec == Init /\ [][Next]_vars
=============================================================================
