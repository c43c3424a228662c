----------------------------- MODULE FileActions -----------------------------
(***************************************************************************)
(* File actions on the Android side, from the Wisp's page to the end of     *)
(* their transfer: FileTransferStager and StagedFileCache                   *)
(* (WispFileTransfer.kt) stage the files in a directory per action, the     *)
(* screen (MainActivity.kt) hands the action over, BulkTransferService      *)
(* (BulkTransferService.kt) sends it and stops itself.                      *)
(*                                                                          *)
(* The page's calls come on the WebView's bridge thread, the screen and     *)
(* onStartCommand run on the main thread, transfers in coroutines; the      *)
(* system delivers starts and stops of the service.  The transfer itself is *)
(* PeerSessions' file action.  Contents and sizes are left out.             *)
(***************************************************************************)
EXTENDS Naturals, Sequences, FiniteSets

CONSTANTS
  Transfers,   \* transfer ids, each used once
  MaxStaged    \* MAX_ACTIVE_TRANSFERS

ASSUME FilesAssumption == MaxStaged \in Nat /\ IsFiniteSet(Transfers)

VARIABLES
  stage,     \* where an action is
  dir,       \* the directories on disk
  swept,     \* StagedFileCache.sweptThisProcess
  selected,  \* the screen has a Wisp selected
  bridge,    \* the page's WebView and its stager
  service,   \* the service runs
  lastId,    \* the system's last startId
  starts,    \* starts the system has not delivered yet
  active,    \* BulkTransferOwnership: the transfers and
  latest,    \* latestStartId
  stops      \* startIds stopSelf is about to be called with

screen == <<selected, bridge>>
owner  == <<service, lastId, starts, active, latest, stops>>
vars   == <<stage, dir, swept, screen, owner>>

\* In the stager; taken out of it by finish, whose page is there or gone; in
\* BulkTransferJobs; in its coroutine, before and after its clean-up; over; on
\* disk with nobody to remove it
Stages == {"none", "staging", "finishing", "parting", "queued", "running", "ended", "over",
           "stranded"}

TypeOK ==
  /\ stage \in [Transfers -> Stages]
  /\ dir \subseteq Transfers
  /\ swept \in BOOLEAN /\ selected \in BOOLEAN
  /\ bridge \in {"none", "live", "detached"}
  /\ service \in BOOLEAN
  /\ lastId \in 0..Cardinality(Transfers) /\ latest \in 0..lastId
  /\ starts \in Seq([id : 1..lastId, transfer : Transfers])
  /\ active = {t \in Transfers : stage[t] \in {"running", "ended"}}
  /\ stops \subseteq 1..lastId
  /\ ~service => lastId = 0

Init ==
  /\ stage = [t \in Transfers |-> "none"] /\ dir = {}
  /\ swept = FALSE /\ selected = FALSE /\ bridge = "none"
  /\ service = FALSE /\ lastId = 0 /\ starts = <<>>
  /\ active = {} /\ latest = 0 /\ stops = {}

Staging == {t \in Transfers : stage[t] = "staging"}
To(t, s) == stage' = [stage EXCEPT ![t] = s]

-----------------------------------------------------------------------------
(* The screen                                                               *)

\* A faulty sweepOnce, for a mutation of OpenActivity: every time
OpenActivitySweeping ==
  /\ bridge = "none"
  /\ dir' = {} /\ swept' = TRUE
  /\ UNCHANGED <<stage, screen, owner>>

\* MainActivity.onCreate: the first in a process removes what an earlier one
\* left
OpenActivity ==
  /\ bridge = "none"
  /\ dir' = IF swept THEN dir ELSE {}
  /\ swept' = TRUE
  /\ UNCHANGED <<stage, screen, owner>>

\* The selected Wisp's state is shown, with a new stager
Show ==
  /\ swept /\ bridge = "none" /\ ~selected
  /\ selected' = TRUE /\ bridge' = "live"
  /\ UNCHANGED <<stage, dir, swept, owner>>

\* Back, or saved settings
Leave ==
  /\ selected /\ bridge = "live"
  /\ selected' = FALSE
  /\ UNCHANGED <<stage, dir, swept, bridge, owner>>

\* WebAppScreen's onDispose, as the user left or the activity is destroyed:
\* cancelAll, once the stager's lock is free.  The page can still call.
Dispose ==
  /\ bridge = "live"
  /\ \A t \in Transfers : stage[t] # "finishing"
  /\ stage' = [t \in Transfers |-> IF t \in Staging THEN "over" ELSE stage[t]]
  /\ dir' = dir \ Staging
  /\ bridge' = "detached"
  /\ UNCHANGED <<swept, selected, owner>>

\* Where an action is left by a page that goes: a call of finish goes on
Parted(s) == CASE s = "staging" -> "stranded" [] s = "finishing" -> "parting" [] OTHER -> s

\* The WebView is destroyed, and what a destroyed activity had selected is gone
Release ==
  /\ bridge = "detached"
  /\ stage' = [t \in Transfers |-> Parted(stage[t])]
  /\ bridge' = "none" /\ selected' = FALSE
  /\ UNCHANGED <<dir, swept, owner>>

-----------------------------------------------------------------------------
(* FileTransferStager, called by the page                                   *)

Begin(t) ==
  /\ bridge # "none" /\ stage[t] = "none"
  /\ Cardinality(Staging) < MaxStaged
  /\ To(t, "staging")
  /\ dir' = dir \cup {t}
  /\ UNCHANGED <<swept, screen, owner>>

\* cancelFileAction
Cancel(t) ==
  /\ bridge # "none" /\ stage[t] = "staging"
  /\ To(t, "over")
  /\ dir' = dir \ {t}
  /\ UNCHANGED <<swept, screen, owner>>

\* finish, with all files complete; one at a time, as the stager is locked
Finish(t) ==
  /\ bridge # "none" /\ stage[t] = "staging"
  /\ \A u \in Transfers : stage[u] # "finishing"
  /\ To(t, "finishing")
  /\ UNCHANGED <<dir, swept, screen, owner>>

\* Whether onFileAction finds a Wisp selected.  One whose page is gone looks at
\* its own activity's selection: this activity's, or another's, as it was left.
SelectedBy(t) == IF stage[t] = "parting" THEN BOOLEAN ELSE {selected}

\* A faulty enqueue, for a mutation of HandOver: a start that is refused leaves
\* the action where it is
HandOverKeeping(t) ==
  /\ stage[t] \in {"finishing", "parting"}
  /\ \/ /\ TRUE \in SelectedBy(t)
        /\ To(t, "queued")
        /\ lastId' = lastId + 1
        /\ starts' = Append(starts, [id |-> lastId', transfer |-> t])
        /\ service' = TRUE
     \/ /\ TRUE \in SelectedBy(t)
        /\ To(t, "over")
        /\ UNCHANGED <<lastId, starts, service>>
     \/ /\ FALSE \in SelectedBy(t)
        /\ To(t, "stranded")
        /\ UNCHANGED <<lastId, starts, service>>
  /\ UNCHANGED <<dir, swept, screen, active, latest, stops>>

\* The rest of finish: onFileAction and BulkTransferService.enqueue.  The start
\* may be refused, and the action is cleaned up.  `selected!!' fails once the
\* user has left; onFileAction catches that, so that finish cleans nothing up.
HandOver(t) ==
  /\ stage[t] \in {"finishing", "parting"}
  /\ \/ /\ TRUE \in SelectedBy(t)
        /\ To(t, "queued")
        /\ lastId' = lastId + 1
        /\ starts' = Append(starts, [id |-> lastId', transfer |-> t])
        /\ service' = TRUE
        /\ UNCHANGED dir
     \/ /\ TRUE \in SelectedBy(t)
        /\ To(t, "over")
        /\ dir' = dir \ {t}
        /\ UNCHANGED <<lastId, starts, service>>
     \/ /\ FALSE \in SelectedBy(t)
        /\ To(t, "stranded")
        /\ UNCHANGED <<dir, lastId, starts, service>>
  /\ UNCHANGED <<swept, screen, active, latest, stops>>

-----------------------------------------------------------------------------
(* BulkTransferService                                                      *)

\* stopSelf(id): the system ignores it when there is a newer start; the service
\* is destroyed otherwise, and a next one counts its starts anew
Stopped(id) ==
  IF id = lastId
  THEN service' = FALSE /\ lastId' = 0 /\ latest' = 0 /\ stops' = {}
  ELSE UNCHANGED <<service, lastId, latest>> /\ stops' = stops \ {id}

\* A faulty BulkTransferOwnership, for a mutation of Started: the first startId
\* is kept
StartedFirst(id) == IF latest = 0 THEN id ELSE latest

\* BulkTransferOwnership.started
Started(id) == IF id > latest THEN id ELSE latest

\* onStartCommand; the job is missing if the process was killed in between
OnStartCommand ==
  /\ starts # <<>>
  /\ starts' = Tail(starts)
  /\ LET t == Head(starts).transfer
         id == Head(starts).id IN
     IF stage[t] = "queued"
     THEN /\ To(t, "running")
          /\ active' = active \cup {t}
          /\ latest' = Started(id)
          /\ UNCHANGED <<service, lastId, stops>>
     ELSE /\ IF active = {} THEN Stopped(id) ELSE UNCHANGED <<service, lastId, latest, stops>>
          /\ UNCHANGED <<stage, active>>
  /\ UNCHANGED <<dir, swept, screen>>

\* BulkTransferExecution.run: the transfer is over, or failed; then its result
\* is published
Clean(t) ==
  /\ stage[t] = "running"
  /\ To(t, "ended")
  /\ dir' = dir \ {t}
  /\ UNCHANGED <<swept, screen, owner>>

\* A faulty BulkTransferOwnership, for a mutation of Finished: only the last
\* transfer is taken out
FinishedLast(t) ==
  /\ stage[t] = "ended"
  /\ To(t, "over")
  /\ IF active = {t} THEN active' = {} /\ stops' = stops \cup {latest}
                     ELSE UNCHANGED <<active, stops>>
  /\ UNCHANGED <<dir, swept, screen, service, lastId, starts, latest>>

\* BulkTransferOwnership.finished: the last transfer gets the id to stop with
Finished(t) ==
  /\ stage[t] = "ended"
  /\ To(t, "over")
  /\ active' = active \ {t}
  /\ stops' = IF active' = {} THEN stops \cup {latest} ELSE stops
  /\ UNCHANGED <<dir, swept, screen, service, lastId, starts, latest>>

StopSelf(id) ==
  /\ id \in stops
  /\ Stopped(id)
  /\ UNCHANGED <<stage, dir, swept, screen, starts, active>>

\* The process is killed.  The system starts the service again if it still has
\* starts to deliver.
Kill ==
  /\ stage' = [t \in Transfers |-> IF stage[t] = "none" THEN "none" ELSE "over"]
  /\ swept' = FALSE /\ selected' = FALSE /\ bridge' = "none"
  /\ active' = {} /\ latest' = 0 /\ stops' = {}
  /\ IF starts = <<>> THEN service' = FALSE /\ lastId' = 0 ELSE UNCHANGED <<service, lastId>>
  /\ UNCHANGED <<dir, starts>>

Next ==
  \/ OpenActivity \/ Show \/ Leave \/ Dispose \/ Release
  \/ \E t \in Transfers : Begin(t) \/ Cancel(t) \/ Finish(t) \/ HandOver(t)
  \/ OnStartCommand
  \/ \E t \in Transfers : Clean(t) \/ Finished(t)
  \/ \E id \in stops : StopSelf(id)
  \/ Kill

Spec == Init /\ [][Next]_vars

\* Starts are delivered and coroutines run, but a transfer need not end
FairSpec ==
  /\ Spec
  /\ WF_vars(OnStartCommand)
  /\ \A t \in Transfers : WF_vars(Finished(t))
  /\ \A id \in 1..Cardinality(Transfers) : WF_vars(StopSelf(id))

-----------------------------------------------------------------------------
(* Properties                                                               *)

(* The files of an action are there until its transfer is over, whoever     *)
(* cancels, leaves the page or opens the activity again meanwhile: the      *)
(* stager gives an action away before the service has it, and one sweep per *)
(* process comes before any staging.  The service, whose end would cancel   *)
(* the transfers, does not stop under one.                                  *)
Undisturbed ==
  /\ \A t \in Transfers :
       stage[t] \in {"staging", "finishing", "parting", "queued", "running"} => t \in dir
  /\ active # {} => service

(* A directory does not outlive its action beyond the next start of the     *)
(* activity, whichever step fails; except the two leaks marked "stranded":  *)
(* the user leaves while finish hands the action over (MainActivity's       *)
(* onFileAction catches the failure), and the page begins an action after   *)
(* cancelAll.                                                               *)
NoLitter ==
  swept => \A t \in dir :
    stage[t] \in {"staging", "finishing", "parting", "queued", "running", "stranded"}

Working == \E t \in Transfers : stage[t] = "running"

(* The service stops once no transfer runs, unless another one starts to, in *)
(* whatever order transfers end and new ones start: the last one to end      *)
(* stops it with the latest startId.                                         *)
ServiceStops == service /\ ~Working ~> ~service \/ Working
=============================================================================
