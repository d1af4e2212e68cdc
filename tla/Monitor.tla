------------------------------ MODULE Monitor ------------------------------
(***************************************************************************)
(* The poller of userspace/monitor composed with the harness: every 100 ms *)
(* it reads /tmp/demo_state, which the harness truncates and rewrites in   *)
(* place, and updates the BEFORE and AFTER snapshots it shows.  Nothing    *)
(* but two sleeps of the harness keeps the two processes in step.          *)
(***************************************************************************)
EXTENDS Harness

VARIABLES
  mpc,   \* where the poller is in sync_scenario_state()
  copy,  \* what it has read
  shown, \* display_state: scenario id, and whose snapshots are shown
  fresh  \* history: has a poll that began after the last write of the
         \* state file finished ("yes"), or only begun ("reading")?

pollVars == <<mpc, copy, shown, fresh>>
monVars == <<vars, pollVars>>

MonInit ==
  /\ Init
  /\ mpc = "idle" /\ copy = Truncated
  /\ shown = [id |-> "None", before |-> "", after |-> ""]
  /\ fresh = "no"

(* The file is read in one piece: a harness between open and close of the  *)
(* file has truncated it.                                                  *)
PollRead ==
  /\ mpc = "idle"
  /\ mpc' = "apply"
  /\ copy' = file
  /\ fresh' = IF fresh = "no" THEN "reading" ELSE fresh
  /\ UNCHANGED <<vars, shown>>

(* update_snapshot() for the lines that are there.                         *)
Updated(old, read) == IF read # "" THEN read ELSE old

(* A slip for mutation: a file without a phase resets as well.             *)
SyncEmptyResets(d, f) ==
  [id     |-> Updated(d.id, f.id),
   before |-> IF f.phase \in {"SETUP", ""} THEN "" ELSE Updated(d.before, f.before),
   after  |-> IF f.phase \in {"SETUP", ""} THEN "" ELSE Updated(d.after, f.after)]

(* What one poll makes of display d and file f: the lines, and then the    *)
(* reset that only the SETUP phase causes.                                 *)
Sync(d, f) ==
  [id     |-> Updated(d.id, f.id),
   before |-> IF f.phase = "SETUP" THEN "" ELSE Updated(d.before, f.before),
   after  |-> IF f.phase = "SETUP" THEN "" ELSE Updated(d.after, f.after)]

PollApply ==
  /\ mpc = "apply"
  /\ mpc' = "idle"
  /\ shown' = Sync(shown, copy)
  /\ copy' = Truncated
  /\ fresh' = IF fresh = "reading" THEN "yes" ELSE fresh
  /\ UNCHANGED vars

Poll == PollRead \/ PollApply

(* A harness step beside the monitor.  The sleeps of the harness (300 ms   *)
(* and 1500 ms) are longer than the period of the poller (100 ms): they do *)
(* not end before a poll that began in them has finished.                  *)
ObservedStep ==
  \/ LocalStep /\ UNCHANGED pollVars
  \/ WriteState /\ fresh' = "no" /\ UNCHANGED <<mpc, copy, shown>>
  \/ fresh = "yes" /\ SleepEnds /\ UNCHANGED pollVars

MonNext ==
  \/ ObservedStep
  \/ (Start \/ Signal \/ ThreadsStep) /\ UNCHANGED pollVars
  \/ Poll

MonSpec == MonInit /\ [][MonNext]_monVars

(* Both processes are scheduled, and every insmod and rmmod returns but    *)
(* the one that may hang.                                                  *)
MonFairSpec == MonSpec /\ WF_monVars(ObservedStep /\ ~MayHang) /\ WF_monVars(Poll)

-----------------------------------------------------------------------------
(* Properties.                                                             *)

(* "Give the independently running monitor time to ingest the baseline":   *)
(* from the start of a scenario's action to its teardown the display names *)
(* that scenario and shows its BEFORE, whatever older poll was still       *)
(* running and also while the file is being rewritten; when the result has *)
(* been displayed, its AFTER is shown beside it.  Of a scenario that could *)
(* not open the state file, or not read the status, less is shown.         *)
Shows(part) == shown.id = cur /\ (snap[part] # "" => shown[part] = cur)

DisplayFollows ==
  /\ pc \in {"run", "observe", "pubAfter", "show", "teardown"} /\ "BEFORE" \in told =>
       Shows("before")
  /\ pc = "teardown" /\ "AFTER" \in told => Shows("before") /\ Shows("after")

=============================================================================
