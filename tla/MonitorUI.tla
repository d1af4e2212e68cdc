----------------------------- MODULE MonitorUI -----------------------------
(***************************************************************************)
(* The threads of userspace/monitor and what they share: the streamer that *)
(* turns the bytes of trace_pipe into events, the poller that stores what  *)
(* it read field by field into a ComparisonSnapshot, the renderer (main)   *)
(* that composes frames from both, and the shutdown that a signal starts.  *)
(* Monitor models what the poller reads.                                   *)
(***************************************************************************)
EXTENDS Naturals, Sequences, SequencesExt

CONSTANTS
  Lines,     \* trace lines that are not blank
  Versions,  \* contents of the state file outside the SETUP phase
  MaxEvents, \* max_events
  Rows,      \* event rows of the terminal, main_h
  MaxRead,   \* kTraceReadBufferCapacity
  MaxLines   \* bound: lines traced in one behaviour

ASSUME MonitorUIAssumption ==
  /\ MaxEvents \in Nat \ {0} /\ Rows \in Nat /\ MaxRead \in Nat \ {0} /\ MaxLines \in Nat
  /\ "--" \notin Versions

VARIABLES
  pipe,     \* bytes in trace_pipe
  running,  \* g_running
  stopping, \* threads whose jthread destructor has requested a stop
  terminal, \* the terminal is in the alternate screen
  spc,      \* where the streamer is
  traceFd,  \* trace_fd is open
  pending,  \* bytes read that do not make a line yet
  event,    \* the event append_event() was called with
  after,    \* where the streamer goes on after append_event()
  events,   \* display_state.events
  ppc, copy, \* where the poller is, what it read
  val, status, \* val_vmalloc (atomic) and status (under mx) of the snapshot
  mpc,      \* where main is
  frame,    \* the frame being composed: val, status, events
  overlap,  \* history: the poller was storing at some time of this frame
  lines,    \* history: how many lines were traced
  spoken,   \* history: those of them that are not blank
  appended, \* history: events appended
  traced    \* history: the text of those from trace_pipe

envVars  == <<pipe, lines, spoken>>
strVars  == <<spc, traceFd, pending, event, after, events, appended, traced>>
pollVars == <<ppc, copy, val, status>>
mainVars == <<terminal, stopping, mpc, frame, overlap>>
vars == <<running, envVars, strVars, pollVars, mainVars>>

(* A line is two bytes and a newline; a blank line is a newline.           *)
NL == <<"newline">>
BytesOf(l) == <<<<l, 1>>, <<l, 2>>>>
Blank == "blank"
Encoded(l) == IF l = Blank THEN <<NL>> ELSE Append(BytesOf(l), NL)

Messages == {"connected", "unavailable", "failed"}
Events == {[source |-> "monitor", text |-> <<m>>] : m \in Messages}
            \cup {[source |-> "trace", text |-> BytesOf(l)] : l \in Lines}
NoEvent == [source |-> "", text |-> <<>>]
NoFrame == [val |-> "--", status |-> "--", events |-> <<>>]
(* What a poll can find in /tmp/demo_state: no file or, while the harness  *)
(* rewrites it, no lines; a scenario being set up; or a snapshot.          *)
Contents == {"empty", "SETUP"} \cup Versions

Init ==
  /\ pipe = <<>> /\ running = TRUE /\ stopping = {} /\ terminal = TRUE
  /\ spc = "open" /\ traceFd = FALSE /\ pending = <<>> /\ event = NoEvent /\ after = "open"
  /\ events = <<>> /\ ppc = "test" /\ copy = "none" /\ val = "--" /\ status = "--"
  /\ mpc = "test" /\ frame = NoFrame /\ overlap = FALSE
  /\ lines = 0 /\ spoken = <<>> /\ appended = <<>> /\ traced = <<>>

Stopped(t) == t \in stopping \/ ~running

-----------------------------------------------------------------------------
(* The event streamer.                                                     *)

AppendEvent(source, text, next) ==
  /\ spc' = "push"
  /\ event' = [source |-> source, text |-> text]
  /\ after' = next

(* append_event(): push_back() and, if the list is too long, erase(), both *)
(* under events_mx, which the streamer holds while spc = "erase".          *)
PushBack ==
  /\ spc = "push"
  /\ events' = Append(events, event)
  /\ appended' = Append(appended, event)
  /\ traced' = IF event.source = "trace" THEN Append(traced, event.text) ELSE traced
  /\ spc' = "erase"
  /\ UNCHANGED <<running, envVars, traceFd, pending, event, after, pollVars, mainVars>>

(* A slip for mutation: the list is cut one event early.                   *)
TooLongEarly(l) == Len(l) >= MaxEvents

TooLong(l) == Len(l) > MaxEvents

EraseOldest ==
  /\ spc = "erase"
  /\ events' = IF TooLong(events) THEN Tail(events) ELSE events
  /\ spc' = after
  /\ event' = NoEvent /\ after' = "open"
  /\ UNCHANGED <<running, envVars, traceFd, pending, appended, traced, pollVars, mainVars>>

(* open_trace_pipe() tries two paths.                                      *)
OpenTrace ==
  /\ spc = "open"
  /\ \/ traceFd' = TRUE /\ AppendEvent("monitor", <<"connected">>, "test")
     \/ UNCHANGED traceFd /\ AppendEvent("monitor", <<"unavailable">>, "done")
  /\ UNCHANGED <<running, envVars, pending, events, appended, traced, pollVars, mainVars>>

(* A slip for mutation: the loop does not look whether it should stop.     *)
StreamTestEndless ==
  /\ spc = "test"
  /\ spc' = "read"
  /\ UNCHANGED <<running, envVars, traceFd, pending, event, after, events, appended, traced,
                 pollVars, mainVars>>

(* The loop condition; the sleep lies between two iterations.              *)
StreamTest ==
  /\ spc = "test"
  /\ spc' = IF Stopped("streamer") THEN "close" ELSE "read"
  /\ UNCHANGED <<running, envVars, traceFd, pending, event, after, events, appended, traced,
                 pollVars, mainVars>>

(* A slip for mutation: what was left of the last read is thrown away.     *)
ReadBytesFresh(n) ==
  /\ spc = "read" /\ n \in 1 .. Len(pipe)
  /\ pending' = SubSeq(pipe, 1, n)
  /\ pipe' = SubSeq(pipe, n + 1, Len(pipe))
  /\ spc' = "extract"
  /\ UNCHANGED <<running, lines, spoken, traceFd, event, after, events, appended, traced,
                 pollVars, mainVars>>

(* read() returns n bytes, which may end within a line.                    *)
ReadBytes(n) ==
  /\ spc = "read" /\ n \in 1 .. Len(pipe)
  /\ pending' = pending \o SubSeq(pipe, 1, n)
  /\ pipe' = SubSeq(pipe, n + 1, Len(pipe))
  /\ spc' = "extract"
  /\ UNCHANGED <<running, lines, spoken, traceFd, event, after, events, appended, traced,
                 pollVars, mainVars>>

(* read() returns no byte, or EAGAIN or EINTR, which may happen although   *)
(* bytes are waiting: they stay in the pipe for the next turn.             *)
ReadNothing ==
  /\ spc = "read"
  /\ spc' = "test"
  /\ UNCHANGED <<running, envVars, traceFd, pending, event, after, events, appended, traced,
                 pollVars, mainVars>>

(* Any other error: it is shown, and the loop is left.                     *)
ReadFails ==
  /\ spc = "read"
  /\ AppendEvent("monitor", <<"failed">>, "close")
  /\ UNCHANGED <<running, envVars, traceFd, pending, events, appended, traced, pollVars, mainVars>>

NewlineAt == {i \in 1 .. Len(pending) : pending[i] = NL}
FirstNewline == CHOOSE i \in NewlineAt : \A j \in NewlineAt : i <= j

(* A slip for mutation: one line is taken from each read.                  *)
ExtractOne ==
  /\ spc = "extract"
  /\ IF NewlineAt = {}
     THEN spc' = "test" /\ UNCHANGED <<pending, event, after>>
     ELSE LET line == SubSeq(pending, 1, FirstNewline - 1) IN
          /\ pending' = SubSeq(pending, FirstNewline + 1, Len(pending))
          /\ IF line = <<>> THEN spc' = "test" /\ UNCHANGED <<event, after>>
             ELSE AppendEvent("trace", line, "test")
  /\ UNCHANGED <<running, envVars, traceFd, events, appended, traced, pollVars, mainVars>>

(* One turn of the loop that cuts lines off pending; blank ones are        *)
(* skipped.  Flags, prefix and length of the message are left out.         *)
Extract ==
  /\ spc = "extract"
  /\ IF NewlineAt = {}
     THEN spc' = "test" /\ UNCHANGED <<pending, event, after>>
     ELSE LET line == SubSeq(pending, 1, FirstNewline - 1) IN
          /\ pending' = SubSeq(pending, FirstNewline + 1, Len(pending))
          /\ IF line = <<>> THEN UNCHANGED <<spc, event, after>>
             ELSE AppendEvent("trace", line, "extract")
  /\ UNCHANGED <<running, envVars, traceFd, events, appended, traced, pollVars, mainVars>>

CloseTrace ==
  /\ spc = "close"
  /\ traceFd' = FALSE
  /\ spc' = "done"
  /\ UNCHANGED <<running, envVars, pending, event, after, events, appended, traced, pollVars,
                 mainVars>>

Streamer ==
  \/ OpenTrace \/ PushBack \/ EraseOldest \/ StreamTest
  \/ (\E n \in 1 .. MaxRead : ReadBytes(n))
  \/ ReadNothing \/ ReadFails \/ Extract \/ CloseTrace

-----------------------------------------------------------------------------
(* The poller: sync_scenario_state() on one of the two snapshots.          *)

(* A store into the snapshot while main is between its two loads of it.    *)
NoteOverlap ==
  /\ overlap' = (overlap \/ mpc = "status")
  /\ UNCHANGED <<terminal, stopping, mpc, frame>>

(* The loop condition, and the state file read in one piece.               *)
PollTest ==
  /\ ppc = "test"
  /\ ppc' = IF Stopped("poller") THEN "done" ELSE "read"
  /\ UNCHANGED <<running, envVars, strVars, copy, val, status, mainVars>>

PollRead(f) ==
  /\ ppc = "read"
  /\ ppc' = CASE f \in Versions -> "val" [] f = "SETUP" -> "resetVal" [] f = "empty" -> "test"
  /\ copy' = IF f \in Versions THEN f ELSE copy
  /\ UNCHANGED <<running, envVars, strVars, val, status, mainVars>>

(* update_snapshot() and reset_snapshot(): the value is stored before the  *)
(* status, which comes last in the state file.                             *)
StoreVal ==
  /\ ppc \in {"val", "resetVal"}
  /\ val' = IF ppc = "val" THEN copy ELSE "--"
  /\ ppc' = IF ppc = "val" THEN "status" ELSE "resetStatus"
  /\ NoteOverlap
  /\ UNCHANGED <<running, envVars, strVars, copy, status>>

StoreStatus ==
  /\ ppc \in {"status", "resetStatus"}
  /\ status' = IF ppc = "status" THEN copy ELSE "--"
  /\ ppc' = "test"
  /\ copy' = "none"
  /\ NoteOverlap
  /\ UNCHANGED <<running, envVars, strVars, val>>

Poller == PollTest \/ (\E f \in Contents : PollRead(f)) \/ StoreVal \/ StoreStatus

-----------------------------------------------------------------------------
(* main(): the renderer, and the destructors after its loop.               *)

RenderTest ==
  /\ mpc = "test"
  /\ mpc' = IF running THEN "val" ELSE "stopStreamer"
  /\ UNCHANGED <<running, envVars, strVars, pollVars, terminal, stopping, frame, overlap>>

LoadVal ==
  /\ mpc = "val"
  /\ mpc' = "status"
  /\ frame' = [frame EXCEPT !.val = val]
  /\ overlap' = (ppc \in {"status", "resetStatus"})
  /\ UNCHANGED <<running, envVars, strVars, pollVars, terminal, stopping>>

LoadStatus ==
  /\ mpc = "status"
  /\ mpc' = "events"
  /\ frame' = [frame EXCEPT !.status = status]
  /\ UNCHANGED <<running, envVars, strVars, pollVars, terminal, stopping, overlap>>

(* The newest n of a list of events, newest first.                         *)
Newest(l, n) == SubSeq(Reverse(l), 1, IF Len(l) < n THEN Len(l) ELSE n)

(* A slip for mutation: the list is copied without events_mx.              *)
CopyEventsUnlocked ==
  /\ mpc = "events"
  /\ mpc' = "draw"
  /\ frame' = [frame EXCEPT !.events = Newest(events, Rows)]
  /\ UNCHANGED <<running, envVars, strVars, pollVars, terminal, stopping, overlap>>

CopyEvents ==
  /\ mpc = "events" /\ spc # "erase"
  /\ mpc' = "draw"
  /\ frame' = [frame EXCEPT !.events = Newest(events, Rows)]
  /\ UNCHANGED <<running, envVars, strVars, pollVars, terminal, stopping, overlap>>

Draw ==
  /\ mpc = "draw"
  /\ mpc' = "test"
  /\ frame' = NoFrame
  /\ overlap' = FALSE
  /\ UNCHANGED <<running, envVars, strVars, pollVars, terminal, stopping>>

(* ~jthread() of event_streamer and then of mem_poller: request_stop() and *)
(* join().                                                                 *)
RequestStop ==
  /\ \/ mpc = "stopStreamer" /\ mpc' = "joinStreamer" /\ stopping' = {"streamer"}
     \/ mpc = "stopPoller" /\ mpc' = "joinPoller" /\ stopping' = {"streamer", "poller"}
  /\ UNCHANGED <<running, envVars, strVars, pollVars, terminal, frame, overlap>>

Join ==
  /\ \/ mpc = "joinStreamer" /\ spc = "done" /\ mpc' = "stopPoller"
     \/ mpc = "joinPoller" /\ ppc = "done" /\ mpc' = "restore"
  /\ UNCHANGED <<running, envVars, strVars, pollVars, terminal, stopping, frame, overlap>>

(* ~TerminalGuard(), and with the display state the process is gone.       *)
RestoreTerminal ==
  /\ mpc = "restore"
  /\ terminal' = FALSE
  /\ mpc' = "gone"
  /\ UNCHANGED <<running, envVars, strVars, pollVars, stopping, frame, overlap>>

Main ==
  \/ RenderTest \/ LoadVal \/ LoadStatus \/ CopyEvents \/ Draw
  \/ RequestStop \/ Join \/ RestoreTerminal

-----------------------------------------------------------------------------
(* The environment.                                                        *)

(* A kernel module traces a line.                                          *)
Trace(l) ==
  /\ lines < MaxLines
  /\ lines' = lines + 1
  /\ spoken' = IF l = Blank THEN spoken ELSE Append(spoken, l)
  /\ pipe' = pipe \o Encoded(l)
  /\ UNCHANGED <<running, strVars, pollVars, mainVars>>

(* SIGINT or SIGTERM.                                                      *)
Signal ==
  /\ running
  /\ running' = FALSE
  /\ UNCHANGED <<envVars, strVars, pollVars, mainVars>>

Next ==
  \/ Streamer \/ Poller \/ Main \/ Signal
  \/ \E l \in Lines \cup {Blank} : Trace(l)

(* Every thread is scheduled, and a sleep ends.  A streamer that comes     *)
(* back to waiting bytes again and again is not interrupted every time.    *)
FairSpec ==
  /\ Init /\ [][Next]_vars
  /\ WF_vars(Streamer) /\ WF_vars(Poller) /\ WF_vars(Main)
  /\ SF_vars(\E n \in 1 .. MaxRead : ReadBytes(n))

-----------------------------------------------------------------------------
(* Properties.                                                             *)

TypeOK ==
  /\ Len(events) <= MaxEvents + 1
  /\ \A i \in 1 .. Len(events) : events[i].source \in {"monitor", "trace"}
  /\ copy \in Versions \cup {"none"}
  /\ val \in Versions \cup {"--"} /\ status \in Versions \cup {"--"}
  /\ running \in BOOLEAN /\ terminal \in BOOLEAN /\ traceFd \in BOOLEAN
  /\ stopping \subseteq {"streamer", "poller"}

(* Whatever pieces read() returns, the events from trace_pipe are the      *)
(* lines that were traced, whole, in their order, none lost and none       *)
(* twice.                                                                  *)
LinesWholeInOrder ==
  /\ Len(traced) <= Len(spoken)
  /\ \A i \in 1 .. Len(traced) : traced[i] = BytesOf(spoken[i])

Log == INSTANCE BoundedLog WITH
  Entries <- Events, Capacity <- MaxEvents,
  log <- IF Len(events) > MaxEvents THEN Tail(events) ELSE events

(* The event list is a log of the last max_events events.                  *)
ImplementsBoundedLog == Log!Spec

(* A frame shows the newest events, newest first, as they were at one      *)
(* moment, also when an event is being appended and the oldest erased.     *)
FrameEventsAtomic ==
  mpc = "draw" =>
    \E k \in 0 .. Len(appended) :
      frame.events = Newest(SubSeq(appended, 1, k),
                            IF Rows < MaxEvents THEN Rows ELSE MaxEvents)

(* A frame that mixes two contents of the state file was composed while    *)
(* the poller was storing; the snapshot itself is never left mixed.        *)
FrameCoherent ==
  mpc \in {"events", "draw"} /\ frame.val # frame.status => overlap

(* What a frame shows is real: the events of one moment, and a snapshot    *)
(* that is mixed only by a store during the frame.                         *)
FrameFaithful == FrameEventsAtomic /\ FrameCoherent

(* When main destroys what the threads share, and when it restores the     *)
(* terminal, no thread runs any more, and trace_pipe is closed.            *)
OutlivesThreads ==
  mpc \in {"restore", "gone"} => spc = "done" /\ ppc = "done" /\ ~traceFd

(* Every line traced while the monitor can read it becomes an event, even  *)
(* if nothing is traced after it.                                          *)
LinesArrive ==
  []<>(Len(traced) = Len(spoken) \/ ~running \/ spc = "done")

(* A signal ends the monitor with the terminal restored, whatever the      *)
(* threads are doing, and the threads end before it does.                  *)
ShutdownCompletes ==
  /\ []OutlivesThreads
  /\ ~running ~> mpc = "gone" /\ ~terminal

=============================================================================
