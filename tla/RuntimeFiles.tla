---------------------------- MODULE RuntimeFiles ----------------------------
(***************************************************************************)
(* The two files a service-free tunnel leaves beside its configuration:    *)
(* tunnel.log, a bounded text log that every goroutine of the process      *)
(* writes to (tunnel/runtime_log.go), and tunnel.metrics, a snapshot that a *)
(* goroutine of its own rewrites in place every second                     *)
(* (tunnel/runtime_metrics.go) while the app reads it without any lock     *)
(* (TunnelServiceController.TryReadMetrics).  The process is tunnel/       *)
(* service.go reduced to the steps that open, start, stop and close these. *)
(*                                                                         *)
(* A file is the sequence of its bytes.  A snapshot's text is one byte per *)
(* digit of its counter, each byte naming the counter, and Brace.          *)
(***************************************************************************)
EXTENDS Integers, Sequences, FiniteSetsExt, SequencesExt

CONSTANTS MaxLog,         \* maximumRuntimeLogBytes
          LineLengths,    \* lengths of a log line with its time stamp
          LogsFound,      \* lengths of tunnel.log an earlier process may leave
          PeerBytes,      \* what the driver may answer: RxBytes of each peer
          MaxCounter,     \* ^uint64(0)
          MaxProcesses,   \* bound: processes of the tunnel in a row
          MaxFileFaults   \* bound: calls on a file or on the driver that fail

ASSUME RuntimeAssumption ==
    /\ MaxLog \in Nat \ {0} /\ MaxCounter \in Nat /\ LineLengths \subseteq Nat
    /\ LogsFound \subseteq Nat /\ PeerBytes \subseteq Seq(0 .. MaxCounter)

VARIABLES main,           \* where service.go is
          tunnelUp,       \* the adapter is there
          tunnelLog,      \* tunnel.log: its length; size and offset of the writer
          meter,          \* where the goroutine of the monitor is
          stopMeter,      \* monitor.stop is closed
          sample,         \* the counter the goroutine has read
          metrics,        \* the bytes of tunnel.metrics
          lastWritten,    \* history: the counter written last, -1 when a write failed
          processes,      \* processes started
          fileFaults      \* faults used

runtimeVars == <<main, tunnelUp, tunnelLog, meter, stopMeter, sample, metrics,
                 lastWritten, processes, fileFaults>>
meterVars == <<meter, stopMeter, sample, metrics, lastWritten>>

Brace == -1
Digits(n) == IF n < 2 THEN 1 ELSE 2
\* json.Marshal of the snapshot.
Payload(n) == [i \in 1 .. Digits(n) |-> n] \o <<Brace>>

\* Mutant: the sum wraps around.
AddsUpModulo(sum, bytes) == (sum + bytes) % (MaxCounter + 1)
\* The loop of write(): the counters of the peers, each addition saturating.
AddsUp(sum, bytes) == IF MaxCounter - sum < bytes THEN MaxCounter ELSE sum + bytes
ReceivedBytes(peers) == FoldLeft(AddsUp, 0, peers)

\* Write at the place the file is at: what lies behind it stays.
Overwrite(file, text) == text \o SubSeq(file, Len(text) + 1, Len(file))

\* TryReadMetrics accepts one JSON object and nothing after it.
Reads(file) == Len(file) > 1 /\ SelectInSeq(file, LAMBDA b: b = Brace) = Len(file)

FileFault == fileFaults < MaxFileFaults /\ fileFaults' = fileFaults + 1

RuntimeInit ==
    /\ main = "log" /\ tunnelUp = FALSE /\ meter = "none" /\ stopMeter = FALSE
    /\ \E n \in LogsFound: tunnelLog = [len |-> n, size |-> 0, offset |-> 0, open |-> FALSE]
    /\ sample = 0 /\ metrics = <<>> /\ lastWritten = -1 /\ processes = 1 /\ fileFaults = 0

-----------------------------------------------------------------------------
(* tunnel.log. *)

\* openRuntimeLog: a log that is too long starts afresh; a failure means no log.
OpensLog ==
    /\ main = "log" /\ main' = "adapter"
    /\ \/ LET n == IF tunnelLog.len > MaxLog THEN 0 ELSE tunnelLog.len IN
          tunnelLog' = [len |-> n, size |-> n, offset |-> n, open |-> TRUE] /\ UNCHANGED fileFaults
       \/ FileFault /\ UNCHANGED tunnelLog
       \/ FileFault /\ tunnelLog.len > MaxLog /\ tunnelLog' = [tunnelLog EXCEPT !.len = 0]
    /\ UNCHANGED <<tunnelUp, meterVars, processes>>

\* How far the file reaches when n bytes are written at its offset.
Appended(log, n) ==
    [log EXCEPT !.len = Max({log.len, log.offset + n}), !.offset = @ + n, !.size = @ + n]

\* Write, under the mutex, by any goroutine: a line that is longer than the log
\* is cut, one that does not fit empties it.  Truncate may fail, Seek may fail
\* after it, and Write may stop short.
LogsLine(length) ==
    LET n == Min({length, MaxLog})
        empties == tunnelLog.size + n > MaxLog
        emptied == [tunnelLog EXCEPT !.len = 0, !.offset = 0, !.size = 0]
        ready == IF empties THEN emptied ELSE tunnelLog
    IN
    /\ tunnelLog.open
    /\ \/ tunnelLog' = Appended(ready, n) /\ UNCHANGED fileFaults
       \/ FileFault /\ empties /\ UNCHANGED tunnelLog
       \/ FileFault /\ empties /\ tunnelLog' = [tunnelLog EXCEPT !.len = 0]
       \/ FileFault /\ \E k \in 0 .. n - 1: tunnelLog' = Appended(ready, k)
    /\ UNCHANGED <<main, tunnelUp, meterVars, processes>>

-----------------------------------------------------------------------------
(* service.go. *)

\* The adapter is up, and the monitor starts: it opens a file that has to
\* exist, and empties it.  A failure is logged, and the tunnel goes on.
StartsMeter ==
    /\ main = "adapter" /\ main' = "up" /\ tunnelUp' = TRUE /\ stopMeter' = FALSE
    /\ \/ meter' = "samples" /\ metrics' = <<>> /\ lastWritten' = -1 /\ UNCHANGED fileFaults
       \/ FileFault /\ meter' = "none" /\ UNCHANGED <<metrics, lastWritten>>
    /\ UNCHANGED <<tunnelLog, sample, processes>>

\* stopAndClose closes the channel and waits for the goroutine.
StopsMeter ==
    /\ main = "up" /\ main' = "stops" /\ stopMeter' = TRUE
    /\ UNCHANGED <<tunnelUp, tunnelLog, meter, sample, metrics, lastWritten, processes, fileFaults>>

MeterStopped ==
    /\ main = "stops" /\ meter \in {"none", "done"} /\ main' = "closes"
    /\ UNCHANGED <<tunnelUp, tunnelLog, meterVars, processes, fileFaults>>

\* adapter.Close, then the log.
ClosesAdapter ==
    /\ main = "closes" /\ main' = "closed" /\ tunnelUp' = FALSE
    /\ UNCHANGED <<tunnelLog, meterVars, processes, fileFaults>>
ClosesLog ==
    /\ main = "closed" /\ main' = "ended" /\ tunnelLog' = [tunnelLog EXCEPT !.open = FALSE]
    /\ UNCHANGED <<tunnelUp, meterVars, processes, fileFaults>>

\* The tunnel is connected again: the files are the ones the last process left.
StartsAgain ==
    /\ main = "ended" /\ processes < MaxProcesses
    /\ processes' = processes + 1 /\ main' = "log"
    /\ UNCHANGED <<tunnelUp, tunnelLog, meterVars, fileFaults>>

-----------------------------------------------------------------------------
(* The goroutine of the monitor. *)

\* Where run() goes after a write: the last one is followed by Sync and Close.
NextWait == IF meter \in {"lastWrite", "lastCut", "lastSample"} THEN "done" ELSE "waits"
AfterSample == IF meter = "lastSample" THEN "lastWrite" ELSE "writes"
AfterWrite == IF meter = "lastWrite" THEN "lastCut" ELSE "cuts"

\* adapter.Configuration and the sums.
Samples ==
    /\ meter \in {"samples", "lastSample"}
    /\ \/ \E peers \in PeerBytes: sample' = ReceivedBytes(peers)
          /\ meter' = AfterSample /\ UNCHANGED <<lastWritten, fileFaults>>
       \/ FileFault /\ meter' = NextWait /\ lastWritten' = -1 /\ UNCHANGED sample
    /\ UNCHANGED <<main, tunnelUp, tunnelLog, stopMeter, metrics, processes>>

\* Seek to the start and Write: either may fail, Write after some bytes.
Writes ==
    /\ meter \in {"writes", "lastWrite"}
    /\ \/ metrics' = Overwrite(metrics, Payload(sample)) /\ meter' = AfterWrite
          /\ UNCHANGED <<lastWritten, fileFaults>>
       \/ FileFault /\ meter' = NextWait /\ lastWritten' = -1
          /\ \E k \in 0 .. Digits(sample):
                metrics' = Overwrite(metrics, SubSeq(Payload(sample), 1, k))
    /\ UNCHANGED <<main, tunnelUp, tunnelLog, stopMeter, sample, processes>>

\* Mutant: the rest of a longer text stays.
CutsNothing ==
    /\ meter \in {"cuts", "lastCut"} /\ meter' = NextWait /\ lastWritten' = sample
    /\ UNCHANGED <<main, tunnelUp, tunnelLog, stopMeter, sample, metrics, processes, fileFaults>>

\* Truncate to the length of the new text.
Cuts ==
    /\ meter \in {"cuts", "lastCut"} /\ meter' = NextWait
    /\ \/ metrics' = SubSeq(metrics, 1, Len(Payload(sample))) /\ lastWritten' = sample
          /\ UNCHANGED fileFaults
       \/ FileFault /\ lastWritten' = -1 /\ UNCHANGED metrics
    /\ UNCHANGED <<main, tunnelUp, tunnelLog, stopMeter, sample, processes>>

\* Mutant: nobody looks at the channel.
TicksOnly ==
    /\ meter = "waits" /\ meter' = "samples"
    /\ UNCHANGED <<main, tunnelUp, tunnelLog, stopMeter, sample, metrics, lastWritten,
                   processes, fileFaults>>

\* select: the ticker, or the channel that was closed, in which case one last write.
Ticks ==
    /\ meter = "waits"
    /\ \/ meter' = "samples"
       \/ stopMeter /\ meter' = "lastSample"
    /\ UNCHANGED <<main, tunnelUp, tunnelLog, stopMeter, sample, metrics, lastWritten,
                   processes, fileFaults>>
MeterEnds == Ticks /\ meter' = "lastSample"

RuntimeNext ==
    \/ OpensLog \/ StartsMeter \/ StopsMeter \/ MeterStopped \/ ClosesAdapter \/ ClosesLog
    \/ StartsAgain \/ Samples \/ Writes \/ Cuts \/ Ticks
    \/ \E length \in LineLengths: LogsLine(length)

\* Goroutines run, and select with a ticker of a second and a closed channel
\* does not choose the ticker for ever.
RuntimeFairness ==
    /\ WF_runtimeVars(OpensLog \/ StartsMeter \/ MeterStopped \/ ClosesAdapter \/ ClosesLog)
    /\ WF_runtimeVars(Samples \/ Writes \/ Cuts)
    /\ SF_runtimeVars(MeterEnds)

RuntimeSpec == RuntimeInit /\ [][RuntimeNext]_runtimeVars /\ RuntimeFairness

-----------------------------------------------------------------------------
(* tunnel.log never outgrows maximumRuntimeLogBytes while a process writes *)
(* it, whatever fails between Truncate, Seek and Write; and the writer     *)
(* never counts less than the file holds.                                  *)
LogBounded ==
    tunnelLog.open => tunnelLog.len <= MaxLog /\ tunnelLog.len <= tunnelLog.size

(* The goroutine asks the driver only while the adapter is there: the      *)
(* service waits for it before it closes the adapter.                      *)
MeterUsesAdapter == meter \in {"samples", "lastSample", "waits"} => tunnelUp

(* What the app accepts in tunnel.metrics between two samples is exactly   *)
(* the last snapshot, unless a call failed: the rest of a longer one is    *)
(* gone, also when the process before this one left it.                    *)
MetricsAreWhole ==
    meter \in {"waits", "done"} /\ lastWritten # -1 =>
        Reads(metrics) /\ metrics = Payload(lastWritten)

(* The counters of a snapshot are the sums of what the driver reported for *)
(* the peers, and stay at their limit where these do not fit               *)
(* (runtime_metrics.go:87-99).                                             *)
CountersSaturate ==
    lastWritten # -1 =>
        \E peers \in PeerBytes:
            lastWritten = Min({MaxCounter, FoldLeft(LAMBDA a, b: a + b, 0, peers)})

(* Stopping the tunnel never hangs on its metrics.                         *)
MeterStops == []<>(main \notin {"stops", "closes", "closed"})

(* The files a tunnel leaves for the app, and the adapter they come from.  *)
FilesWhole == LogBounded /\ MeterUsesAdapter /\ MetricsAreWhole
=============================================================================
