-------------------------- MODULE DiagnosticLogger --------------------------
(***************************************************************************)
(* diagnostic_logger.cpp: a bounded ring of lines between the threads that *)
(* log and one thread that writes the session file.                        *)
(*                                                                         *)
(* A line is its sequence number.  Each region under g_mutex is one step;  *)
(* so are the semaphore's calls, the writes, and a test outside the mutex. *)
(* Whether a line still fits into the batch depends on its length, which   *)
(* is left open.  `file` has what was handed to writeAll, which drops what *)
(* the storage refuses.                                                    *)
(***************************************************************************)
EXTENDS Naturals, Sequences, SequencesExt

CONSTANTS
    Thread,    \* the threads that log and flush
    Main,      \* the one of them that calls shutdown
    Capacity,  \* QUEUE_CAPACITY
    MaxCalls   \* bound on the calls of log and flush, shutdown's aside

ASSUME MainAssumption == Main \in Thread
ASSUME BoundAssumption == Capacity \in Nat \ {0} /\ MaxCalls \in Nat

VARIABLES
    live,      \* g_initialized
    async,     \* g_async
    stopping,  \* g_stopping
    ring,      \* g_queue, 0 in a slot never used
    head, tail, count,   \* g_head, g_tail, g_count
    enqueued,  \* g_lastEnqueued
    written,   \* g_lastWritten
    sema,      \* the permits of g_sema
    pc,        \* where each thread is
    target,    \* flush's local variable
    closing,   \* Main is in shutdown
    wpc,       \* where the worker is
    hand,      \* the worker's line, 0 when none
    batch,     \* the worker's batch
    calls,
    file,      \* history: the lines handed to writeAll
    lost       \* history: the lines dropped; g_dropped is their number

flags  == <<live, async, stopping>>
lines  == <<ring, head, tail, count, enqueued, lost>>
caller == <<pc, target, closing, calls>>
writer == <<wpc, hand, batch>>
vars == <<flags, lines, written, sema, caller, writer, file>>

Slot == 0 .. Capacity - 1

TypeOK ==
    /\ live \in BOOLEAN /\ async \in BOOLEAN /\ stopping \in BOOLEAN
    /\ ring \in [Slot -> Nat]
    /\ head \in Slot /\ tail \in Slot /\ count \in 0 .. Capacity
    /\ enqueued \in Nat /\ written \in Nat
    /\ sema \in {0, 1}
    /\ pc \in [Thread -> {"idle", "enqueue", "signal", "direct", "target", "poll",
                          "stop", "wake", "join", "close", "gone"}]
    /\ target \in [Thread -> Nat]
    /\ closing \in BOOLEAN
    /\ wpc \in {"off", "wait", "take", "put", "markFull", "drained", "mark", "check"}
    /\ hand \in Nat /\ batch \in Seq(Nat)
    /\ calls \in 0 .. MaxCalls
    /\ file \in Seq(Nat) /\ lost \subseteq Nat

-----------------------------------------------------------------------------
(* The threads that log *)

\* (i + 1) % QUEUE_CAPACITY
After(i) == IF i = Capacity - 1 THEN 0 ELSE i + 1

Goto(t, at) == pc' = [pc EXCEPT ![t] = at]
Call == calls < MaxCalls /\ calls' = calls + 1

\* log: refused before init and after shutdown, direct without a worker.
Log(t) ==
    /\ pc[t] = "idle" /\ Call
    /\ Goto(t, IF ~live THEN "idle" ELSE IF async THEN "enqueue" ELSE "direct")
    /\ UNCHANGED <<flags, lines, written, sema, target, closing, writer, file>>

\* As Push, with the limit off by one.
PushEarly ==
    /\ ring' = [ring EXCEPT ![tail] = enqueued + 1]
    /\ tail' = After(tail) /\ enqueued' = enqueued + 1
    /\ IF count + 1 = Capacity
       THEN head' = After(head) /\ UNCHANGED count /\ lost' = lost \cup {ring[head]}
       ELSE count' = count + 1 /\ UNCHANGED <<head, lost>>

\* A full ring gives up its oldest line.
Push ==
    /\ ring' = [ring EXCEPT ![tail] = enqueued + 1]
    /\ tail' = After(tail) /\ enqueued' = enqueued + 1
    /\ IF count = Capacity
       THEN head' = After(head) /\ UNCHANGED count /\ lost' = lost \cup {ring[head]}
       ELSE count' = count + 1 /\ UNCHANGED <<head, lost>>

EnqueueLine(t) ==
    /\ pc[t] = "enqueue" /\ Goto(t, "signal")
    /\ IF stopping THEN UNCHANGED lines ELSE Push
    /\ UNCHANGED <<flags, written, sema, target, closing, calls, writer, file>>

\* As Signal, only for the first line of the ring.
SignalFirst(t) ==
    /\ pc[t] = "signal"
    /\ Goto(t, IF closing /\ t = Main THEN "stop" ELSE "idle")
    /\ sema' = IF count = 1 THEN 1 ELSE sema
    /\ UNCHANGED <<flags, lines, written, target, closing, calls, writer, file>>

\* One permit at most; shutdown goes on after its own line.
Signal(t) ==
    /\ pc[t] = "signal"
    /\ Goto(t, IF closing /\ t = Main THEN "stop" ELSE "idle")
    /\ sema' = 1
    /\ UNCHANGED <<flags, lines, written, target, closing, calls, writer, file>>

\* fallbackWrite: the line is not numbered.
Direct(t) ==
    /\ pc[t] = "direct"
    /\ Goto(t, IF closing /\ t = Main THEN "stop" ELSE "idle")
    /\ UNCHANGED <<flags, lines, written, sema, target, closing, calls, writer, file>>

Flush(t) ==
    /\ pc[t] = "idle" /\ Call
    /\ Goto(t, IF async THEN "target" ELSE "idle")
    /\ UNCHANGED <<flags, lines, written, sema, target, closing, writer, file>>

FlushTarget(t) ==
    /\ pc[t] = "target" /\ Goto(t, "poll")
    /\ target' = [target EXCEPT ![t] = enqueued]
    /\ UNCHANGED <<flags, lines, written, sema, closing, calls, writer, file>>

\* Up to 500 looks at g_lastWritten.
FlushDone(t) ==
    /\ pc[t] = "poll" /\ written >= target[t] /\ Goto(t, "idle")
    /\ UNCHANGED <<flags, lines, written, sema, target, closing, calls, writer, file>>

FlushTimeout(t) ==
    /\ pc[t] = "poll" /\ written < target[t] /\ Goto(t, "idle")
    /\ UNCHANGED <<flags, lines, written, sema, target, closing, calls, writer, file>>

-----------------------------------------------------------------------------
(* shutdown, by Main *)

Shutdown ==
    /\ pc[Main] = "idle" /\ live
    /\ closing' = TRUE
    /\ Goto(Main, IF async THEN "enqueue" ELSE "direct")
    /\ UNCHANGED <<flags, lines, written, sema, target, calls, writer, file>>

Stop ==
    /\ pc[Main] = "stop" /\ Goto(Main, IF async THEN "wake" ELSE "join")
    /\ stopping' = async
    /\ UNCHANGED <<live, async, lines, written, sema, target, closing, calls, writer,
                   file>>

\* Stop's flag without a signal.
WakeNot ==
    /\ pc[Main] = "wake" /\ Goto(Main, "join")
    /\ UNCHANGED <<flags, lines, written, sema, target, closing, calls, writer, file>>

\* The worker may have used up the permit of the last line before it saw the flag.
Wake ==
    /\ pc[Main] = "wake" /\ Goto(Main, "join")
    /\ sema' = 1
    /\ UNCHANGED <<flags, lines, written, target, closing, calls, writer, file>>

Join ==
    /\ pc[Main] = "join" /\ wpc = "off" /\ Goto(Main, "close")
    /\ async' = FALSE
    /\ UNCHANGED <<live, stopping, lines, written, sema, target, closing, calls, writer,
                   file>>

Close ==
    /\ pc[Main] = "close" /\ Goto(Main, "gone")
    /\ live' = FALSE
    /\ UNCHANGED <<async, stopping, lines, written, sema, target, closing, calls, writer,
                   file>>

-----------------------------------------------------------------------------
(* The worker *)

others == <<flags, caller>>

WaitSema ==
    /\ wpc = "wait" /\ wpc' = "take"
    /\ sema = 1 /\ sema' = 0
    /\ UNCHANGED <<others, lines, written, hand, batch, file>>

TakeLine ==
    /\ wpc = "take"
    /\ IF count > 0
       THEN /\ hand' = ring[head] /\ head' = After(head) /\ count' = count - 1
            /\ wpc' = "put"
       ELSE wpc' = "drained" /\ UNCHANGED <<hand, head, count>>
    /\ UNCHANGED <<others, ring, tail, enqueued, lost, written, sema, batch, file>>

Fits ==
    /\ wpc = "put" /\ wpc' = "take"
    /\ batch' = Append(batch, hand) /\ hand' = 0
    /\ UNCHANGED <<others, lines, written, sema, file>>

\* The batch is written to make room for the line in hand.
Full ==
    /\ wpc = "put" /\ batch # <<>> /\ wpc' = "markFull"
    /\ file' = file \o batch
    /\ UNCHANGED <<others, lines, written, sema, hand, batch>>

MarkFull ==
    /\ wpc = "markFull" /\ wpc' = "take"
    /\ written' = Last(batch)
    /\ batch' = <<hand>> /\ hand' = 0
    /\ UNCHANGED <<others, lines, sema, file>>

Drained ==
    /\ wpc = "drained"
    /\ IF batch = <<>> THEN wpc' = "check" /\ UNCHANGED file
       ELSE wpc' = "mark" /\ file' = file \o batch
    /\ UNCHANGED <<others, lines, written, sema, hand, batch>>

Mark ==
    /\ wpc = "mark" /\ wpc' = "check"
    /\ written' = Last(batch) /\ batch' = <<>>
    /\ UNCHANGED <<others, lines, sema, hand, file>>

Check ==
    /\ wpc = "check" /\ wpc' = IF stopping /\ count = 0 THEN "off" ELSE "wait"
    /\ UNCHANGED <<others, lines, written, sema, hand, batch, file>>

-----------------------------------------------------------------------------

\* init: with a worker, or without one when mutex, semaphore or thread fail.
Init ==
    /\ live = TRUE /\ async \in BOOLEAN /\ stopping = FALSE
    /\ ring = [i \in Slot |-> 0] /\ head = 0 /\ tail = 0 /\ count = 0
    /\ enqueued = 0 /\ written = 0 /\ sema = 0
    /\ pc = [t \in Thread |-> "idle"] /\ target = [t \in Thread |-> 0]
    /\ closing = FALSE
    /\ wpc = (IF async THEN "wait" ELSE "off") /\ hand = 0 /\ batch = <<>>
    /\ calls = 0 /\ file = <<>> /\ lost = {}

Going(t) ==
    \/ EnqueueLine(t) \/ Signal(t) \/ Direct(t)
    \/ FlushTarget(t) \/ FlushDone(t) \/ FlushTimeout(t)

Closing == Stop \/ Wake \/ Join \/ Close

Work == WaitSema \/ TakeLine \/ Fits \/ Full \/ MarkFull \/ Drained \/ Mark \/ Check

Next ==
    \/ \E t \in Thread : Log(t) \/ Flush(t) \/ Going(t)
    \/ Shutdown \/ Closing
    \/ Work

\* A call once begun is carried on, and so is the worker; nobody has to call.
Spec ==
    /\ Init /\ [][Next]_vars
    /\ \A t \in Thread : WF_vars(Going(t))
    /\ WF_vars(Closing) /\ WF_vars(Work)

-----------------------------------------------------------------------------
(* Properties *)

\* "newest diagnostics preserved": a line is only dropped once Capacity newer
\* ones have been accepted (the full ring in log).
NewestKept == \A s \in lost : s + Capacity <= enqueued

\* No line is left in the ring with the worker asleep and nobody to wake it (one
\* permit for any number of lines, taken before the ring is emptied).
NoLostWake ==
    count > 0 /\ wpc = "wait" =>
        sema = 1 \/ \E t \in Thread : pc[t] \in {"signal", "wake"}

\* shutdown ends, with every line on file that was accepted and not dropped.
ShutdownDrains ==
    closing ~> pc[Main] = "gone" /\ 1 .. enqueued \subseteq ToSet(file) \cup lost
=============================================================================
