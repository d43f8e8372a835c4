----------------------------- MODULE MetricsBus -----------------------------
(***************************************************************************)
(* MetricsBus (src/metrics/mod.rs) and the task that appends its events to *)
(* a file (src/metrics/jsonl.rs).  emit() is a try_send(): it never waits, *)
(* and an event that finds no room, or no receiver, is gone.  Which events *)
(* are queued makes no difference to the miner, so the bus is their        *)
(* number.                                                                 *)
(***************************************************************************)
EXTENDS Integers

CONSTANT BusCapacity  \* of the bus, 1024

VARIABLES
  queued,   \* how many events the bus holds
  appender  \* the task: "opening" its file, "writing", or "ended"

vars == <<queued, appender>>

Init == queued = 0 /\ appender = "opening"

\* Faulty variant: send().await.
EmitWaiting ==
  /\ queued < BusCapacity \/ appender = "ended"
  /\ queued' = IF appender = "ended" THEN queued ELSE queued + 1
  /\ UNCHANGED appender

\* emit().
Emit ==
  /\ queued' = IF appender # "ended" /\ queued < BusCapacity THEN queued + 1 ELSE queued
  /\ UNCHANGED appender

\* create_dir_all() and open().
Open ==
  /\ appender = "opening"
  /\ appender' = "writing"
  /\ UNCHANGED queued

\* recv(), writeln! and flush().
Write ==
  /\ appender = "writing" /\ queued > 0
  /\ queued' = queued - 1
  /\ UNCHANGED appender

\* A file error ends the task, and the receiver with what is queued is dropped.
Fail ==
  /\ appender = "opening" \/ (appender = "writing" /\ queued > 0)
  /\ appender' = "ended"
  /\ queued' = 0

Append == Open \/ Write \/ Fail

TypeOK == queued \in 0..BusCapacity /\ appender \in {"opening", "writing", "ended"}

=============================================================================
