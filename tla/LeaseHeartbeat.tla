--------------------------- MODULE LeaseHeartbeat ---------------------------
(***************************************************************************)
(* One assembly job between its claim and its result: process_with_lease   *)
(* (worker/dif_assembly.rs), and the pool of one writer connection that    *)
(* its conversion, its heartbeat and every request share (db/pool.rs).     *)
(* DifAssembly takes this from claim to result as steps of one owner; here *)
(* are the tasks inside.                                                   *)
(***************************************************************************)
EXTENDS Integers, Sequences, SequencesExt

CONSTANTS
  MaxStores,   \* bound: write transactions of a conversion
  MaxBeats     \* bound: heartbeats

ASSUME HeartbeatAssumption == MaxStores \in Nat /\ MaxBeats \in Nat

WriterTask == {"conversion", "heartbeat", "request"}

VARIABLES
  writerQueue,  \* tasks that wait for the connection; the head holds it
  conversion,   \* "working", "waiting", "in transaction", "finished"
  leaseTask,    \* "selecting", "renewing", "awaiting", "returned"
  leaseHeld,    \* the row still names this owner
  leaseResult,  \* what process_with_lease returned
  storesLeft,
  beatsLeft

heartbeatVars ==
  <<writerQueue, conversion, leaseTask, leaseHeld, leaseResult, storesLeft, beatsLeft>>

HoldsWriter(t) == writerQueue # <<>> /\ Head(writerQueue) = t

HeartbeatTypeOK ==
  /\ ToSet(writerQueue) \subseteq WriterTask /\ IsInjective(writerQueue)
  /\ conversion \in {"working", "waiting", "in transaction", "finished"}
  /\ leaseTask \in {"selecting", "renewing", "awaiting", "returned"}
  /\ leaseHeld \in BOOLEAN
  /\ leaseResult \in {"none", "result", "lost"}
  /\ storesLeft \in 0..MaxStores /\ beatsLeft \in 0..MaxBeats

HeartbeatInit ==
  /\ writerQueue = <<>>
  /\ conversion = "working"
  /\ leaseTask = "selecting"
  /\ leaseHeld = TRUE
  /\ leaseResult = "none"
  /\ storesLeft \in 0..MaxStores
  /\ beatsLeft \in 0..MaxBeats

------------------------------------------------------------------------------
(* The conversion, a task of its own that the runtime polls.               *)

WantWriter ==
  /\ conversion = "working" /\ storesLeft > 0
  /\ conversion' = "waiting"
  /\ writerQueue' = Append(writerQueue, "conversion")
  /\ UNCHANGED <<leaseTask, leaseHeld, leaseResult, storesLeft, beatsLeft>>

\* store_artifact holds its transaction across several awaits.
BeginWrite ==
  /\ conversion = "waiting" /\ HoldsWriter("conversion")
  /\ conversion' = "in transaction"
  /\ UNCHANGED <<writerQueue, leaseTask, leaseHeld, leaseResult, storesLeft, beatsLeft>>

EndWrite ==
  /\ conversion = "in transaction"
  /\ conversion' = "working"
  /\ writerQueue' = Tail(writerQueue)
  /\ storesLeft' = storesLeft - 1
  /\ UNCHANGED <<leaseTask, leaseHeld, leaseResult, beatsLeft>>

FinishConversion ==
  /\ conversion = "working" /\ storesLeft = 0
  /\ conversion' = "finished"
  /\ UNCHANGED <<writerQueue, leaseTask, leaseHeld, leaseResult, storesLeft, beatsLeft>>

ConversionWithin == \* mutant: the conversion is a branch of the select, not a task
  leaseTask \in {"selecting", "awaiting"}
    /\ (WantWriter \/ BeginWrite \/ EndWrite \/ FinishConversion)

ConversionStep == WantWriter \/ BeginWrite \/ EndWrite \/ FinishConversion

------------------------------------------------------------------------------
(* The lease task.                                                         *)

\* select! takes either branch when both are ready.
ReturnResult ==
  /\ leaseTask = "selecting" /\ conversion = "finished"
  /\ leaseTask' = "returned"
  /\ leaseResult' = "result"
  /\ UNCHANGED <<writerQueue, conversion, leaseHeld, storesLeft, beatsLeft>>

Beat ==
  /\ leaseTask = "selecting" /\ beatsLeft > 0
  /\ beatsLeft' = beatsLeft - 1
  /\ leaseTask' = "renewing"
  /\ writerQueue' = Append(writerQueue, "heartbeat")
  /\ UNCHANGED <<conversion, leaseHeld, leaseResult, storesLeft>>

LeaveConversion == \* mutant: the conversion of a lost lease is left to itself
  leaseTask' = "returned" /\ leaseResult' = "lost"

\* A worker whose lease is gone stays with its conversion.
LeaseLost == leaseTask' = "awaiting" /\ UNCHANGED leaseResult

\* The row was renewed, or it has another owner; an error counts as that.
Renew ==
  /\ leaseTask = "renewing" /\ HoldsWriter("heartbeat")
  /\ writerQueue' = Tail(writerQueue)
  /\ \/ leaseHeld /\ leaseTask' = "selecting" /\ UNCHANGED leaseResult
     \/ LeaseLost
  /\ UNCHANGED <<conversion, leaseHeld, storesLeft, beatsLeft>>

ReturnLost ==
  /\ leaseTask = "awaiting" /\ conversion = "finished"
  /\ leaseTask' = "returned"
  /\ leaseResult' = "lost"
  /\ UNCHANGED <<writerQueue, conversion, leaseHeld, storesLeft, beatsLeft>>

LeaseTaskStep == ReturnResult \/ Beat \/ Renew \/ ReturnLost

------------------------------------------------------------------------------
(* Everyone else.                                                          *)

RequestWrites ==
  /\ "request" \notin ToSet(writerQueue) /\ leaseTask # "returned"
  /\ writerQueue' = Append(writerQueue, "request")
  /\ UNCHANGED <<conversion, leaseTask, leaseHeld, leaseResult, storesLeft, beatsLeft>>

\* A request's statement may be the claim of an expired lease.
RequestDone ==
  /\ HoldsWriter("request")
  /\ writerQueue' = Tail(writerQueue)
  /\ leaseHeld' \in {leaseHeld, FALSE}
  /\ UNCHANGED <<conversion, leaseTask, leaseResult, storesLeft, beatsLeft>>

HeartbeatNext == ConversionStep \/ LeaseTaskStep \/ RequestWrites \/ RequestDone

\* The runtime polls every task that can go on, and requests end.
HeartbeatFairness ==
  /\ WF_heartbeatVars(ConversionStep)
  /\ WF_heartbeatVars(LeaseTaskStep)
  /\ WF_heartbeatVars(RequestDone)

HeartbeatSpec == HeartbeatInit /\ [][HeartbeatNext]_heartbeatVars /\ HeartbeatFairness

------------------------------------------------------------------------------
(* Properties.                                                             *)

\* The lease task always returns: neither it nor its conversion waits for the
\* connection while the other keeps it and waits for the first.
LeaseTaskReturns == (leaseTask = "selecting") ~> (leaseTask = "returned")

\* A worker is free for the next job only when its conversion is over, also
\* when the lease was lost, and a conversion that is over holds no connection.
NoOrphanConversion ==
  leaseTask = "returned" => conversion = "finished" /\ "conversion" \notin ToSet(writerQueue)
=============================================================================
