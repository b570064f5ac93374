----------------------------- MODULE ConfigPromise -----------------------------
(****************************************************************************)
(* What the system promises about configurations, with no processes, no     *)
(* queues and no faults: the table of requests only grows; a request is     *)
(* written to sensor_config once it is in the table, for the first time in  *)
(* the order of the table and perhaps again later; and whoever sent it is   *)
(* told one outcome, SUCCESS only after the write.                          *)
(****************************************************************************)
EXTENDS Naturals, Sequences

CONSTANTS Requests,   \* request ids
          Target,     \* Target[r]: the sensor that request r is about
          Enrolled,   \* sensors that have a row in sensor_config
          NoRequest   \* request_id of a row that no request has changed

Outcomes == {"SUCCESS", "TIMEOUT", "SYSTEM_FULL"}

VARIABLES pending,  \* rows of sensor_config_pending, in commit order
          config,   \* config[s]: request_id in the row of sensor_config of s
          applied,  \* requests written to sensor_config so far
          result    \* result[r]: what the sender was told, or "PENDING"

vars == <<pending, config, applied, result>>

Rows == {pending[i] : i \in DOMAIN pending}

Init == /\ pending = <<>>
        /\ config = [s \in Enrolled |-> NoRequest]
        /\ applied = {}
        /\ result = [r \in Requests |-> "PENDING"]

Persist(r) == /\ r \notin Rows
              /\ Target[r] \in Enrolled
              /\ pending' = Append(pending, r)
              /\ UNCHANGED <<config, applied, result>>

\* No later request for the same sensor was written before.
InTurn(r) == \A i, j \in DOMAIN pending :
                i < j /\ pending[i] = r /\ pending[j] \in applied
                    => Target[pending[j]] # Target[r]

Write(r) == /\ r \in Rows
            /\ r \in applied \/ InTurn(r)
            /\ config' = [config EXCEPT ![Target[r]] = r]
            /\ applied' = applied \cup {r}
            /\ UNCHANGED <<pending, result>>

Tell(r, outcome) == /\ result[r] = "PENDING"
                    /\ outcome = "SUCCESS" => r \in applied
                    /\ result' = [result EXCEPT ![r] = outcome]
                    /\ UNCHANGED <<pending, config, applied>>

Next == \E r \in Requests : \/ Persist(r) \/ Write(r)
                            \/ \E outcome \in Outcomes : Tell(r, outcome)

Spec == Init /\ [][Next]_vars
================================================================================
