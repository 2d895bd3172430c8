---------------------------- MODULE MCDeployment ----------------------------
(* The three files of bridge/src/bridge/migrations and their statements.     *)
EXTENDS Deployment

MCFiles == <<"idempotency_0001_init", "telemetry_0001_init", "agent_0001_init">>

Make(names, guarded) == [i \in 1..Len(names) |-> [makes |-> names[i], guarded |-> guarded]]

MCScript == [
    idempotency_0001_init |->
        Make(<<"idempotency", "idx_idempotency_created_at">>, TRUE),
    telemetry_0001_init |->
        Make(<<"llm_calls", "idx_llm_calls_timestamp", "idx_llm_calls_task_class",
               "idx_llm_calls_actor">>, TRUE),
    agent_0001_init |->
        Make(<<"drafts", "drafts_agent_status_idx", "drafts_dispatch_idx",
               "drafts_created_idx">>, FALSE)]
=============================================================================
