---------------------------- MODULE WorkerFence ----------------------------
(***************************************************************************)
(* Governor with the memory of one more fence: which worker incarnations   *)
(* were registered when each intervention was authorized.                  *)
(***************************************************************************)
EXTENDS Governor

VARIABLE boots_at   \* history: worker_boots at the authorization, by identity

FInit == Init /\ boots_at = [i \in {} |-> worker_boots]

FNext ==
  /\ Next
  /\ boots_at' = IF next_int_id' = next_int_id THEN boots_at
                 ELSE I!Put(boots_at, next_int_id, worker_boots)

FSpec == FInit /\ [][FNext]_<<vars, boots_at>>

(* Pre-dispatch revalidation confirms the worker incarnation: nothing is   *)
(* dispatched when a worker that was registered at its authorization has   *)
(* come back as another incarnation (current_authority, dispatch).         *)
DispatchKeepsIncarnation ==
  [][\A i \in DOMAIN boots_at :
       /\ interventions[i].status = "AUTHORIZED"
       /\ interventions'[i].status = "DISPATCHED"
       => \A w \in DOMAIN boots_at[i] \cap DOMAIN worker_boots :
            worker_boots[w] = boots_at[i][w]]_<<vars, boots_at>>
=============================================================================
