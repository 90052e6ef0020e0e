---- MODULE ServerState ----
(***************************************************************************)
(* The replication modes and server states of include/state.h, and the     *)
(* test set_state (state.c) applies before it accepts a state.             *)
(***************************************************************************)

Modes == {"UNKNOWN_REP", "ACTIVE_REP", "PASSIVE_REP"}

ActiveStates == {"ACTIVE_RUNNING", "ACTIVE_RECOVER", "QUIESCE"}

PassiveStates == {"PASSIVE_PRIMARY", "PASSIVE_BACKUP", "PASSIVE_PREPRIMARY"}

States == {"UNKNOWN_STATE"} \cup ActiveStates \cup PassiveStates

\* The assertions at the head of set_state: the mode is known and the state
\* belongs to it.  When this is false the process aborts.
LegalState(m, s) == \/ m = "ACTIVE_REP" /\ s \in ActiveStates
                    \/ m = "PASSIVE_REP" /\ s \in PassiveStates

====
