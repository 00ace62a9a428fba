----------------------------- MODULE MemoryGuard -----------------------------
(* The guard of rfsn_v10/memory_guard.py: it compares the memory in use,    *)
(* plus what is about to be used, with two limits.  Above the soft limit it  *)
(* raises the pressure flag and asks for an eviction, above the hard limit   *)
(* it enters emergency mode, which only its owner ends.                      *)
EXTENDS Naturals

CONSTANTS
    SoftLimit,    \* soft_limit_gb
    HardLimit,    \* hard_limit_gb
    Memory        \* bound: the values of the active memory

ASSUME GuardAssumption ==
    /\ SoftLimit \in Nat
    /\ HardLimit \in Nat
    /\ SoftLimit <= HardLimit
    /\ Memory \subseteq Nat

VARIABLES
    active,       \* what get_active_memory answers: the rest of the program moves it
    pressure,     \* _pressure_active
    emergency     \* _sparse_disabled and _quantized_disabled, always set together

guardVars == <<active, pressure, emergency>>

GuardInit ==
    /\ active \in Memory
    /\ pressure = FALSE
    /\ emergency = FALSE

\* should_disable_sparse and should_disable_quantized
Disabled == emergency \/ pressure

\* A mutant of CheckPressure: the flag is only ever set.
CheckLatches(bytes) ==
    /\ pressure' = (pressure \/ active + bytes > HardLimit \/ active + bytes > SoftLimit)
    /\ UNCHANGED <<active, emergency>>

\* check_pressure, before an attention that needs so many bytes.
CheckPressure(bytes) ==
    /\ pressure' = (active + bytes > HardLimit \/ active + bytes > SoftLimit)
    /\ UNCHANGED <<active, emergency>>

\* enforce_safety asks for an eviction between the limits, of what is above
\* the soft one and at least of the bytes to come.
Asks(bytes) == active + bytes > SoftLimit /\ active + bytes <= HardLimit
Target(bytes) ==
    IF active + bytes - SoftLimit > bytes THEN active + bytes - SoftLimit ELSE bytes

\* What enforce_safety does to the flags.  Its second look at the hard limit,
\* after the eviction, never fires: what was below the limit is below it still.
EnforceSafety(bytes) ==
    /\ pressure' = (active + bytes > SoftLimit)
    /\ emergency' = (emergency \/ active + bytes > HardLimit)
    /\ UNCHANGED active

ExitEmergency ==
    /\ emergency
    /\ emergency' = FALSE
    /\ pressure' = FALSE
    /\ UNCHANGED active

\* The rest of the program allocates and frees.
MemoryMoves ==
    /\ active' \in Memory \ {active}
    /\ UNCHANGED <<pressure, emergency>>
=============================================================================
