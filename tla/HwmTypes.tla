------------------------------ MODULE HwmTypes ------------------------------
(***************************************************************************)
(* The vocabulary of titan-hwm-v3: the enumerations of core/types.hpp.      *)
(***************************************************************************)
EXTENDS Naturals

\* DEV stands for ANDROID_DEV, WEB_DEV, SYSTEM_DEV, CASUAL and AI_TASK, which
\* no code under policy/, workload/ or enforcement/ tells apart.
WorkloadType == {"DEV", "SERVICE", "VM", "NEUTRAL"}

WorkloadState == {"DISCOVERED", "ACTIVE", "BACKGROUND_EXECUTING", "IDLE",
                  "AGING", "RECLAIMABLE", "TERMINATED"}

\* UNKNOWN is a value of a single process only: aggregate() never returns it.
ActivityState == {"EXECUTING", "IDLE", "COMPLETED"}

\* An ordered enumeration: the code compares its members with >=.
NORMAL   == 0
MODERATE == 1
HIGH     == 2
CRITICAL == 3
PressureLevel == NORMAL..CRITICAL

PolicyDecision == {"KEEP_FULL", "KEEP_BACKGROUND", "THROTTLE", "FREEZE", "RECLAIM"}
=============================================================================
