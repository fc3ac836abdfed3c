--------------------------- MODULE VerificationLadder ---------------------------
(***************************************************************************)
(* What a verification promises to who submitted the statement: a jury     *)
(* decides it, or after a bounded number of attempts nobody does.          *)
(***************************************************************************)
EXTENDS Naturals

CONSTANTS Verifications, MaxAttempts

VARIABLES
    level,     \* verification -> how many attempts there have been
    standing,  \* verification -> the status of the last one
    torn       \* verification -> whether the last one failed and may yet be decided

Start == \A v \in Verifications : level[v] = 0 /\ standing[v] = "NONE"

\* From one status to the next, with so many more attempts.
Move(v, from, to, more) ==
    /\ standing[v] = from /\ standing'[v] = to
    /\ level'[v] = level[v] + more

Submit(v) == level[v] = 0 /\ Move(v, "NONE", "ACTIVE", 1)

Void(v) == Move(v, "ACTIVE", "VOIDED", 0)

Relaunch(v) == level[v] < MaxAttempts /\ Move(v, "VOIDED", "ACTIVE", 1)

Settle(v) == Move(v, "ACTIVE", "SETTLED", 0)

GiveUp(v) == Move(v, "VOIDED", "GAVE_UP", 0)

\* A second report of the same failure may take the end of the last attempt back; all
\* that can follow is to give up again.
ReportAgain(v) == level[v] = MaxAttempts /\ Move(v, "GAVE_UP", "VOIDED", 0)

\* A claim whose attempt nobody had recorded becomes a verification when it is settled.
SettleAtOnce(v) == level[v] = 0 /\ Move(v, "NONE", "SETTLED", 1)

\* A torn attempt may be settled though it was voided, and voided though it was settled.
SettleTorn(v) == torn[v] /\ Move(v, "VOIDED", "SETTLED", 0)
VoidTorn(v) == torn[v] /\ Move(v, "SETTLED", "VOIDED", 0)

Stay(v) == standing'[v] = standing[v] /\ level'[v] = level[v]

Step(v) ==
    \/ Stay(v)
    \/ Submit(v) \/ Void(v) \/ Relaunch(v) \/ Settle(v) \/ GiveUp(v) \/ ReportAgain(v)
    \/ SettleAtOnce(v) \/ SettleTorn(v) \/ VoidTorn(v)

Climb == Start /\ [][\A v \in Verifications : Step(v)]_<<level, standing, torn>>
=============================================================================
