----------------------------- MODULE Lifecycle ------------------------------
(***************************************************************************)
(* What the manager promises about a SelfNodeRemediation, seen from the    *)
(* API server alone: the life of the SNRs of one node, each from its       *)
(* creation by NHC to its disappearance.  Remediation shows how a manager  *)
(* that reads lagging caches, fails and restarts keeps the promise, and    *)
(* Fencing what an agent makes of it.                                      *)
(***************************************************************************)
EXTENDS Integers

CONSTANTS
    RebootDuration,  \* how far ahead the reboot deadline may be set, in ticks
    NoSNR            \* there is no SNR

VARIABLES
    snr,      \* the SNR, or NoSNR
    created,  \* how many SNRs there have been
    clock

lifecycleVars == <<snr, created, clock>>

\* A nil *metav1.Time.
NoTime == -1

New(uid) ==
    [uid |-> uid, phase |-> "Fencing-Started", timeAssumedRebooted |-> NoTime,
     deleting |-> FALSE, timedOut |-> FALSE]

Start == snr = NoSNR /\ created = 0 /\ clock = 0

\* NHC creates an SNR, with a new identity,
Create ==
    /\ snr = NoSNR
    /\ snr' = New(created + 1) /\ created' = created + 1
    /\ UNCHANGED clock

\* deletes it, which ends it at once only in its first phase,
Delete ==
    /\ snr # NoSNR /\ ~snr.deleting
    /\ \/ snr' = [snr EXCEPT !.deleting = TRUE]
       \/ snr.phase = "Fencing-Started" /\ snr' = NoSNR
    /\ UNCHANGED <<created, clock>>

\* or gives up on it.
TimeOut ==
    /\ snr # NoSNR /\ ~snr.deleting /\ ~snr.timedOut
    /\ snr' = [snr EXCEPT !.timedOut = TRUE]
    /\ UNCHANGED <<created, clock>>

\* The manager moves an SNR that NHC has not given up to its next phase.
Advance(from, to, deadline) ==
    /\ snr # NoSNR /\ snr.phase = from /\ ~snr.timedOut
    /\ snr' = [snr EXCEPT !.phase = to, !.timeAssumedRebooted = deadline]
    /\ UNCHANGED <<created, clock>>

\* The node gets a deadline to reboot,
PreRebootCompleted(deadline) ==
    /\ deadline <= clock + RebootDuration
    /\ Advance("Fencing-Started", "Pre-Reboot-Completed", deadline)

\* which has passed when the node counts as rebooted,
RebootCompleted ==
    /\ snr # NoSNR /\ snr.timeAssumedRebooted <= clock
    /\ Advance("Pre-Reboot-Completed", "Reboot-Completed", snr.timeAssumedRebooted)

\* and its workload is released.
FencingCompleted ==
    /\ snr # NoSNR
    /\ Advance("Reboot-Completed", "Fencing-Completed", snr.timeAssumedRebooted)

\* A deleted SNR is let go when the node is fenced, or when NHC has given up.
Release ==
    /\ snr # NoSNR /\ snr.deleting /\ (snr.timedOut \/ snr.phase = "Fencing-Completed")
    /\ snr' = NoSNR
    /\ UNCHANGED <<created, clock>>

Pass == clock' = clock + 1 /\ UNCHANGED <<snr, created>>

Live ==
    \/ Create \/ Delete \/ TimeOut
    \/ \E deadline \in 0 .. clock + RebootDuration : PreRebootCompleted(deadline)
    \/ RebootCompleted \/ FencingCompleted \/ Release
    \/ Pass

Promise == Start /\ [][Live]_lifecycleVars
=============================================================================
