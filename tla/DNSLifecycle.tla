---------------------------- MODULE DNSLifecycle ----------------------------
(***************************************************************************)
(* What DNSControllerFinalizer promises ("applied to a DNS before being    *)
(* considered for processing; this ensures the operator has a chance to    *)
(* handle all states"): nothing is installed for a DNS without the         *)
(* finalizer, and the finalizer goes only from a DNS that somebody has     *)
(* deleted and for which nothing is installed any more.                    *)
(***************************************************************************)
EXTENDS Naturals

CONSTANT Operands  \* what the operator removes itself before it lets go

VARIABLES
    uid,       \* which incarnation of the DNS this is
    phase,     \* without and with the finalizer, deleted but held, or absent
    installed  \* the operands there are

Init == uid = 0 /\ phase = "absent" /\ installed = {}

Create ==
    /\ phase = "absent" /\ phase' = "bare"
    /\ uid' = uid + 1
    /\ UNCHANGED installed

Hold ==
    /\ phase = "bare" /\ phase' = "held"
    /\ UNCHANGED <<uid, installed>>

\* Somebody deletes the DNS, at any time.
Delete ==
    /\ \/ phase = "bare" /\ phase' = "absent"
       \/ phase = "held" /\ phase' = "leaving"
    /\ UNCHANGED <<uid, installed>>

\* A pass that began before the deletion still installs.
Install(k) ==
    /\ phase \in {"held", "leaving"}
    /\ installed' = installed \cup {k}
    /\ UNCHANGED <<uid, phase>>

\* Operands go at any time, whoever deletes them.
Uninstall ==
    /\ installed' \in SUBSET installed
    /\ UNCHANGED <<uid, phase>>

Release ==
    /\ phase = "leaving" /\ installed = {} /\ phase' = "absent"
    /\ UNCHANGED <<uid, installed>>

Next ==
    \/ Create \/ Hold \/ Delete
    \/ \E k \in Operands : Install(k)
    \/ Uninstall \/ Release

Spec == Init /\ [][Next]_<<uid, phase, installed>>
=============================================================================
