------------------------------ MODULE Debounce ------------------------------
(***************************************************************************)
(* What presence tracking promises, without entries, leases, misses of     *)
(* offline devices, pruning or rate limits: a device is online while fewer *)
(* than Thr completed scans have passed since it last answered one, and    *)
(* each change of that is announced exactly once, unless the scan that     *)
(* finds it does not complete (it ends with its process or stays unsaved)  *)
(* or comes in a hasty time, when an announcement may be left out.         *)
(***************************************************************************)
EXTENDS Integers

CONSTANTS
    Mac,
    Thr         \* scans without an answer after which a device is offline, at least 1

VARIABLES
    running,    \* a process is up that counts
    count,      \* count[m]: scans since m answered one, Thr for "Thr or more"
    saved,      \* the count that a restart finds
    arrived,    \* MACs announced as online by the last step
    departed,   \* MACs announced as offline by the last step
    hasty       \* scans come, or came a moment ago, too fast

vars == <<running, count, saved, arrived, departed, hasty>>

AllGone == [m \in Mac |-> Thr]

Counted(S) ==
    [m \in Mac |-> IF m \in S THEN 0 ELSE IF count[m] < Thr THEN count[m] + 1 ELSE Thr]

Silent == arrived' = {} /\ departed' = {}

Back(S) == {m \in S : count[m] = Thr}
Lost(S) == {m \in Mac \ S : count[m] = Thr - 1}

Init == /\ ~running /\ hasty \in BOOLEAN
        /\ count = AllGone /\ saved = AllGone /\ arrived = {} /\ departed = {}

\* The devices in S answer a scan that completes.
Observe(S) ==
    /\ running /\ running'
    /\ count' = Counted(S)
    /\ saved' = Counted(S)
    /\ arrived' \subseteq Back(S) /\ departed' \subseteq Lost(S)
    /\ ~hasty' => arrived' = Back(S) /\ departed' = Lost(S)

\* ... a scan whose result is known only to the running process,
ObserveUnsaved(S) == running /\ running' /\ count' = Counted(S) /\ saved' = saved /\ Silent

\* ... or, as the process ends with it, only to the next one.
ObserveUnheard(S) == running /\ ~running' /\ count' = AllGone /\ saved' = Counted(S) /\ Silent

\* A process starts, forgets or ends, loses its file while it is down, waits.
Recall == ~running /\ running' /\ count' = saved /\ saved' = saved /\ UNCHANGED <<arrived, departed>>
Forget == running /\ running' \in BOOLEAN /\ count' = AllGone /\ saved' = saved /\ Silent
Erase  == ~running /\ ~running' /\ count' = count /\ saved' = AllGone /\ UNCHANGED <<arrived, departed>>
Quiet  == running' = running /\ count' = count /\ saved' = saved /\ Silent

Next == /\ hasty' \in BOOLEAN
        /\ \/ \E S \in SUBSET Mac : Observe(S) \/ ObserveUnsaved(S) \/ ObserveUnheard(S)
           \/ Recall \/ Forget \/ Erase \/ Quiet

Spec == Init /\ [][Next]_vars
=============================================================================
