---------------------------- MODULE OrderPromise ----------------------------
(***************************************************************************)
(* What the persistent ledger promises the rest of the system about orders *)
(* identified by their content: a key is sent at most once at a time; once *)
(* remembered it is remembered for good and never sent again; only a key   *)
(* that was sent and not yet remembered can be forgotten.                  *)
(***************************************************************************)
VARIABLES
    sent,        \* keys of orders sent and not yet remembered
    remembered   \* keys no process will ever send again

Init == sent = {} /\ remembered = {}

Send(k) ==
    /\ k \notin sent \cup remembered
    /\ sent' = sent \cup {k}
    /\ UNCHANGED remembered

Remember(k) ==
    /\ k \in sent
    /\ sent' = sent \ {k}
    /\ remembered' = remembered \cup {k}

Forget(k) ==
    /\ k \in sent
    /\ sent' = sent \ {k}
    /\ UNCHANGED remembered

\* The keys are whatever the program makes them; a sent key is one of sent'.
Next ==
    \/ \E k \in sent' : Send(k)
    \/ \E k \in sent : Remember(k) \/ Forget(k)

Spec == Init /\ [][Next]_<<sent, remembered>>
=============================================================================
