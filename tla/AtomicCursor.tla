---------------------------- MODULE AtomicCursor ----------------------------
(***************************************************************************)
(* What SaveCursor promises (cursor.go:83, "persists cursor state to path  *)
(* atomically"): the cursor is a register.  A save replaces its value as a *)
(* whole, a load answers with the value of one moment, and only a cursor   *)
(* that was never saved is a cold start.  A save or a load that fails, or  *)
(* a process that dies, changes nothing.  Watcher uses the cursor file as  *)
(* this register.                                                          *)
(***************************************************************************)
CONSTANTS
    Pollers,      \* who loads and saves
    Values,       \* the cursors that are saved
    ColdStart     \* the answer when there is no cursor

VARIABLES
    value,        \* the cursor, or ColdStart
    answer        \* what each poller's last load returned

Init ==
    /\ value = ColdStart
    /\ answer = [w \in Pollers |-> ColdStart]

Save(v) ==
    /\ value' = v
    /\ UNCHANGED answer

Load(w) ==
    /\ answer' = [answer EXCEPT ![w] = value]
    /\ UNCHANGED value

\* The processes are gone, and what they had loaded with them.
Forget ==
    /\ answer' = [w \in Pollers |-> ColdStart]
    /\ UNCHANGED value

Next ==
    \/ \E v \in Values : Save(v)
    \/ \E w \in Pollers : Load(w)
    \/ Forget

Spec == Init /\ [][Next]_<<value, answer>>
=============================================================================
