------------------------------ MODULE RowStore ------------------------------
(***************************************************************************)
(* What the wallets and the attestors may rely on from the storage API: a  *)
(* call takes effect at one instant between its start and its return, or   *)
(* not at all, and the answer is true of that instant.  A call that is     *)
(* given up may still take effect later, once.                             *)
(***************************************************************************)
EXTENDS Naturals

CONSTANTS
    Callers,  \* tasks that call the storage API, one call at a time each
    Rows,     \* (public key, uuid) or (public key, event id) pairs
    Values,   \* what a row may hold: a state with its content
    Absent    \* no row

VARIABLES
    rows,     \* the two tables
    begun,    \* calls begun so far
    call,     \* the call each caller has in progress, or its last answer
    late      \* writes that were given up and may still take effect

\* A read selects rows by id or by state, or all of one key.
Reads == [kind : {"read"}, among : SUBSET Rows, holding : SUBSET Values]
Writes == [kind : {"create", "update"}, row : Rows, value : Values]
             \cup [kind : {"delete"}, row : Rows]
Operations == Reads \cup Writes

Found == SUBSET [row : Rows, value : Values]
Answers == [ok : BOOLEAN, found : Found]
Failed == [ok |-> FALSE, found |-> {}]

NoOperation == [kind |-> "none"]

\* No call in progress; answer is what the last one returned.
Returned(answer) ==
    [step |-> "idle", n |-> 0, op |-> NoOperation, answer |-> answer]

Succeeds(op) ==
    op.kind = "read" \/ (rows[op.row] = Absent <=> op.kind = "create")

\* A write that fails leaves the rows alone.
Perform(op) ==
    rows' = IF op.kind = "read" \/ ~Succeeds(op) THEN rows
            ELSE [rows EXCEPT ![op.row] = IF op.kind = "delete" THEN Absent
                                          ELSE op.value]

AnswerTo(op) ==
    [ok    |-> Succeeds(op),
     found |-> IF op.kind # "read" THEN {}
               ELSE {[row |-> r, value |-> rows[r]] :
                       r \in {q \in op.among : rows[q] \in op.holding}}]

Init ==
    /\ rows = [r \in Rows |-> Absent]
    /\ begun = 0
    /\ call = [c \in Callers |-> Returned(Failed)]
    /\ late = {}

Begin(c) ==
    /\ call[c].step = "idle"
    /\ \E op \in Operations :
          call' = [call EXCEPT ![c] = [step |-> "called", n |-> begun,
                                       op |-> op, answer |-> Failed]]
    /\ begun' = begun + 1
    /\ UNCHANGED <<rows, late>>

TakeEffect(c) ==
    /\ call[c].step = "called"
    /\ Perform(call[c].op)
    /\ call' = [call EXCEPT ![c] = Returned(AnswerTo(call[c].op))]
    /\ UNCHANGED <<begun, late>>

\* Only a write can be refused; a read is always answered truly.
Refuse(c) ==
    /\ call[c].step = "called" /\ call[c].op \in Writes
    /\ call' = [call EXCEPT ![c] = Returned(Failed)]
    /\ UNCHANGED <<rows, begun, late>>

\* The caller takes the call for failed, though it may have succeeded; a
\* write that has had no effect yet may still have one.
GiveUp(c) ==
    /\ call' = [call EXCEPT ![c] = Returned(Failed)]
    /\ \/ UNCHANGED late
       \/ /\ call[c].step = "called" /\ call[c].op \in Writes
          /\ late' = late \cup {[caller |-> c, n |-> call[c].n,
                                 op |-> call[c].op]}
    /\ UNCHANGED <<rows, begun>>

LandLate(w) ==
    /\ late' = late \ {w}
    /\ Perform(w.op)
    /\ UNCHANGED <<begun, call>>

DropLate ==
    /\ late' \in SUBSET late
    /\ UNCHANGED <<rows, begun, call>>

Next ==
    \/ \E c \in Callers : Begin(c) \/ TakeEffect(c) \/ Refuse(c) \/ GiveUp(c)
    \/ \E w \in late : LandLate(w)
    \/ DropLate

Spec == Init /\ [][Next]_<<rows, begun, call, late>>
=============================================================================
