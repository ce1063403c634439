--------------------------------- MODULE Tasks ---------------------------------
(***************************************************************************)
(* The completion of tasks (services/tasks.py): the board column and       *)
(* completed_at, which two handlers write under the writer lock, and the   *)
(* three events that tell of it.  The ledger is kept as the result of      *)
(* folding its events.                                                     *)
(***************************************************************************)
EXTENDS Integers, SequencesExt

CONSTANT Tasks

Statuses == {"backlog", "doing", "done"}

VARIABLES
    status,           \* the column of each task
    finished,         \* the tasks with a completed_at, newest first
    told              \* what the events say of each task

tasksVars == <<status, finished, told>>

TasksInit ==
    /\ status = [t \in Tasks |-> "backlog"]
    /\ finished = <<>>
    /\ told = [t \in Tasks |-> [status |-> "backlog", completed |-> FALSE, sound |-> TRUE]]

(* The three events.  A sound ledger completes what is open, reopens what   *)
(* is completed, and moves a card from the column it was in.                *)
StatusChanged(h, from, to) ==
    [status |-> to, completed |-> h.completed, sound |-> h.sound /\ h.status = from]

TaskCompleted(h) ==
    [status |-> "done", completed |-> TRUE, sound |-> h.sound /\ ~h.completed]

TaskReopened(h) ==
    [status |-> IF h.status = "done" THEN "backlog" ELSE h.status,
     completed |-> FALSE, sound |-> h.sound /\ h.completed]

Completed(t) == Contains(finished, t)

ToggleComplete(t) ==
    IF Completed(t)
    THEN /\ finished' = RemoveFirst(finished, t)
         /\ status' = [status EXCEPT ![t] = "backlog"]
         /\ told' = [told EXCEPT ![t] = TaskReopened(@)]
    ELSE /\ finished' = Cons(t, finished)
         /\ status' = [status EXCEPT ![t] = "done"]
         /\ told' = [told EXCEPT ![t] = TaskCompleted(@)]

(* The events of a move to column s.                                        *)
Moved(h, t, s) ==
    IF status[t] = s THEN h ELSE StatusChanged(h, status[t], s)

SetStatus(t, s) ==
    LET h == Moved(told[t], t, s)
    IN  /\ status' = [status EXCEPT ![t] = s]
        /\ finished' = CASE s = "done" /\ ~Completed(t) -> Cons(t, finished)
                         [] s # "done" /\ Completed(t) -> RemoveFirst(finished, t)
                         [] OTHER -> finished
        /\ told' = [told EXCEPT ![t] =
              CASE s = "done" /\ ~Completed(t) -> TaskCompleted(h)
                [] s # "done" /\ Completed(t) -> TaskReopened(h)
                [] OTHER -> h]

-----------------------------------------------------------------------------
(* Properties.                                                              *)

(* Column, completion and ledger agree: Done is the mirror of completed_at, *)
(* whether checkbox or board wrote it, and the events add up to the table,  *)
(* nobody completing a task twice or moving a card from where it was not.   *)
LedgerTells ==
    \A t \in Tasks :
        /\ status[t] = "done" <=> Completed(t)
        /\ told[t] = [status |-> status[t], completed |-> Completed(t), sound |-> TRUE]
===============================================================================
