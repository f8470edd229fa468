---------------------------- MODULE OneShotQueue ----------------------------
(***************************************************************************)
(* What the provisioning job queue promises, with the database, the        *)
(* replicas and the failures left out: a job draws a ticket, joins the     *)
(* queue, is worked on at most once and is then finished for good; the job *)
(* with the lowest ticket is taken up first, unless its withdrawal is      *)
(* under way; and while nothing has relaxed the queue, one job at a time   *)
(* is worked on.                                                           *)
(***************************************************************************)
EXTENDS Naturals

CONSTANT Jobs

VARIABLES
    phase,          \* phase[j]: how far job j has come
    ticket,         \* ticket[j]: the place of j in the order of service
    tickets,        \* the number of tickets drawn so far
    withdrawing,    \* the jobs of which a withdrawal is under way
    relaxed         \* TRUE once the one-at-a-time promise has been given up

vars == <<phase, ticket, tickets, withdrawing, relaxed>>

Init ==
    /\ phase = [j \in Jobs |-> "absent"]
    /\ ticket = [j \in Jobs |-> 0]
    /\ tickets = 0
    /\ withdrawing = {}
    /\ relaxed = FALSE

Move(j, from, to) ==
    /\ phase[j] = from
    /\ phase' = [phase EXCEPT ![j] = to]

Draw(j) ==
    /\ phase[j] = "absent"
    /\ ticket[j] = 0
    /\ tickets' = tickets + 1
    /\ ticket' = [ticket EXCEPT ![j] = tickets + 1]
    /\ UNCHANGED <<phase, withdrawing, relaxed>>

Submit(j) ==
    /\ ticket[j] > 0
    /\ Move(j, "absent", "waiting")
    /\ UNCHANGED <<ticket, tickets, withdrawing, relaxed>>

\* Take up the job with the lowest ticket of those nobody is withdrawing,
\* alone unless the queue is relaxed.
Begin(j) ==
    /\ Move(j, "waiting", "working")
    /\ \A i \in Jobs \ withdrawing : phase[i] = "waiting" => ticket[j] <= ticket[i]
    /\ relaxed \/ \A i \in Jobs : phase[i] # "working"
    /\ UNCHANGED <<ticket, tickets, withdrawing, relaxed>>

Finish(j) ==
    /\ Move(j, "working", "finished")
    /\ UNCHANGED <<ticket, tickets, withdrawing, relaxed>>

\* A waiting job is given up without having been worked on.
Drop(j) ==
    /\ Move(j, "waiting", "finished")
    /\ withdrawing' \in {withdrawing, withdrawing \ {j}}
    /\ UNCHANGED <<ticket, tickets, relaxed>>

Withdraw(j) ==
    /\ phase[j] = "waiting"
    /\ withdrawing' = withdrawing \cup {j}
    /\ UNCHANGED <<phase, ticket, tickets, relaxed>>

\* A withdrawal is given up, or comes too late; that may relax the queue.
Relent(j) ==
    /\ withdrawing' = withdrawing \ {j}
    /\ relaxed' \in {relaxed, TRUE}
    /\ UNCHANGED <<phase, ticket, tickets>>

Relax ==
    /\ relaxed' = TRUE
    /\ UNCHANGED <<phase, ticket, tickets, withdrawing>>

Next ==
    \/ \E j \in Jobs : \/ Draw(j) \/ Submit(j) \/ Begin(j) \/ Finish(j)
                       \/ Drop(j) \/ Withdraw(j) \/ Relent(j)
    \/ Relax

Spec == Init /\ [][Next]_vars
=============================================================================
