----------------------------- MODULE MCMeetings -----------------------------
(* Small instances of Meetings.  Deliveries and requests are                *)
(* interchangeable, and so are the rows, which are created in any order.    *)
EXTENDS Meetings, TLC

Symmetry == Permutations(Deliveries) \cup Permutations(Requests) \cup Permutations(Rows)

\* One account is a customer, the other a partner or not there yet.
MCInit == Init /\ account[1] = "account" /\ account[2] # "account"

MCSpec == MCInit /\ [][Next]_vars
=============================================================================
