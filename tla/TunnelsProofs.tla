---------------------------- MODULE TunnelsProofs ----------------------------
(***************************************************************************)
(* Proofs about Tunnels, for any number of calls, resources and ports.     *)
(* The inductive invariant says how far a record has come that nobody has  *)
(* stopped under its open(), that a key on which no calls overlap has one  *)
(* record alive and lists it, and that records which may hold a local port *)
(* hold different ones.                                                    *)
(***************************************************************************)
EXTENDS Tunnels, TLAPS

IsOpen(c) == status[c] \in {"opening", "running"}

\* What holds of every record, cut or not.
Records ==
    \A c \in Calls :
        /\ step[c] \in {"idle", "public", "local"} => status[c] = "none" /\ c
               \notin cut
        /\ step[c] \notin {"idle", "public", "local", "failed"} => status[c] #
               "none"
        /\ step[c] # "idle" => key[c] \in Keys
        /\ step[c] = "local" => loc[c] \in LocalPorts
        /\ Listed(c) => status[c] # "none"
        /\ status[c] = "none" => proxy[c] = "new" /\ child[c] = "none"
        /\ status[c] = "opening" => UnderWay(c) /\ proxy[c] = "new"
        /\ status[c] = "running" <=> proxy[c] = "listening"
        /\ proxy[c] = "draining" => status[c] = "closed"

\* How far a record has come that was not cut.
Progress ==
    \A c \in Calls \ cut :
        /\ step[c] = "forwarding" => status[c] = "opening" /\ child[c] = "none"
        /\ step[c] \in {"waiting", "listening"} =>
                status[c] = "opening" /\ child[c] \in {"starting", "up"}
        /\ step[c] = "returned" =>
                \/ status[c] = "running"
                \/ status[c] = "closed" /\ proxy[c] = "draining"
                \/ status[c] = "closed" /\ child[c] \notin {"starting", "up"}
        /\ step[c] = "failed" =>
                status[c] \in {"none", "closed"} /\ child[c] \notin {"starting",
                       "up"}

\* A key on which no calls have overlapped has one record alive ...
OneAlive ==
    \A c, d \in Calls :
        Alive(c) /\ Alive(d) /\ key[c] = key[d] /\ key[c] \notin crossed => c = d

\* ... and lists it.
OpenIsListed ==
    \A c \in Calls \ cut :
        IsOpen(c) /\ key[c] \notin crossed => tunnels[key[c]] = c

\* A record that holds its local port or may come to hold it.
Claims(c) == IsOpen(c) \/ HoldsPort(c)

\* Nobody shares a local port, so that whoever answers on it is the record's own
\* forward.
OwnPorts ==
    crossed = {} /\ overtaken = {} /\ cut = {} =>
        /\ \A c, d \in Calls : Claims(c) /\ Claims(d) /\ loc[c] = loc[d] => c = d
        /\ \A c, d \in Calls : step[c] = "local" /\ IsOpen(d) => loc[d] # loc[c]
        /\ \A c \in Calls :
            /\ child[c] = "starting" => status[c] = "opening"
            /\ step[c] = "listening" \/ status[c] = "running" => child[c] = "up"

\* A record is handed out for its own hostname only.
Borrowed ==
    \A c \in Calls :
        /\ step[c] = "idle" => lent[c] = {}
        /\ \A t \in lent[c] : Host[t] = Host[target[c]]

IInv ==
    /\ TypeOK
    /\ Borrowed
    /\ ExpiresEvenIfUnlisted
    /\ Records
    /\ Progress
    /\ OneAlive
    /\ OpenIsListed
    /\ OwnPorts
-----------------------------------------------------------------------------
(* The steps. *)

\* What stop() leaves behind.
LEMMA StopTypes ==
    ASSUME TypeOK, NEW c \in Calls, key[c] \in Keys,
           NEW children \in [Calls -> ChildStates], Stop(c, children)
    PROVE  /\ status' = [status EXCEPT ![c] = "closed"]
           /\ timer' = [timer EXCEPT ![c] = FALSE]
           /\ \E s \in ProxyStates : proxy' = [proxy EXCEPT ![c] = s]
           /\ child' \in [Calls -> ChildStates]
           /\ tunnels' \in [Keys -> Calls \cup {None}]
<1> USE DEF TypeOK
<1>1. CASE status[c] = "closed"
    <2>1. child' = children /\ UNCHANGED <<status, timer, proxy, tunnels>>
        BY <1>1 DEF Stop
    <2>2. ~timer[c] /\ status = [status EXCEPT ![c] = "closed"]
        BY <1>1
    <2> QED
        BY <2>1, <2>2, proxy[c] \in ProxyStates
<1>2. CASE status[c] # "closed" /\ UNCHANGED tunnels
    BY <1>2 DEF Stop, ClearTimer, Finish, Unlist, Terminated, ProxyStates,
           ChildStates
<1>3. CASE status[c] # "closed" /\ Finish(c, children)
    BY <1>3 DEF Stop, ClearTimer, Finish, Unlist, Terminated, ProxyStates,
           ChildStates
<1> QED
    BY <1>1, <1>2, <1>3 DEF Stop

\* Every step keeps the types (stop() clears the timer with the proxy).
LEMMA TypeStep ==
    ASSUME TypeOK, Records, [Next]_vars
    PROVE  TypeOK'
<1> USE CallsAssumption, HostsAssumption, NoneAssumption
    DEF called, races, Records, Listed, UnderWay, TypeOK, Steps, ChildStates, ProxyStates
<1>1. ASSUME NEW k \in Keys, Close(k) PROVE TypeOK'
    <2>1. PICK c \in Calls : tunnels[k] = c /\ Stop(c, child) /\ CutShort(c)
        BY <1>1 DEF Close
    <2>2. UNCHANGED <<step, called, pub, loc, races>>
        BY <1>1 DEF Close
    <2>3. key[c] \in Keys
        BY <2>1
    <2>4. /\ status' = [status EXCEPT ![c] = "closed"]
          /\ timer' = [timer EXCEPT ![c] = FALSE]
          /\ \E s \in ProxyStates : proxy' = [proxy EXCEPT ![c] = s]
          /\ child' \in [Calls -> ChildStates]
          /\ tunnels' \in [Keys -> Calls \cup {None}]
        BY <2>1, <2>3, StopTypes
    <2> QED
        BY <2>1, <2>2, <2>4 DEF CutShort
<1>2. ASSUME NEW c \in Calls, NEW t \in Targets, Open(c, t) PROVE TypeOK'
    BY <1>2 DEF Open, GoTo
<1>3. ASSUME NEW c \in Calls, SelectPublicPort(c) PROVE TypeOK'
    BY <1>3 DEF SelectPublicPort, GoTo
<1>4. ASSUME NEW c \in Calls, SelectLocalPort(c) PROVE TypeOK'
    BY <1>4 DEF SelectLocalPort, GoTo
<1>5. ASSUME NEW c \in Calls, NoPort(c) PROVE TypeOK'
    BY <1>5 DEF NoPort, GoTo
<1>6. ASSUME NEW c \in Calls, Forward(c) PROVE TypeOK'
    BY <1>6 DEF Forward, GoTo
<1>7. ASSUME NEW c \in Calls, LocalAnswers(c) PROVE TypeOK'
    BY <1>7 DEF LocalAnswers, GoTo
<1>8. ASSUME NEW c \in Calls, Listen(c) PROVE TypeOK'
    BY <1>8 DEF Listen, SetsTimer, GoTo
<1>9. ASSUME NEW c \in Calls, OpenFails(c) PROVE TypeOK'
    <2>1. key[c] \in Keys /\ Stop(c, child)
        BY <1>9 DEF OpenFails
    <2>2. /\ status' = [status EXCEPT ![c] = "closed"]
          /\ timer' = [timer EXCEPT ![c] = FALSE]
          /\ \E s \in ProxyStates : proxy' = [proxy EXCEPT ![c] = s]
          /\ child' \in [Calls -> ChildStates]
          /\ tunnels' \in [Keys -> Calls \cup {None}]
        BY <2>1, StopTypes
    <2> QED
        BY <1>9, <2>2 DEF OpenFails, GoTo
<1>10. ASSUME NEW c \in Calls, TtlExpires(c) PROVE TypeOK'
    <2>1. key[c] \in Keys /\ Stop(c, child)
        BY <1>10 DEF TtlExpires
    <2>2. /\ status' = [status EXCEPT ![c] = "closed"]
          /\ timer' = [timer EXCEPT ![c] = FALSE]
          /\ \E s \in ProxyStates : proxy' = [proxy EXCEPT ![c] = s]
          /\ child' \in [Calls -> ChildStates]
          /\ tunnels' \in [Keys -> Calls \cup {None}]
        BY <2>1, StopTypes
    <2> QED
        BY <1>10, <2>2 DEF TtlExpires
<1>11. ASSUME NEW c \in Calls, Drained(c) PROVE TypeOK'
    BY <1>11 DEF Drained, Finish, Unlist, Terminated
<1>12. ASSUME NEW c \in Calls, Bind(c) PROVE TypeOK'
    BY <1>12 DEF Bind
<1>13. ASSUME NEW c \in Calls, ChildExits(c) PROVE TypeOK'
    <2>1. key[c] \in Keys /\ Stop(c, [child EXCEPT ![c] = "gone"])
        BY <1>13 DEF ChildExits
    <2>2. /\ status' = [status EXCEPT ![c] = "closed"]
          /\ timer' = [timer EXCEPT ![c] = FALSE]
          /\ \E s \in ProxyStates : proxy' = [proxy EXCEPT ![c] = s]
          /\ child' \in [Calls -> ChildStates]
          /\ tunnels' \in [Keys -> Calls \cup {None}]
        BY <2>1, StopTypes
    <2> QED
        BY <1>13, <2>2 DEF ChildExits, CutShort
<1>14. ASSUME NEW c \in Calls, ChildEnds(c) PROVE TypeOK'
    BY <1>14 DEF ChildEnds
<1>15. CASE UNCHANGED vars
    BY <1>15 DEF vars
<1>16. ASSUME NEW t \in Targets, OpenExisting(t) PROVE TypeOK'
    BY <1>16 DEF OpenExisting
<1>17. ASSUME NEW c \in Calls, NextPublicPort(c) PROVE TypeOK'
    BY <1>17 DEF NextPublicPort
<1>18. ASSUME NEW c \in Calls, NextLocalPort(c) PROVE TypeOK'
    BY <1>18 DEF NextLocalPort
<1> QED
    BY <1>1, <1>2, <1>3, <1>4, <1>5, <1>6, <1>7, <1>8, <1>9, <1>10, <1>11, <1>12,
       <1>13, <1>14, <1>15, <1>16, <1>17, <1>18
    DEF Next

\* The timer is set with the proxy and cleared with it.
LEMMA TimerStep ==
    ASSUME TypeOK, ExpiresEvenIfUnlisted, [Next]_vars
    PROVE  ExpiresEvenIfUnlisted'
<1> USE CallsAssumption, HostsAssumption, NoneAssumption
    DEF called, races, ExpiresEvenIfUnlisted, TypeOK, Steps, ChildStates, ProxyStates
<1>1. ASSUME NEW k \in Keys, Close(k) PROVE ExpiresEvenIfUnlisted'
    <2>1. PICK c \in Calls : tunnels[k] = c /\ Stop(c, child) /\ CutShort(c)
        BY <1>1 DEF Close
    <2>2. UNCHANGED <<step, called, pub, loc, races>>
        BY <1>1 DEF Close
    <2> QED
        BY <2>1, <2>2 DEF Stop, CutShort, ClearTimer, Finish, Unlist, Terminated
<1>2. ASSUME NEW c \in Calls, NEW t \in Targets, Open(c, t) PROVE ExpiresEvenIfUnlisted'
    BY <1>2 DEF Open, GoTo
<1>3. ASSUME NEW c \in Calls, SelectPublicPort(c) PROVE ExpiresEvenIfUnlisted'
    BY <1>3 DEF SelectPublicPort, GoTo
<1>4. ASSUME NEW c \in Calls, SelectLocalPort(c) PROVE ExpiresEvenIfUnlisted'
    BY <1>4 DEF SelectLocalPort, GoTo
<1>5. ASSUME NEW c \in Calls, NoPort(c) PROVE ExpiresEvenIfUnlisted'
    BY <1>5 DEF NoPort, GoTo
<1>6. ASSUME NEW c \in Calls, Forward(c) PROVE ExpiresEvenIfUnlisted'
    BY <1>6 DEF Forward, GoTo
<1>7. ASSUME NEW c \in Calls, LocalAnswers(c) PROVE ExpiresEvenIfUnlisted'
    BY <1>7 DEF LocalAnswers, GoTo
<1>8. ASSUME NEW c \in Calls, Listen(c) PROVE ExpiresEvenIfUnlisted'
    BY <1>8 DEF Listen, SetsTimer, GoTo
<1>9. ASSUME NEW c \in Calls, OpenFails(c) PROVE ExpiresEvenIfUnlisted'
    BY <1>9 DEF OpenFails, GoTo, Stop, CutShort, ClearTimer, Finish, Unlist,
           Terminated
<1>10. ASSUME NEW c \in Calls, TtlExpires(c) PROVE ExpiresEvenIfUnlisted'
    BY <1>10 DEF TtlExpires, Stop, CutShort, ClearTimer, Finish, Unlist, Terminated
<1>11. ASSUME NEW c \in Calls, Drained(c) PROVE ExpiresEvenIfUnlisted'
    BY <1>11 DEF Drained, Finish, Unlist, Terminated
<1>12. ASSUME NEW c \in Calls, Bind(c) PROVE ExpiresEvenIfUnlisted'
    BY <1>12 DEF Bind
<1>13. ASSUME NEW c \in Calls, ChildExits(c) PROVE ExpiresEvenIfUnlisted'
    BY <1>13 DEF ChildExits, Stop, CutShort, ClearTimer, Finish, Unlist, Terminated
<1>14. ASSUME NEW c \in Calls, ChildEnds(c) PROVE ExpiresEvenIfUnlisted'
    BY <1>14 DEF ChildEnds
<1>15. CASE UNCHANGED vars
    BY <1>15 DEF vars
<1>16. ASSUME NEW t \in Targets, OpenExisting(t) PROVE ExpiresEvenIfUnlisted'
    BY <1>16 DEF OpenExisting
<1>17. ASSUME NEW c \in Calls, NextPublicPort(c) PROVE ExpiresEvenIfUnlisted'
    BY <1>17 DEF NextPublicPort
<1>18. ASSUME NEW c \in Calls, NextLocalPort(c) PROVE ExpiresEvenIfUnlisted'
    BY <1>18 DEF NextLocalPort
<1> QED
    BY <1>1, <1>2, <1>3, <1>4, <1>5, <1>6, <1>7, <1>8, <1>9, <1>10, <1>11, <1>12,
       <1>13, <1>14, <1>15, <1>16, <1>17, <1>18
    DEF Next

\* What holds of every record stays.
LEMMA RecordsStep ==
    ASSUME TypeOK, Records, [Next]_vars
    PROVE  Records'
<1> USE CallsAssumption, HostsAssumption, NoneAssumption
    DEF called, races, Records, Listed, UnderWay, TypeOK, Steps, ChildStates, ProxyStates
<1>1. ASSUME NEW k \in Keys, Close(k) PROVE Records'
    <2>1. PICK c \in Calls : tunnels[k] = c /\ Stop(c, child) /\ CutShort(c)
        BY <1>1 DEF Close
    <2>2. UNCHANGED <<step, called, pub, loc, races>>
        BY <1>1 DEF Close
    <2> QED
        BY <2>1, <2>2 DEF Stop, CutShort, ClearTimer, Finish, Unlist, Terminated
<1>2. ASSUME NEW c \in Calls, NEW t \in Targets, Open(c, t) PROVE Records'
    BY <1>2 DEF Open, GoTo
<1>3. ASSUME NEW c \in Calls, SelectPublicPort(c) PROVE Records'
    BY <1>3 DEF SelectPublicPort, GoTo
<1>4. ASSUME NEW c \in Calls, SelectLocalPort(c) PROVE Records'
    BY <1>4 DEF SelectLocalPort, GoTo
<1>5. ASSUME NEW c \in Calls, NoPort(c) PROVE Records'
    BY <1>5 DEF NoPort, GoTo
<1>6. ASSUME NEW c \in Calls, Forward(c) PROVE Records'
    BY <1>6 DEF Forward, GoTo
<1>7. ASSUME NEW c \in Calls, LocalAnswers(c) PROVE Records'
    BY <1>7 DEF LocalAnswers, GoTo
<1>8. ASSUME NEW c \in Calls, Listen(c) PROVE Records'
    BY <1>8 DEF Listen, SetsTimer, GoTo
<1>9. ASSUME NEW c \in Calls, OpenFails(c) PROVE Records'
    BY <1>9 DEF OpenFails, GoTo, Stop, CutShort, ClearTimer, Finish, Unlist,
           Terminated
<1>10. ASSUME NEW c \in Calls, TtlExpires(c) PROVE Records'
    BY <1>10 DEF TtlExpires, Stop, CutShort, ClearTimer, Finish, Unlist, Terminated
<1>11. ASSUME NEW c \in Calls, Drained(c) PROVE Records'
    BY <1>11 DEF Drained, Finish, Unlist, Terminated
<1>12. ASSUME NEW c \in Calls, Bind(c) PROVE Records'
    BY <1>12 DEF Bind
<1>13. ASSUME NEW c \in Calls, ChildExits(c) PROVE Records'
    BY <1>13 DEF ChildExits, Stop, CutShort, ClearTimer, Finish, Unlist, Terminated
<1>14. ASSUME NEW c \in Calls, ChildEnds(c) PROVE Records'
    BY <1>14 DEF ChildEnds
<1>15. CASE UNCHANGED vars
    BY <1>15 DEF vars
<1>16. ASSUME NEW t \in Targets, OpenExisting(t) PROVE Records'
    BY <1>16 DEF OpenExisting
<1>17. ASSUME NEW c \in Calls, NextPublicPort(c) PROVE Records'
    BY <1>17 DEF NextPublicPort
<1>18. ASSUME NEW c \in Calls, NextLocalPort(c) PROVE Records'
    BY <1>18 DEF NextLocalPort
<1> QED
    BY <1>1, <1>2, <1>3, <1>4, <1>5, <1>6, <1>7, <1>8, <1>9, <1>10, <1>11, <1>12,
       <1>13, <1>14, <1>15, <1>16, <1>17, <1>18
    DEF Next

\* A record nobody cuts follows its open().
LEMMA ProgressStep ==
    ASSUME TypeOK, Records, Progress, [Next]_vars
    PROVE  Progress'
<1> USE CallsAssumption, HostsAssumption, NoneAssumption
    DEF called, races, Records, Listed, Progress, UnderWay, TypeOK, Steps, ChildStates,
        ProxyStates
<1>1. ASSUME NEW k \in Keys, Close(k) PROVE Progress'
    <2>1. PICK c \in Calls : tunnels[k] = c /\ Stop(c, child) /\ CutShort(c)
        BY <1>1 DEF Close
    <2>2. UNCHANGED <<step, called, pub, loc, races>>
        BY <1>1 DEF Close
    <2> QED
        BY <2>1, <2>2 DEF Stop, CutShort, ClearTimer, Finish, Unlist, Terminated
<1>2. ASSUME NEW c \in Calls, NEW t \in Targets, Open(c, t) PROVE Progress'
    BY <1>2 DEF Open, GoTo
<1>3. ASSUME NEW c \in Calls, SelectPublicPort(c) PROVE Progress'
    BY <1>3 DEF SelectPublicPort, GoTo
<1>4. ASSUME NEW c \in Calls, SelectLocalPort(c) PROVE Progress'
    BY <1>4 DEF SelectLocalPort, GoTo
<1>5. ASSUME NEW c \in Calls, NoPort(c) PROVE Progress'
    BY <1>5 DEF NoPort, GoTo
<1>6. ASSUME NEW c \in Calls, Forward(c) PROVE Progress'
    BY <1>6 DEF Forward, GoTo
<1>7. ASSUME NEW c \in Calls, LocalAnswers(c) PROVE Progress'
    BY <1>7 DEF LocalAnswers, GoTo
<1>8. ASSUME NEW c \in Calls, Listen(c) PROVE Progress'
    BY <1>8 DEF Listen, SetsTimer, GoTo
<1>9. ASSUME NEW c \in Calls, OpenFails(c) PROVE Progress'
    BY <1>9 DEF OpenFails, GoTo, Stop, CutShort, ClearTimer, Finish, Unlist,
           Terminated
<1>10. ASSUME NEW c \in Calls, TtlExpires(c) PROVE Progress'
    BY <1>10 DEF TtlExpires, Stop, CutShort, ClearTimer, Finish, Unlist, Terminated
<1>11. ASSUME NEW c \in Calls, Drained(c) PROVE Progress'
    BY <1>11 DEF Drained, Finish, Unlist, Terminated
<1>12. ASSUME NEW c \in Calls, Bind(c) PROVE Progress'
    BY <1>12 DEF Bind
<1>13. ASSUME NEW c \in Calls, ChildExits(c) PROVE Progress'
    BY <1>13 DEF ChildExits, Stop, CutShort, ClearTimer, Finish, Unlist, Terminated
<1>14. ASSUME NEW c \in Calls, ChildEnds(c) PROVE Progress'
    BY <1>14 DEF ChildEnds
<1>15. CASE UNCHANGED vars
    BY <1>15 DEF vars
<1>16. ASSUME NEW t \in Targets, OpenExisting(t) PROVE Progress'
    BY <1>16 DEF OpenExisting
<1>17. ASSUME NEW c \in Calls, NextPublicPort(c) PROVE Progress'
    BY <1>17 DEF NextPublicPort
<1>18. ASSUME NEW c \in Calls, NextLocalPort(c) PROVE Progress'
    BY <1>18 DEF NextLocalPort
<1> QED
    BY <1>1, <1>2, <1>3, <1>4, <1>5, <1>6, <1>7, <1>8, <1>9, <1>10, <1>11, <1>12,
       <1>13, <1>14, <1>15, <1>16, <1>17, <1>18
    DEF Next

\* Only open() makes a record alive, and it marks the key it finds alive.
LEMMA AliveStep ==
    ASSUME TypeOK, Records, OneAlive, [Next]_vars
    PROVE  OneAlive'
<1> USE CallsAssumption, HostsAssumption, NoneAssumption
    DEF called, races, Records, Listed, OneAlive, Alive, UnderWay, TypeOK, Steps, ChildStates,
        ProxyStates
<1>1. ASSUME NEW k \in Keys, Close(k) PROVE OneAlive'
    <2>1. PICK c \in Calls : tunnels[k] = c /\ Stop(c, child) /\ CutShort(c)
        BY <1>1 DEF Close
    <2>2. UNCHANGED <<step, called, pub, loc, races>>
        BY <1>1 DEF Close
    <2> QED
        BY <2>1, <2>2 DEF Stop, CutShort, ClearTimer, Finish, Unlist, Terminated
<1>2. ASSUME NEW c \in Calls, NEW t \in Targets, Open(c, t) PROVE OneAlive'
    BY <1>2 DEF Open, GoTo
<1>3. ASSUME NEW c \in Calls, SelectPublicPort(c) PROVE OneAlive'
    BY <1>3 DEF SelectPublicPort, GoTo
<1>4. ASSUME NEW c \in Calls, SelectLocalPort(c) PROVE OneAlive'
    BY <1>4 DEF SelectLocalPort, GoTo
<1>5. ASSUME NEW c \in Calls, NoPort(c) PROVE OneAlive'
    BY <1>5 DEF NoPort, GoTo
<1>6. ASSUME NEW c \in Calls, Forward(c) PROVE OneAlive'
    BY <1>6 DEF Forward, GoTo
<1>7. ASSUME NEW c \in Calls, LocalAnswers(c) PROVE OneAlive'
    BY <1>7 DEF LocalAnswers, GoTo
<1>8. ASSUME NEW c \in Calls, Listen(c) PROVE OneAlive'
    BY <1>8 DEF Listen, SetsTimer, GoTo
<1>9. ASSUME NEW c \in Calls, OpenFails(c) PROVE OneAlive'
    BY <1>9 DEF OpenFails, GoTo, Stop, CutShort, ClearTimer, Finish, Unlist,
           Terminated
<1>10. ASSUME NEW c \in Calls, TtlExpires(c) PROVE OneAlive'
    BY <1>10 DEF TtlExpires, Stop, CutShort, ClearTimer, Finish, Unlist, Terminated
<1>11. ASSUME NEW c \in Calls, Drained(c) PROVE OneAlive'
    BY <1>11 DEF Drained, Finish, Unlist, Terminated
<1>12. ASSUME NEW c \in Calls, Bind(c) PROVE OneAlive'
    BY <1>12 DEF Bind
<1>13. ASSUME NEW c \in Calls, ChildExits(c) PROVE OneAlive'
    BY <1>13 DEF ChildExits, Stop, CutShort, ClearTimer, Finish, Unlist, Terminated
<1>14. ASSUME NEW c \in Calls, ChildEnds(c) PROVE OneAlive'
    BY <1>14 DEF ChildEnds
<1>15. CASE UNCHANGED vars
    BY <1>15 DEF vars
<1>16. ASSUME NEW t \in Targets, OpenExisting(t) PROVE OneAlive'
    BY <1>16 DEF OpenExisting
<1>17. ASSUME NEW c \in Calls, NextPublicPort(c) PROVE OneAlive'
    BY <1>17 DEF NextPublicPort
<1>18. ASSUME NEW c \in Calls, NextLocalPort(c) PROVE OneAlive'
    BY <1>18 DEF NextLocalPort
<1> QED
    BY <1>1, <1>2, <1>3, <1>4, <1>5, <1>6, <1>7, <1>8, <1>9, <1>10, <1>11, <1>12,
       <1>13, <1>14, <1>15, <1>16, <1>17, <1>18
    DEF Next

\* An entry goes with its own record where only one is alive.
LEMMA ListedStep ==
    ASSUME TypeOK, Records, Progress, OneAlive, OpenIsListed, [Next]_vars
    PROVE  OpenIsListed'
<1> USE CallsAssumption, HostsAssumption, NoneAssumption
    DEF called, races, Records, Listed, Progress, OneAlive, OpenIsListed, IsOpen, Alive,
        UnderWay, TypeOK, Steps, ChildStates, ProxyStates
<1>1. ASSUME NEW k \in Keys, Close(k) PROVE OpenIsListed'
    <2>1. PICK c \in Calls : tunnels[k] = c /\ Stop(c, child) /\ CutShort(c)
        BY <1>1 DEF Close
    <2>2. UNCHANGED <<step, called, pub, loc, races>>
        BY <1>1 DEF Close
    <2>3. CASE status[c] = "closed"
        BY <2>1, <2>2, <2>3 DEF Stop, CutShort
    <2>4. CASE status[c] # "closed"
        <3>1. Alive(c)
            BY <2>1, <2>4
        <3>2. ASSUME NEW d \in Calls, d # c, d \notin cut, IsOpen(d), key[d]
               \notin crossed
              PROVE  key[d] # key[c]
            BY <3>1, <3>2
        <3> QED
            BY <2>1, <2>2, <2>4, <3>2 DEF Stop, CutShort, Finish, Unlist
    <2> QED
        BY <2>3, <2>4
<1>2. ASSUME NEW c \in Calls, NEW t \in Targets, Open(c, t) PROVE OpenIsListed'
    BY <1>2 DEF Open, GoTo
<1>3. ASSUME NEW c \in Calls, SelectPublicPort(c) PROVE OpenIsListed'
    BY <1>3 DEF SelectPublicPort, GoTo
<1>4. ASSUME NEW c \in Calls, SelectLocalPort(c) PROVE OpenIsListed'
    BY <1>4 DEF SelectLocalPort, GoTo
<1>5. ASSUME NEW c \in Calls, NoPort(c) PROVE OpenIsListed'
    BY <1>5 DEF NoPort, GoTo
<1>6. ASSUME NEW c \in Calls, Forward(c) PROVE OpenIsListed'
    BY <1>6 DEF Forward, GoTo
<1>7. ASSUME NEW c \in Calls, LocalAnswers(c) PROVE OpenIsListed'
    BY <1>7 DEF LocalAnswers, GoTo
<1>8. ASSUME NEW c \in Calls, Listen(c) PROVE OpenIsListed'
    BY <1>8 DEF Listen, SetsTimer, GoTo
<1>9. ASSUME NEW c \in Calls, OpenFails(c) PROVE OpenIsListed'
    BY <1>9 DEF OpenFails, GoTo, Stop, CutShort, ClearTimer, Finish, Unlist,
           Terminated
<1>10. ASSUME NEW c \in Calls, TtlExpires(c) PROVE OpenIsListed'
    BY <1>10 DEF TtlExpires, Stop, CutShort, ClearTimer, Finish, Unlist, Terminated
<1>11. ASSUME NEW c \in Calls, Drained(c) PROVE OpenIsListed'
    BY <1>11 DEF Drained, Finish, Unlist, Terminated
<1>12. ASSUME NEW c \in Calls, Bind(c) PROVE OpenIsListed'
    BY <1>12 DEF Bind
<1>13. ASSUME NEW c \in Calls, ChildExits(c) PROVE OpenIsListed'
    BY <1>13 DEF ChildExits, Stop, CutShort, ClearTimer, Finish, Unlist, Terminated
<1>14. ASSUME NEW c \in Calls, ChildEnds(c) PROVE OpenIsListed'
    BY <1>14 DEF ChildEnds
<1>15. CASE UNCHANGED vars
    BY <1>15 DEF vars
<1>16. ASSUME NEW t \in Targets, OpenExisting(t) PROVE OpenIsListed'
    BY <1>16 DEF OpenExisting
<1>17. ASSUME NEW c \in Calls, NextPublicPort(c) PROVE OpenIsListed'
    BY <1>17 DEF NextPublicPort
<1>18. ASSUME NEW c \in Calls, NextLocalPort(c) PROVE OpenIsListed'
    BY <1>18 DEF NextLocalPort
<1> QED
    BY <1>1, <1>2, <1>3, <1>4, <1>5, <1>6, <1>7, <1>8, <1>9, <1>10, <1>11, <1>12,
       <1>13, <1>14, <1>15, <1>16, <1>17, <1>18
    DEF Next

\* Where nothing has gone wrong the map has every open record, so that a port
\* which it does not have belongs to none.
LEMMA ManagedPort ==
    ASSUME IInv, crossed = {}, cut = {}, NEW p, ~IsManagedInternalPortInUse(p),
           NEW d \in Calls, IsOpen(d)
    PROVE  loc[d] # p
<1>1. Listed(d) /\ status[d] # "closed"
    BY DEF IInv, TypeOK, OpenIsListed, IsOpen, Listed, Records, UnderWay, Steps
<1> QED
    BY <1>1 DEF IsManagedInternalPortInUse

\* A local port is given to one record at a time.
LEMMA PortsStep ==
    ASSUME IInv, TypeOK', Records', Progress', [Next]_vars
    PROVE  OwnPorts'
<1> USE CallsAssumption, HostsAssumption, NoneAssumption
    DEF called, races, IInv, Records, Progress, OpenIsListed, OwnPorts, Claims, IsOpen,
        HoldsPort, Listed, UnderWay, TypeOK, Steps, ChildStates, ProxyStates
<1>1. ASSUME NEW k \in Keys, Close(k) PROVE OwnPorts'
    <2>1. PICK c \in Calls : tunnels[k] = c /\ Stop(c, child) /\ CutShort(c)
        BY <1>1 DEF Close
    <2>2. UNCHANGED <<step, called, pub, loc, races>>
        BY <1>1 DEF Close
    <2> SUFFICES ASSUME crossed = {}, overtaken = {}, cut' = {} PROVE OwnPorts'
        BY <2>2 DEF OwnPorts
    <2>3. cut = {} /\ ~UnderWay(c)
        BY <2>1 DEF CutShort
    <2>4. CASE status[c] = "closed"
        BY <2>1, <2>2, <2>3, <2>4 DEF Stop
    <2>5. CASE status[c] # "closed"
        <3>1. status[c] = "running" /\ child[c] = "up"
            BY <2>1, <2>3, <2>5
        <3> QED
            <4>1. /\ status' = [status EXCEPT ![c] = "closed"]
                  /\ \/ child' = child
                     \/ child' = [child EXCEPT ![c] = "ending"]
                BY <2>1, <2>5, <3>1 DEF Stop, Finish, Terminated
            <4>2. \A d \in Calls : Claims(d)' => Claims(d)
                BY <4>1, <3>1
            <4> QED
                BY <2>2, <2>3, <3>1, <4>1, <4>2
    <2> QED
        BY <2>4, <2>5
<1>2. ASSUME NEW c \in Calls, NEW t \in Targets, Open(c, t) PROVE OwnPorts'
    BY <1>2 DEF Open, GoTo
<1>3. ASSUME NEW c \in Calls, SelectPublicPort(c) PROVE OwnPorts'
    <2> SUFFICES ASSUME crossed = {}, overtaken = {}, cut = {} PROVE OwnPorts'
        BY <1>3 DEF OwnPorts, SelectPublicPort
    <2>1. \A d \in Calls : IsOpen(d) => loc'[c] # loc[d] /\ d # c
        BY <1>3, ManagedPort DEF SelectPublicPort
    <2>2. ~Claims(c)
        BY <1>3 DEF SelectPublicPort
    <2>3. /\ \A d \in Calls \ {c} : loc'[d] = loc[d] /\ step'[d] = step[d]
          /\ step'[c] = "local"
          /\ UNCHANGED <<status, child>>
        BY <1>3 DEF SelectPublicPort, GoTo
    <2>4. \A d, e \in Calls : Claims(d)' /\ Claims(e)' /\ loc'[d] = loc'[e] => d = e
        BY <2>2, <2>3
    <2>5. \A e, d \in Calls : step'[e] = "local" /\ IsOpen(d)' => loc'[d] # loc'[e]
        BY <2>1, <2>3
    <2> QED
        BY <2>3, <2>4, <2>5
<1>4. ASSUME NEW c \in Calls, SelectLocalPort(c) PROVE OwnPorts'
    <2> SUFFICES ASSUME crossed = {}, overtaken' = {}, cut = {} PROVE OwnPorts'
        BY <1>4 DEF OwnPorts, SelectLocalPort
    <2>1. overtaken = {} /\ \A d \in Calls \ {c} : step[d] = "local" => loc[d] # loc[c]
        BY <1>4 DEF SelectLocalPort
    <2>2. \A d \in Calls : Claims(d) => loc[d] # loc[c]
        BY <1>4, <2>1 DEF SelectLocalPort
    <2>3. /\ \A d \in Calls \ {c} : status'[d] = status[d] /\ step'[d] = step[d]
          /\ step'[c] = "forwarding" /\ status'[c] = "opening" /\ child[c] = "none"
          /\ UNCHANGED <<loc, child>>
        BY <1>4 DEF SelectLocalPort, GoTo
    <2> QED
        BY <2>1, <2>2, <2>3
<1>5. ASSUME NEW c \in Calls, NoPort(c) PROVE OwnPorts'
    BY <1>5 DEF NoPort, GoTo
<1>6. ASSUME NEW c \in Calls, Forward(c) PROVE OwnPorts'
    BY <1>6 DEF Forward, GoTo
<1>7. ASSUME NEW c \in Calls, LocalAnswers(c) PROVE OwnPorts'
    BY <1>7 DEF LocalAnswers, GoTo
<1>8. ASSUME NEW c \in Calls, Listen(c) PROVE OwnPorts'
    BY <1>8 DEF Listen, SetsTimer, GoTo
<1>9. ASSUME NEW c \in Calls, OpenFails(c) PROVE OwnPorts'
    BY <1>9 DEF OpenFails, GoTo, Stop, CutShort, ClearTimer, Finish, Unlist,
           Terminated
<1>10. ASSUME NEW c \in Calls, TtlExpires(c) PROVE OwnPorts'
    BY <1>10 DEF TtlExpires, Stop, CutShort, ClearTimer, Finish, Unlist, Terminated
<1>11. ASSUME NEW c \in Calls, Drained(c) PROVE OwnPorts'
    BY <1>11 DEF Drained, Finish, Unlist, Terminated
<1>12. ASSUME NEW c \in Calls, Bind(c) PROVE OwnPorts'
    BY <1>12 DEF Bind
<1>13. ASSUME NEW c \in Calls, ChildExits(c) PROVE OwnPorts'
    BY <1>13 DEF ChildExits, Stop, CutShort, ClearTimer, Finish, Unlist, Terminated
<1>14. ASSUME NEW c \in Calls, ChildEnds(c) PROVE OwnPorts'
    BY <1>14 DEF ChildEnds
<1>15. CASE UNCHANGED vars
    BY <1>15 DEF vars
<1>16. ASSUME NEW t \in Targets, OpenExisting(t) PROVE OwnPorts'
    BY <1>16 DEF OpenExisting
<1>17. ASSUME NEW c \in Calls, NextPublicPort(c) PROVE OwnPorts'
    BY <1>17 DEF NextPublicPort
<1>18. ASSUME NEW c \in Calls, NextLocalPort(c) PROVE OwnPorts'
    <2> SUFFICES ASSUME crossed = {}, overtaken = {}, cut = {} PROVE OwnPorts'
        BY <1>18 DEF OwnPorts, NextLocalPort
    <2>1. \A d \in Calls : IsOpen(d) => loc'[c] # loc[d] /\ d # c
        BY <1>18, ManagedPort DEF NextLocalPort
    <2>2. ~Claims(c)
        BY <1>18 DEF NextLocalPort
    <2>3. /\ \A d \in Calls \ {c} : loc'[d] = loc[d]
          /\ UNCHANGED <<step, status, child>>
        BY <1>18 DEF NextLocalPort
    <2> QED
        BY <2>1, <2>2, <2>3
<1> QED
    BY <1>1, <1>2, <1>3, <1>4, <1>5, <1>6, <1>7, <1>8, <1>9, <1>10, <1>11, <1>12,
       <1>13, <1>14, <1>15, <1>16, <1>17, <1>18
    DEF Next

\* Only open() hands a record out, and it looks for the hostname.
LEMMA BorrowedStep ==
    ASSUME TypeOK, Records, Borrowed, [Next]_vars
    PROVE  Borrowed'
<1> USE HostsAssumption DEF Records, Borrowed, TypeOK, called
<1>1. ASSUME NEW t \in Targets, OpenExisting(t) PROVE Borrowed'
    BY <1>1 DEF OpenExisting, Finds
<1>2. ASSUME NEW c \in Calls, NEW t \in Targets, Open(c, t) PROVE Borrowed'
    BY <1>2 DEF Open, GoTo
<1>3. CASE /\ UNCHANGED called
           /\ \A c \in Calls : step'[c] = "idle" => step[c] = "idle"
    BY <1>3
<1>4. ASSUME NEW c \in Calls, Drained(c) \/ Bind(c) \/ ChildEnds(c) \/ ChildExits(c)
                              \/ TtlExpires(c) \/ NextPublicPort(c) \/ NextLocalPort(c)
      PROVE  Borrowed'
    BY <1>3, <1>4 DEF Drained, Bind, ChildEnds, ChildExits, TtlExpires, NextPublicPort,
                      NextLocalPort
<1>5. ASSUME NEW c \in Calls, NEW s \in Steps \ {"idle"}, UNCHANGED called, GoTo(c, s)
      PROVE  Borrowed'
    BY <1>3, <1>5 DEF GoTo
<1>6. ASSUME NEW c \in Calls, SelectPublicPort(c) \/ SelectLocalPort(c) \/ NoPort(c)
                              \/ Forward(c) \/ LocalAnswers(c) \/ Listen(c) \/ OpenFails(c)
      PROVE  Borrowed'
    BY <1>5, <1>6 DEF SelectPublicPort, SelectLocalPort, NoPort, Forward, LocalAnswers,
                      Listen, OpenFails, Steps
<1>7. ASSUME NEW k \in Keys, Close(k) PROVE Borrowed'
    BY <1>3, <1>7 DEF Close
<1>8. CASE UNCHANGED vars
    BY <1>3, <1>8 DEF vars
<1> QED
    BY <1>1, <1>2, <1>4, <1>6, <1>7, <1>8 DEF Next

-----------------------------------------------------------------------------
(* The theorems. *)

\* The inductive invariant holds.
LEMMA Invariance == Spec => []IInv
<1>1. Init => IInv
    BY CallsAssumption, NoneAssumption
    DEF Init, IInv, TypeOK, Steps, ChildStates, ProxyStates, ExpiresEvenIfUnlisted,
        Records, Listed, Progress, UnderWay, OneAlive, Alive, OpenIsListed, IsOpen,
        OwnPorts, Claims, HoldsPort, Borrowed
<1>2. IInv /\ [Next]_vars => IInv'
    BY TypeStep, BorrowedStep, TimerStep, RecordsStep, ProgressStep, AliveStep, ListedStep,
           PortsStep
    DEF IInv
<1> QED
    BY <1>1, <1>2, PTL DEF Spec

\* Every variable keeps its type.
THEOREM TypeCorrect == Spec => []TypeOK
<1>1. IInv => TypeOK
    BY DEF IInv
<1> QED
    BY <1>1, Invariance, PTL

\* A TTL ends every endpoint it was given to, also the ones that the map has
\* lost.
THEOREM TimersStay == Spec => []ExpiresEvenIfUnlisted
<1>1. IInv => ExpiresEvenIfUnlisted
    BY DEF IInv
<1> QED
    BY <1>1, Invariance, PTL

\* Where no calls for one resource overlap, list_tunnels shows every endpoint
\* that takes connections, however many other resources are raced for.
THEOREM ListsWhatAccepts == Spec => []AcceptsOnlyIfListedUnlessRaced
<1>1. IInv => AcceptsOnlyIfListedUnlessRaced
    <2> SUFFICES ASSUME IInv, NEW c \in Calls, proxy[c] = "listening",
                        c \notin cut, key[c] \notin crossed
                 PROVE  Listed(c)
        BY DEF AcceptsOnlyIfListedUnlessRaced
    <2>1. status[c] = "running" /\ key[c] \in Keys
        BY DEF IInv, Records, TypeOK, Steps
    <2> QED
        BY <2>1 DEF IInv, OpenIsListed, IsOpen, Listed
<1> QED
    BY <1>1, Invariance, PTL

\* A closed record keeps neither its proxy nor its forward, whoever closed it.
THEOREM ClosedHoldsNothing == Spec => []ClosedHoldsNothingUnlessCut
<1>1. IInv => ClosedHoldsNothingUnlessCut
    BY DEF IInv, Records, Progress, ClosedHoldsNothingUnlessCut
<1> QED
    BY <1>1, Invariance, PTL

\* Tunnels opened at once from one pool of ports lead to a resource with the
\* hostname they were asked for, unless a local port was listed for one call while
\* another one was probing it.
THEOREM ReachesItsOwn == Spec => []ReachesItsOwnUnlessRaced
<1>1. IInv => ReachesItsOwnUnlessRaced
    BY DEF IInv, Records, OwnPorts, Borrowed, ReachesItsOwnUnlessRaced
<1> QED
    BY <1>1, Invariance, PTL
=============================================================================
