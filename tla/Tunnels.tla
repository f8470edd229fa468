------------------------------- MODULE Tunnels -------------------------------
(***************************************************************************)
(* The tunnel manager of the API process (rdpTunnelManager.ts): open()     *)
(* takes a public and a local port, has the provider's adapter spawn a     *)
(* child that forwards the local port to the resource, waits until the     *)
(* local port answers, and lets a proxy listen on the public one.  What is *)
(* open is kept in a map with one entry per hostname and protocol, which   *)
(* stop() deletes by its key.  The clones of a deployment have resources   *)
(* of their own and the template's hostnames.                              *)
(*                                                                         *)
(* An action ends at an await.  Each call of open() that finds no tunnel   *)
(* has a record of its own; these calls are numbered in the order in which *)
(* they are made.  Of the rest only what they were handed is kept.         *)
(***************************************************************************)
EXTENDS Naturals

CONSTANTS
    MaxCalls,       \* bound: calls of open()
    Expiring,       \* the calls whose ttlSeconds is above 0
    Targets,        \* resource and protocol: what open() is called for
    Hosts,          \* hostname and protocol
    Host,           \* Host[t]: those of t
    Keys,           \* the map's keys
    Id,             \* Id[h]: the key of h, its safe characters
    PublicPorts,
    LocalPorts,
    None

Calls == 1 .. MaxCalls

ASSUME CallsAssumption == MaxCalls \in Nat /\ Expiring \subseteq Calls
ASSUME HostsAssumption == Host \in [Targets -> Hosts] /\ Id \in [Hosts -> Keys]
ASSUME NoneAssumption ==
    None \notin Calls \cup Targets \cup Keys \cup PublicPorts \cup LocalPorts

VARIABLES
    step,           \* step[c]: what call c awaits
    target,         \* target[c]: what it was called for
    key,            \* tunnel.id
    pub,            \* tunnel.publicPort, or the candidate that is probed
    loc,            \* tunnel.internalPort, or the candidate that is probed
    status,         \* tunnel.status, "none" before the record exists
    child,          \* the forwarding child of the record
    proxy,          \* the record's proxy server
    timer,          \* ttlTimer is set
    tunnels,        \* the map: tunnels[k] is the record listed under k
    lent,           \* history: lent[c]: the other targets c's record was
                    \* handed out for
    crossed,        \* history: the keys on which calls have overlapped
    overtaken,      \* history: the local ports listed while another call was
                    \* probing them
    cut             \* history: the calls whose record was stopped under them

called == <<target, key, lent>>
races == <<crossed, overtaken>>
vars == <<step, called, pub, loc, status, child, proxy, timer, tunnels, races, cut>>

Steps == {"idle", "public", "local", "forwarding", "waiting", "listening",
          "returned", "failed"}

\* "up": holds the local port; "ending": told to end, and may hold it yet.
ChildStates == {"none", "starting", "up", "ending", "gone"}

\* "draining": takes no connection any more and waits for the last one to end.
ProxyStates == {"new", "listening", "draining", "closed"}

TypeOK ==
    /\ step \in [Calls -> Steps]
    /\ target \in [Calls -> Targets \cup {None}]
    /\ key \in [Calls -> Keys \cup {None}]
    /\ lent \in [Calls -> SUBSET Targets]
    /\ pub \in [Calls -> PublicPorts \cup {None}]
    /\ loc \in [Calls -> LocalPorts \cup {None}]
    /\ status \in [Calls -> {"none", "opening", "running", "closed"}]
    /\ child \in [Calls -> ChildStates]
    /\ proxy \in [Calls -> ProxyStates]
    /\ timer \in [Calls -> BOOLEAN]
    /\ tunnels \in [Keys -> Calls \cup {None}]
    /\ crossed \subseteq Keys /\ overtaken \subseteq LocalPorts
    /\ cut \subseteq Calls
    /\ \A c \in Calls : timer[c] => status[c] = "running" /\ proxy[c] = "listening"

Init ==
    /\ step = [c \in Calls |-> "idle"]
    /\ target = [c \in Calls |-> None]
    /\ key = [c \in Calls |-> None]
    /\ lent = [c \in Calls |-> {}]
    /\ pub = [c \in Calls |-> None]
    /\ loc = [c \in Calls |-> None]
    /\ status = [c \in Calls |-> "none"]
    /\ child = [c \in Calls |-> "none"]
    /\ proxy = [c \in Calls |-> "new"]
    /\ timer = [c \in Calls |-> FALSE]
    /\ tunnels = [k \in Keys |-> None]
    /\ crossed = {} /\ overtaken = {}
    /\ cut = {}

UnderWay(c) == step[c] \notin {"idle", "returned", "failed"}

Listed(c) == \E k \in Keys : tunnels[k] = c

\* A record that has something left to stop, or is being stopped.
Alive(c) == UnderWay(c) \/ status[c] = "running" \/ proxy[c] = "draining"

HoldsPort(c) == child[c] \in {"up", "ending"}

GoTo(c, s) == step' = [step EXCEPT ![c] = s]

-----------------------------------------------------------------------------
(* stop(). *)

Terminated(s) ==
    CASE s = "up" -> "ending" [] s = "starting" -> "gone" [] OTHER -> s

\* Defect: the id lacks the protocol, and the other entry of the host goes too.
UnlistHost(c) == tunnels' = [k \in Keys |-> None]

\* The entry goes by its key, whichever record it holds by now.
Unlist(c) == tunnels' = [tunnels EXCEPT ![key[c]] = None]

\* Defect: the record is closed and its timer left running.
LeaveTimer(c) == UNCHANGED timer

ClearTimer(c) == timer' = [timer EXCEPT ![c] = FALSE]

\* What follows closeServer.
Finish(c, children) ==
    /\ child' = [children EXCEPT ![c] = Terminated(@)]
    /\ Unlist(c)

\* server.close() calls back when the last connection has ended: at once when
\* nobody is connected or the server does not listen.  Until then stop() waits.
\* A record that is closed already is left alone.
Stop(c, children) ==
    \/ /\ status[c] = "closed"
       /\ child' = children
       /\ UNCHANGED <<status, timer, proxy, tunnels>>
    \/ /\ status[c] # "closed"
       /\ status' = [status EXCEPT ![c] = "closed"]
       /\ ClearTimer(c)
       /\ \/ /\ proxy[c] = "listening"
             /\ proxy' = [proxy EXCEPT ![c] = "draining"]
             /\ child' = children
             /\ UNCHANGED tunnels
          \/ /\ proxy' = [proxy EXCEPT ![c] = IF @ = "listening" THEN "closed" ELSE @]
             /\ Finish(c, children)

\* Defect: the forward is left to itself.
DrainedForgetful(c) ==
    /\ proxy[c] = "draining"
    /\ proxy' = [proxy EXCEPT ![c] = "closed"]
    /\ Unlist(c)
    /\ UNCHANGED <<step, called, pub, loc, status, child, timer, races, cut>>

\* The last client has left, if it ever does.
Drained(c) ==
    /\ proxy[c] = "draining"
    /\ proxy' = [proxy EXCEPT ![c] = "closed"]
    /\ Finish(c, child)
    /\ UNCHANGED <<step, called, pub, loc, status, timer, races, cut>>

\* Whoever stops a record under its open() cuts it.
CutShort(c) == cut' = IF UnderWay(c) THEN cut \cup {c} ELSE cut

Close(k) ==
    /\ \E c \in Calls :
        /\ tunnels[k] = c
        /\ Stop(c, child)
        /\ CutShort(c)
    /\ UNCHANGED <<step, called, pub, loc, races>>

TtlExpires(c) ==
    /\ timer[c]
    /\ Stop(c, child)
    /\ UNCHANGED <<step, called, pub, loc, races, cut>>

-----------------------------------------------------------------------------
(* open(). *)

\* findByResource: an opening or running entry with the resource's id or its hostname.
Finds(t, c) == Listed(c) /\ Host[target[c]] = Host[t] /\ status[c] # "closed"

\* It is returned as it is, also where it is the tunnel of another resource.
OpenExisting(t) ==
    /\ \E c \in Calls :
        /\ Finds(t, c)
        /\ lent' = [lent EXCEPT ![c] = @ \cup ({t} \ {target[c]})]
    /\ UNCHANGED <<step, target, key, pub, loc, status, child, proxy, timer, tunnels,
                   races, cut>>

MayOpen(t) == \A c \in Calls : ~Finds(t, c)

IsManagedPortInUse(p) ==
    \E c \in Calls : Listed(c) /\ pub[c] = p /\ status[c] # "closed"

\* Defect: only the probe is made.
IsManagedInternalPortInUseNever(p) == FALSE

IsManagedInternalPortInUse(p) ==
    \E c \in Calls : Listed(c) /\ loc[c] = p /\ status[c] # "closed"

\* The first port to be probed is the caller's or one that no open tunnel of the
\* map has; which one makes no difference.
Open(c, t) ==
    /\ step[c] = "idle"
    /\ \A d \in Calls : d < c => step[d] # "idle"
    /\ MayOpen(t)
    /\ target' = [target EXCEPT ![c] = t]
    /\ key' = [key EXCEPT ![c] = Id[Host[t]]]
    /\ \E p \in PublicPorts :
        /\ ~IsManagedPortInUse(p)
        /\ pub' = [pub EXCEPT ![c] = p]
    /\ GoTo(c, "public")
    /\ crossed' = crossed \cup {k \in Keys : Id[Host[t]] = k /\
                                \E d \in Calls : key[d] = k /\ Alive(d)}
    /\ UNCHANGED <<lent, loc, status, child, proxy, timer, tunnels, overtaken, cut>>

PortTaken(p) == \E c \in Calls : proxy[c] = "listening" /\ pub[c] = p

\* A port answers as busy that is taken, or probed by another call just now.
PublicBusy(c) ==
    PortTaken(pub[c]) \/ \E d \in Calls \ {c} : step[d] = "public" /\ pub[d] = pub[c]

LocalBusy(c) ==
    \/ \E d \in Calls : HoldsPort(d) /\ loc[d] = loc[c]
    \/ \E d \in Calls \ {c} : step[d] = "local" /\ loc[d] = loc[c]

NextPublicPort(c) ==
    /\ step[c] = "public"
    /\ PublicBusy(c)
    /\ \E p \in PublicPorts \ {pub[c]} :
        /\ ~IsManagedPortInUse(p)
        /\ pub' = [pub EXCEPT ![c] = p]
    /\ UNCHANGED <<step, called, loc, status, child, proxy, timer, tunnels, races, cut>>

\* The probe has bound the public port; a local one is looked up and probed.
SelectPublicPort(c) ==
    /\ step[c] = "public"
    /\ ~PortTaken(pub[c])
    /\ \E p \in LocalPorts :
        /\ ~IsManagedInternalPortInUse(p)
        /\ loc' = [loc EXCEPT ![c] = p]
    /\ GoTo(c, "local")
    /\ UNCHANGED <<called, pub, status, child, proxy, timer, tunnels, races, cut>>

NextLocalPort(c) ==
    /\ step[c] = "local"
    /\ LocalBusy(c)
    /\ \E p \in LocalPorts \ {loc[c]} :
        /\ ~IsManagedInternalPortInUse(p)
        /\ loc' = [loc EXCEPT ![c] = p]
    /\ UNCHANGED <<step, called, pub, status, child, proxy, timer, tunnels, races, cut>>

\* The record is made and listed as soon as the probe has bound the local port,
\* whatever has been listed since the lookup.
SelectLocalPort(c) ==
    /\ step[c] = "local"
    /\ \A d \in Calls : HoldsPort(d) => loc[d] # loc[c]
    /\ status' = [status EXCEPT ![c] = "opening"]
    /\ tunnels' = [tunnels EXCEPT ![key[c]] = c]
    /\ overtaken' = overtaken \cup {p \in LocalPorts : loc[c] = p /\
                        \E d \in Calls \ {c} : step[d] = "local" /\ loc[d] = p}
    /\ GoTo(c, "forwarding")
    /\ UNCHANGED <<called, pub, loc, child, proxy, timer, crossed, cut>>

\* The 409s: a port asked for is busy, or each is when its turn comes.
NoPort(c) ==
    /\ \/ step[c] = "public" /\ PublicBusy(c)
       \/ step[c] = "public" /\ \A p \in LocalPorts : IsManagedInternalPortInUse(p)
       \/ step[c] = "local" /\ LocalBusy(c)
    /\ GoTo(c, "failed")
    /\ UNCHANGED <<called, pub, loc, status, child, proxy, timer, tunnels, races, cut>>

\* The adapter spawns the child and returns.
Forward(c) ==
    /\ step[c] = "forwarding"
    /\ child' = [child EXCEPT ![c] = "starting"]
    /\ GoTo(c, "waiting")
    /\ UNCHANGED <<called, pub, loc, status, proxy, timer, tunnels, races, cut>>

\* waitForTcp: something answers on the local port, and the forward was not
\* closed when that was last looked at.
LocalAnswers(c) ==
    /\ step[c] = "waiting"
    /\ child[c] \notin {"ending", "gone"}
    /\ \E d \in Calls : HoldsPort(d) /\ loc[d] = loc[c]
    /\ GoTo(c, "listening")
    /\ UNCHANGED <<called, pub, loc, status, child, proxy, timer, tunnels, races, cut>>

\* Defect: no timer is set for a record that is not listed any more.
SetsTimerIfListed(c) == c \in Expiring /\ Listed(c)

SetsTimer(c) == c \in Expiring

\* listen() has succeeded: the record says running, whatever it said before.
Listen(c) ==
    /\ step[c] = "listening"
    /\ ~PortTaken(pub[c])
    /\ proxy' = [proxy EXCEPT ![c] = "listening"]
    /\ status' = [status EXCEPT ![c] = "running"]
    /\ timer' = [timer EXCEPT ![c] = SetsTimer(c)]
    /\ GoTo(c, "returned")
    /\ UNCHANGED <<called, pub, loc, child, tunnels, races, cut>>

\* The adapter throws, the forward closes or does not answer in time, or the
\* public port is busy: the catch block stops the record.
OpenFails(c) ==
    /\ \/ step[c] \in {"forwarding", "waiting"}
       \/ step[c] = "listening" /\ PublicBusy(c)
    /\ Stop(c, child)
    /\ GoTo(c, "failed")
    /\ UNCHANGED <<called, pub, loc, races, cut>>

-----------------------------------------------------------------------------
(* The children. *)

Bind(c) ==
    /\ child[c] = "starting"
    /\ \A d \in Calls : HoldsPort(d) => loc[d] # loc[c]
    /\ child' = [child EXCEPT ![c] = "up"]
    /\ UNCHANGED <<step, called, pub, loc, status, proxy, timer, tunnels, races, cut>>

\* The child ends of its own accord, or because its port is taken: onExit stops
\* the record.
ChildExits(c) ==
    /\ child[c] \in {"starting", "up"}
    /\ Stop(c, [child EXCEPT ![c] = "gone"])
    /\ CutShort(c)
    /\ UNCHANGED <<step, called, pub, loc, races>>

\* The same once the manager has told it to: onExit stays silent.
ChildEnds(c) ==
    /\ child[c] = "ending"
    /\ child' = [child EXCEPT ![c] = "gone"]
    /\ UNCHANGED <<step, called, pub, loc, status, proxy, timer, tunnels, races, cut>>

-----------------------------------------------------------------------------
Next ==
    \/ \E k \in Keys : Close(k)
    \/ \E t \in Targets : OpenExisting(t) \/ \E c \in Calls : Open(c, t)
    \/ \E c \in Calls :
        \/ NextPublicPort(c) \/ SelectPublicPort(c)
        \/ NextLocalPort(c) \/ SelectLocalPort(c) \/ NoPort(c)
        \/ Forward(c) \/ LocalAnswers(c) \/ Listen(c) \/ OpenFails(c)
        \/ TtlExpires(c) \/ Drained(c)
        \/ Bind(c) \/ ChildExits(c) \/ ChildEnds(c)

Spec == Init /\ [][Next]_vars

-----------------------------------------------------------------------------
(* Properties. *)

\* "Use list_tunnels to see active endpoints and close_tunnel to close one"
\* (instructions.ts): an endpoint that takes connections is listed, for keys on
\* which no two calls of open() and no open() and stop() overlap, whatever
\* happens to the others beside them.
AcceptsOnlyIfListedUnlessRaced ==
    \A c \in Calls :
        proxy[c] = "listening" =>
            Listed(c) \/ c \in cut \/ key[c] \in crossed

\* A record that was closed, and whose open() and stop() are over, has neither a
\* proxy that listens nor a forward that was not told to end, unless it was
\* stopped under its open().
ClosedHoldsNothingUnlessCut ==
    \A c \in Calls \ cut :
        step[c] \in {"returned", "failed"} /\ status[c] = "closed" /\ proxy[c] # "draining"
            => proxy[c] # "listening" /\ child[c] \notin {"starting", "up"}

\* Calls pick ports from one pool at once and do not end up behind each other's
\* forward: who connects to an endpoint he was handed reaches a resource with the
\* hostname he asked for, if perhaps that of another clone, as long as no record
\* was cut or replaced and none was listed with a local port that another call
\* was probing.
ReachesItsOwnUnlessRaced ==
    crossed = {} /\ overtaken = {} /\ cut = {} =>
        \A c \in Calls : proxy[c] = "listening" =>
            /\ child[c] = "up"
            /\ \A t \in lent[c] : Host[t] = Host[target[c]]

\* An endpoint opened with a TTL has its timer set for as long as it takes
\* connections: the TTL ends it even where it is not listed any more and
\* close_tunnel cannot.
ExpiresEvenIfUnlisted ==
    \A c \in Expiring : proxy[c] = "listening" => timer[c]
=============================================================================
