-------------------------- MODULE WriteQueueProofs --------------------------
(***************************************************************************)
(* Proofs about WriteQueue.  The inductive invariant says that what the    *)
(* replay has left to send is a prefix of the queue and that everything    *)
(* behind it was queued during the replay; that the queue is sorted; and   *)
(* that a request which may still arrive is no younger than the queue.     *)
(***************************************************************************)
EXTENDS WriteQueue, SequenceTheorems, TLAPS

Sorted(s) == \A i, j \in 1 .. Len(s) : i < j => s[i] < s[j]

\* localStorage holds the queue, unless it has refused a write.
Saved == quotaHit \/ stored = queue

\* What the replay has left to send is a prefix of the queue ...
Prefix ==
    /\ Len(pending) <= Len(queue)
    /\ \A i \in 1 .. Len(pending) : pending[i] = queue[i]

\* ... and what follows it was queued since the replay began.
Behind ==
    replay # "idle" =>
        \A i \in 1 .. Len(queue) : i > Len(pending) => queue[i] \in midReplay

Ordered == Sorted(queue) /\ Sorted(stored)

\* An edit lands after it is made; an answer follows the landing.
Arrivals ==
    /\ \A e \in Edits : e > edits => landings[e] = 0
    /\ replay = "done" => landings[pending[1]] > 0

\* A request given up is of the queue's oldest entry, or of one before it.
Late == quotaHit \/ \A e \in abandoned : \A i \in 1 .. Len(queue) : e <= queue[i]

\* No accepted edit older than one that has landed is still queued, to be
\* replayed over it.
QueuedInOrder ==
    quotaHit \/ \A d, e \in Accepted : d < e /\ Landed(e) => d \notin ToSet(queue)

\* Without failures only the entry whose answer is awaited has landed.
Unsent ==
    faults = 0 /\ reloads = 0 =>
        /\ abandoned = {}
        /\ \A i \in 1 .. Len(queue) :
              landings[queue[i]] > 0 => i = 1 /\ replay = "done"

IInv ==
    /\ TypeOK
    /\ Saved
    /\ Prefix
    /\ Behind
    /\ Ordered
    /\ Arrivals
    /\ Late
    /\ Unsent
    /\ NothingLostUnlessRaced
    /\ QueuedInOrder
    /\ LandsOnce
    /\ OnlineMeansDrained

-----------------------------------------------------------------------------
(* Sequences of edits. *)

\* The members of a sequence are its entries.
LEMMA Members ==
    ASSUME NEW S, NEW s \in Seq(S), NEW x
    PROVE  x \in ToSet(s) <=> \E i \in 1 .. Len(s) : s[i] = x
<1>1. DOMAIN s = 1 .. Len(s)
    BY LenProperties
<1> QED
    BY <1>1 DEF ToSet

\* What is left of a queue of edits is a sorted queue of edits.
LEMMA Rest ==
    ASSUME NEW n \in Nat, NEW s \in Seq(1 .. n), s # <<>>
    PROVE  /\ Head(s) = s[1] /\ s[1] \in 1 .. n
           /\ Tail(s) \in Seq(1 .. n)
           /\ Len(s) \in Nat \ {0} /\ Len(Tail(s)) = Len(s) - 1
           /\ \A i \in 1 .. Len(Tail(s)) : i + 1 \in 1 .. Len(s) /\ Tail(s)[i] = s[i + 1]
           /\ Sorted(s) => Sorted(Tail(s))
<1>1. Len(s) \in Nat \ {0}
    BY EmptySeq
<1>2. Tail(s) \in Seq(1 .. n) /\ Len(Tail(s)) = Len(s) - 1
    BY HeadTailProperties
<1>3. \A i \in 1 .. Len(Tail(s)) : i + 1 \in 1 .. Len(s) /\ Tail(s)[i] = s[i + 1]
    BY <1>1, <1>2, HeadTailProperties
<1>4. Head(s) = s[1] /\ s[1] \in 1 .. n
    BY <1>1, ElementOfSeq
<1>5. Sorted(s) => Sorted(Tail(s))
    BY <1>1, <1>2, <1>3 DEF Sorted
<1> QED
    BY <1>1, <1>2, <1>3, <1>4, <1>5

\* An edit newer than all of a sorted queue keeps it sorted at its end.
LEMMA Added ==
    ASSUME NEW n \in Nat, NEW s \in Seq(1 .. n), Sorted(s)
    PROVE  /\ Append(s, n + 1) \in Seq(1 .. n + 1)
           /\ Len(Append(s, n + 1)) = Len(s) + 1
           /\ \A i \in 1 .. Len(s) : Append(s, n + 1)[i] = s[i]
           /\ Append(s, n + 1)[Len(s) + 1] = n + 1
           /\ Sorted(Append(s, n + 1))
<1> DEFINE t == Append(s, n + 1)
<1>1. s \in Seq(1 .. n + 1) /\ n + 1 \in 1 .. n + 1
    BY SeqMonotonic
<1>2. Len(s) \in Nat /\ \A i \in 1 .. Len(s) : s[i] \in 1 .. n
    BY LenProperties, ElementOfSeq
<1>3. /\ t \in Seq(1 .. n + 1)
      /\ Len(t) = Len(s) + 1
      /\ \A i \in 1 .. Len(s) : t[i] = s[i]
      /\ t[Len(s) + 1] = n + 1
    BY <1>1, AppendProperties
<1>4. ASSUME NEW i \in 1 .. Len(t), NEW j \in 1 .. Len(t), i < j
      PROVE  t[i] < t[j]
    <2>1. i \in 1 .. Len(s) /\ t[i] = s[i] /\ s[i] \in 1 .. n
        BY <1>2, <1>3, <1>4
    <2>2. CASE j \in 1 .. Len(s)
        BY <1>3, <1>4, <2>1, <2>2 DEF Sorted
    <2>3. CASE j = Len(s) + 1
        BY <1>3, <2>1, <2>3
    <2> QED
        BY <1>2, <1>3, <2>2, <2>3
<1>5. Sorted(t)
    BY <1>4 DEF Sorted
<1> QED
    BY <1>3, <1>5

-----------------------------------------------------------------------------
(* The initial states. *)

LEMMA Initial == Init => IInv
<1> SUFFICES ASSUME Init PROVE IInv
    OBVIOUS
<1> USE DEF Init
<1>0. MaxEdits \in Nat /\ MaxEntries \in Nat /\ MaxFaults \in Nat /\ MaxReloads \in Nat
    BY BoundsAssumption
<1>1. <<>> \in Seq(1 .. 0) /\ Len(<<>>) = 0
    BY EmptySeq
<1>2. TypeOK
    <2>1. /\ queue \in Seq(1 .. edits) /\ Len(queue) <= MaxEntries
          /\ stored \in Seq(1 .. edits) /\ Len(stored) <= MaxEntries
          /\ pending \in Seq(1 .. edits)
        BY <1>0, <1>1
    <2>2. {rejected, rejectedWrites, abandoned, direct, midReplay, forgotten}
              \subseteq SUBSET (1 .. edits)
        OBVIOUS
    <2>3. landings \in [Edits -> Nat]
        OBVIOUS
    <2>4. /\ mode \in {"online", "offline"}
          /\ replay \in {"idle", "sent", "done", "refused"}
          /\ edits \in 0 .. MaxEdits
          /\ faults \in 0 .. MaxFaults /\ reloads \in 0 .. MaxReloads
        BY <1>0
    <2>5. starting \in BOOLEAN /\ quotaHit \in BOOLEAN /\ (replay = "idle" <=> pending = <<>>)
        BY Zenon
    <2> HIDE DEF Init
    <2> QED
        BY <2>1, <2>2, <2>3, <2>4, <2>5 DEF TypeOK
<1>3. Saved /\ Prefix /\ Behind
    BY <1>1 DEF Saved, Prefix, Behind
<1>4. Ordered
    BY <1>1 DEF Ordered, Sorted
<1>5. Arrivals /\ Late
    BY DEF Arrivals, Late
<1>6. Unsent
    BY <1>1 DEF Unsent
<1>7. NothingLostUnlessRaced
    BY <1>0 DEF NothingLostUnlessRaced, Accepted
<1>8. QueuedInOrder
    BY <1>0 DEF QueuedInOrder, Accepted
<1>9. LandsOnce /\ OnlineMeansDrained
    BY DEF LandsOnce, OnlineMeansDrained
<1> QED
    BY <1>2, <1>3, <1>4, <1>5, <1>6, <1>7, <1>8, <1>9 DEF IInv

-----------------------------------------------------------------------------
(* The steps. *)

\* The entries of the queue are edits; a replay is under way at its head.
LEMMA Entries ==
    ASSUME TypeOK, Prefix
    PROVE  /\ edits \in Nat /\ 1 .. edits \subseteq Edits
           /\ Len(queue) \in Nat
           /\ \A i \in 1 .. Len(queue) : queue[i] \in 1 .. edits
           /\ \A x : x \in ToSet(queue) <=> \E i \in 1 .. Len(queue) : queue[i] = x
           /\ Len(pending) \in Nat
           /\ replay # "idle" =>
                 /\ Len(pending) > 0 /\ Len(queue) > 0 /\ queue # <<>>
                 /\ pending[1] = queue[1] /\ Head(pending) = queue[1]
<1>1. edits \in Nat /\ edits <= MaxEdits /\ MaxEdits \in Nat
    BY BoundsAssumption DEF TypeOK
<1>2. 1 .. edits \subseteq Edits
    BY <1>1 DEF Edits
<1>3. queue \in Seq(1 .. edits) /\ pending \in Seq(1 .. edits)
    BY DEF TypeOK
<1>4. /\ Len(queue) \in Nat /\ Len(pending) \in Nat
      /\ \A i \in 1 .. Len(queue) : queue[i] \in 1 .. edits
    BY <1>3, LenProperties, ElementOfSeq
<1>5. \A x : x \in ToSet(queue) <=> \E i \in 1 .. Len(queue) : queue[i] = x
    BY <1>3, Members
<1>6. ASSUME replay # "idle"
      PROVE  /\ Len(pending) > 0 /\ Len(queue) > 0 /\ queue # <<>>
             /\ pending[1] = queue[1] /\ Head(pending) = queue[1]
    <2>1. pending # <<>>
        BY <1>6 DEF TypeOK
    <2>2. Len(pending) \in Nat \ {0} /\ Head(pending) = pending[1]
        BY <1>1, <1>3, <2>1, Rest
    <2>3. pending[1] = queue[1] /\ Len(queue) > 0
        BY <1>4, <2>2 DEF Prefix
    <2>4. queue # <<>>
        BY <2>3, EmptySeq
    <2> QED
        BY <2>2, <2>3, <2>4
<1> QED
    BY <1>1, <1>2, <1>4, <1>5, <1>6

\* An edit queued in Offline mode is newer than all others, and has not landed.
LEMMA EditOfflineKeeps ==
    ASSUME IInv, NEW e \in Edits, EditOffline(e)
    PROVE  IInv'
<1> USE DEF IInv
<1>0. TypeOK /\ Prefix /\ Sorted(queue)
    BY DEF Ordered
<1>1. /\ edits \in Nat /\ 1 .. edits \subseteq Edits
      /\ Len(queue) \in Nat
      /\ \A i \in 1 .. Len(queue) : queue[i] \in 1 .. edits
      /\ \A x : x \in ToSet(queue) <=> \E i \in 1 .. Len(queue) : queue[i] = x
      /\ Len(pending) \in Nat
    BY <1>0, Entries
<1>2. e = edits + 1 /\ edits' = edits + 1 /\ mode = "offline" /\ mode' = "offline"
    BY DEF EditOffline, NewEdit
<1>3. /\ UNCHANGED <<starting, replay, pending, rejected, rejectedWrites, abandoned,
                     landings, direct, forgotten, reloads>>
      /\ midReplay' = IF replay = "idle" THEN midReplay ELSE midReplay \cup {e}
      /\ Len(queue) < MaxEntries
    BY DEF EditOffline, replayVars, HasRoom
<1>4. /\ queue' = Append(queue, e)
      /\ \/ stored' = queue' /\ quotaHit' = quotaHit /\ faults' = faults
         \/ Fault /\ quotaHit' = TRUE /\ stored' = stored
    BY DEF EditOffline, Persist, Enqueued
<1>5. /\ queue' \in Seq(1 .. edits')
      /\ Len(queue') = Len(queue) + 1
      /\ \A i \in 1 .. Len(queue) : queue'[i] = queue[i]
      /\ queue'[Len(queue) + 1] = e
      /\ Sorted(queue')
    <2>1. queue \in Seq(1 .. edits)
        BY DEF TypeOK
    <2> QED
        BY <1>0, <1>1, <1>2, <1>4, <2>1, Added
<1>6. \A x : x \in ToSet(queue') <=> \E i \in 1 .. Len(queue') : queue'[i] = x
    BY <1>5, Members
<1>7. \A x : x \in ToSet(queue') <=> x \in ToSet(queue) \/ x = e
    BY <1>1, <1>5, <1>6
<1>8. landings[e] = 0 /\ e \notin direct
    <2>1. direct \subseteq 1 .. edits
        BY DEF TypeOK
    <2> QED
        BY <1>1, <1>2, <2>1 DEF Arrivals
<1>9. faults \in Nat /\ faults' \in Nat /\ faults' \in 0 .. MaxFaults /\ faults <= faults'
    BY <1>4, BoundsAssumption DEF TypeOK, Fault
<1>10. TypeOK'
    <2>1. edits' \in 0 .. MaxEdits
        BY <1>1, <1>2, BoundsAssumption DEF Edits
    <2>2. 1 .. edits \subseteq 1 .. edits'
        BY <1>1, <1>2
    <2>3. /\ stored \in Seq(1 .. edits) /\ pending \in Seq(1 .. edits)
          /\ Len(stored) <= MaxEntries
        BY DEF TypeOK
    <2>4. stored \in Seq(1 .. edits') /\ pending' \in Seq(1 .. edits')
        BY <1>3, <2>2, <2>3, SeqMonotonic
    <2>5. Len(queue') <= MaxEntries
        BY <1>1, <1>3, <1>5, BoundsAssumption
    <2>6. stored' \in Seq(1 .. edits') /\ Len(stored') <= MaxEntries
        BY <1>4, <1>5, <2>3, <2>4, <2>5
    <2>7. {rejected, rejectedWrites, abandoned, direct, midReplay, forgotten}'
              \subseteq SUBSET (1 .. edits')
        BY <1>1, <1>2, <1>3, <2>2 DEF TypeOK
    <2>8. quotaHit' \in BOOLEAN
        BY <1>4, Zenon DEF TypeOK
    <2>9. starting' \in BOOLEAN /\ (replay' = "idle" <=> pending' = <<>>)
        BY <1>3, Zenon DEF TypeOK
    <2>10. /\ mode' \in {"online", "offline"}
           /\ replay' \in {"idle", "sent", "done", "refused"}
           /\ landings' \in [Edits -> Nat]
           /\ reloads' \in 0 .. MaxReloads
        BY <1>2, <1>3 DEF TypeOK
    <2> QED
        BY <1>5, <1>9, <2>1, <2>4, <2>5, <2>6, <2>7, <2>8, <2>9, <2>10 DEF TypeOK
<1>11. Saved'
    BY <1>4 DEF Saved
<1>12. Prefix'
    BY <1>1, <1>3, <1>5 DEF Prefix
<1>13. Behind'
    BY <1>1, <1>3, <1>5 DEF Behind
<1>14. Ordered'
    BY <1>4, <1>5 DEF Ordered
<1>15. Arrivals'
    BY <1>1, <1>2, <1>3 DEF Arrivals
<1>16. Late'
    <2>1. \A d \in abandoned : d \in Nat /\ d <= e
        BY <1>1, <1>2 DEF TypeOK
    <2> QED
        BY <1>1, <1>3, <1>4, <1>5, <2>1 DEF Late
<1>17. Unsent'
    <2>1. faults' = 0 => faults = 0
        BY <1>9
    <2> QED
        BY <1>1, <1>3, <1>5, <1>8, <2>1 DEF Unsent
<1>18. NothingLostUnlessRaced'
    <2>1. Accepted' = Accepted \cup {e}
        BY <1>1, <1>2, <1>3, <1>8 DEF Accepted
    <2>2. quotaHit => quotaHit'
        BY <1>4
    <2> QED
        BY <1>3, <1>7, <2>1, <2>2 DEF NothingLostUnlessRaced, Accounted, Landed
<1>19. QueuedInOrder'
    <2>1. Accepted' = Accepted \cup {e}
        BY <1>1, <1>2, <1>3, <1>8 DEF Accepted
    <2>2. \A d \in Accepted : d < e
        BY <1>1, <1>2 DEF Accepted
    <2>3. quotaHit => quotaHit'
        BY <1>4
    <2> QED
        BY <1>1, <1>2, <1>3, <1>7, <1>8, <2>1, <2>2, <2>3 DEF QueuedInOrder, Landed, Accepted
<1>20. LandsOnce'
    BY <1>3, <1>9 DEF LandsOnce
<1>21. OnlineMeansDrained'
    BY <1>2 DEF OnlineMeansDrained
<1> QED
    BY <1>10, <1>11, <1>12, <1>13, <1>14, <1>15, <1>16, <1>17, <1>18, <1>19, <1>20, <1>21

\* An edit sent at once lands, and is not of those the user was told are queued.
LEMMA EditOnlineKeeps ==
    ASSUME IInv, NEW e \in Edits, EditOnline(e)
    PROVE  IInv'
<1> USE DEF IInv
<1>1. /\ edits \in Nat /\ 1 .. edits \subseteq Edits
      /\ Len(queue) \in Nat
      /\ \A i \in 1 .. Len(queue) : queue[i] \in 1 .. edits
      /\ Len(pending) \in Nat
      /\ replay # "idle" => pending[1] \in 1 .. edits
    BY Entries
<1>2. /\ e = edits + 1 /\ edits' = edits + 1 /\ mode = "online"
      /\ direct' = direct \cup {e}
      /\ landings' = [landings EXCEPT ![e] = @ + 1]
      /\ UNCHANGED <<mode, starting, queue, stored, replay, pending, rejected,
                     rejectedWrites, abandoned, midReplay, forgotten, quotaHit,
                     faults, reloads>>
    BY DEF EditOnline, NewEdit, Land, replayVars, history
<1>3. /\ landings \in [Edits -> Nat] /\ landings' \in [Edits -> Nat]
      /\ landings[e] = 0 /\ landings'[e] = 1
      /\ \A d \in Edits : d # e => landings'[d] = landings[d]
    <2>1. landings \in [Edits -> Nat]
        BY DEF TypeOK
    <2>2. landings[e] = 0
        BY <1>1, <1>2 DEF Arrivals
    <2> QED
        BY <1>2, <2>1, <2>2
<1>4. TypeOK'
    <2>1. edits' \in 0 .. MaxEdits
        BY <1>1, <1>2, BoundsAssumption DEF Edits
    <2>2. 1 .. edits \subseteq 1 .. edits'
        BY <1>1, <1>2
    <2>3. queue \in Seq(1 .. edits) /\ stored \in Seq(1 .. edits) /\ pending \in Seq(1 .. edits)
        BY DEF TypeOK
    <2>4. queue' \in Seq(1 .. edits') /\ stored' \in Seq(1 .. edits') /\ pending' \in Seq(1 .. edits')
        BY <1>2, <2>2, <2>3, SeqMonotonic
    <2>5. {rejected, rejectedWrites, abandoned, direct, midReplay, forgotten}'
              \subseteq SUBSET (1 .. edits')
        BY <1>1, <1>2, <2>2 DEF TypeOK
    <2>6. starting' \in BOOLEAN /\ quotaHit' \in BOOLEAN /\ (replay' = "idle" <=> pending' = <<>>)
        BY <1>2, Zenon DEF TypeOK
    <2>7. /\ Len(queue') <= MaxEntries /\ Len(stored') <= MaxEntries
          /\ mode' \in {"online", "offline"}
          /\ replay' \in {"idle", "sent", "done", "refused"}
          /\ faults' \in 0 .. MaxFaults /\ reloads' \in 0 .. MaxReloads
        BY <1>2 DEF TypeOK
    <2> QED
        BY <1>3, <2>1, <2>4, <2>5, <2>6, <2>7 DEF TypeOK
<1>5. Saved' /\ Prefix' /\ Behind' /\ Ordered' /\ Late' /\ OnlineMeansDrained'
    BY <1>2 DEF Saved, Prefix, Behind, Ordered, Sorted, Late, OnlineMeansDrained
<1>6. Arrivals'
    BY <1>1, <1>2, <1>3 DEF Arrivals
<1>7. \A i \in 1 .. Len(queue) : landings'[queue[i]] = landings[queue[i]]
    BY <1>1, <1>2, <1>3
<1>8. Unsent'
    BY <1>2, <1>7 DEF Unsent
<1>9. Accepted' = Accepted /\ Accepted \subseteq 1 .. edits
    BY <1>1, <1>2 DEF Accepted
<1>10. \A d \in Accepted : Landed(d)' <=> Landed(d)
    BY <1>1, <1>2, <1>3, <1>9 DEF Landed
<1>11. NothingLostUnlessRaced'
    BY <1>2, <1>9, <1>10 DEF NothingLostUnlessRaced, Accounted
<1>12. QueuedInOrder'
    BY <1>2, <1>9, <1>10 DEF QueuedInOrder
<1>13. LandsOnce'
    BY <1>2, <1>3 DEF LandsOnce
<1> QED
    BY <1>4, <1>5, <1>6, <1>8, <1>11, <1>12, <1>13

\* A step that writes nothing and lands nothing: it may begin a replay of the
\* whole queue, or bring the refusal of the entry being sent.
LEMMA QuietKeeps ==
    ASSUME IInv,
           UNCHANGED <<queue, stored, rejected, rejectedWrites, abandoned, landings,
                       edits, direct, midReplay, forgotten, quotaHit, faults, reloads>>,
           mode' \in {"online", "offline"}, starting' \in BOOLEAN,
           \/ replay' = replay /\ pending' = pending
           \/ replay = "idle" /\ replay' = "sent" /\ pending' = queue /\ queue # <<>>
           \/ replay = "sent" /\ replay' = "refused" /\ pending' = pending,
           OnlineMeansDrained'
    PROVE  IInv'
<1> USE DEF IInv
<1>1. /\ edits \in Nat /\ Len(queue) \in Nat
      /\ Len(pending) \in Nat
      /\ queue \in Seq(1 .. edits) /\ pending \in Seq(1 .. edits)
    BY Entries DEF TypeOK
<1>2. TypeOK'
    <2>1. pending' \in Seq(1 .. edits') /\ replay' \in {"idle", "sent", "done", "refused"}
        BY <1>1 DEF TypeOK
    <2>2. replay' = "idle" <=> pending' = <<>>
        BY DEF TypeOK
    <2>3. quotaHit' \in BOOLEAN
        BY Zenon DEF TypeOK
    <2>4. {rejected, rejectedWrites, abandoned, direct, midReplay, forgotten}'
              \subseteq SUBSET (1 .. edits')
        BY DEF TypeOK
    <2>5. /\ queue' \in Seq(1 .. edits') /\ Len(queue') <= MaxEntries
          /\ stored' \in Seq(1 .. edits') /\ Len(stored') <= MaxEntries
          /\ landings' \in [Edits -> Nat] /\ edits' \in 0 .. MaxEdits
          /\ faults' \in 0 .. MaxFaults /\ reloads' \in 0 .. MaxReloads
        BY DEF TypeOK
    <2> QED
        BY <2>1, <2>2, <2>3, <2>4, <2>5 DEF TypeOK
<1>3. Saved' /\ Ordered' /\ Late'
    BY DEF Saved, Ordered, Sorted, Late
<1>4. Prefix'
    BY <1>1 DEF Prefix
<1>5. Behind'
    BY <1>1 DEF Behind
<1>6. Arrivals'
    BY DEF Arrivals
<1>7. Unsent'
    BY DEF Unsent
<1>8. NothingLostUnlessRaced'
    BY DEF NothingLostUnlessRaced, Accepted, Accounted, Landed
<1>9. QueuedInOrder' /\ LandsOnce'
    BY DEF QueuedInOrder, LandsOnce, Accepted, Landed
<1> QED
    BY <1>2, <1>3, <1>4, <1>5, <1>6, <1>7, <1>8, <1>9

\* The flush begins a replay where the queue is not empty in Online mode.
LEMMA FlushKeeps ==
    ASSUME IInv, NEW m, m \in {"online", "offline"}, mode' = m, Flush(m),
           starting' \in BOOLEAN,
           UNCHANGED <<queue, stored, rejected, rejectedWrites, landings, edits,
                       direct, midReplay, forgotten, quotaHit, faults, reloads>>
    PROVE  IInv'
<1>1. /\ abandoned' = abandoned
      /\ \/ replay' = replay /\ pending' = pending
         \/ replay = "idle" /\ replay' = "sent" /\ pending' = queue /\ queue # <<>>
      /\ mode' = "online" /\ queue # <<>> => replay' # "idle"
    BY DEF Flush
<1>2. OnlineMeansDrained'
    BY <1>1 DEF OnlineMeansDrained
<1> QED
    BY <1>1, <1>2, QuietKeeps

\* A reload brings back what localStorage holds, and gives the replay's request
\* up; what it sends is the oldest entry.
LEMMA ReloadKeeps ==
    ASSUME IInv, Reload
    PROVE  IInv'
<1> USE DEF IInv
<1>1. /\ edits \in Nat /\ Len(queue) \in Nat
      /\ \A i \in 1 .. Len(queue) : queue[i] \in 1 .. edits
      /\ replay # "idle" => Len(queue) > 0 /\ Head(pending) = queue[1]
    BY Entries
<1>2. /\ queue' = stored /\ replay' = "idle" /\ pending' = <<>>
      /\ rejected' = {} /\ rejectedWrites' = {}
      /\ forgotten' = forgotten \cup rejected \cup rejectedWrites
      /\ starting' = TRUE
      /\ reloads' = reloads + 1 /\ reloads < MaxReloads
      /\ \/ abandoned' = abandoned
         \/ replay = "sent" /\ abandoned' = abandoned \cup {Head(pending)}
      /\ UNCHANGED <<mode, stored, landings, edits, direct, midReplay, quotaHit, faults>>
    BY DEF Reload
<1>3. /\ reloads' \in 0 .. MaxReloads /\ reloads' > 0
      /\ <<>> \in Seq(1 .. edits) /\ Len(<<>>) = 0
      /\ Len(stored) \in Nat
    <2>1. /\ reloads \in 0 .. MaxReloads /\ MaxReloads \in Nat
          /\ stored \in Seq(1 .. edits)
        BY BoundsAssumption DEF TypeOK
    <2>2. Len(stored) \in Nat
        BY <2>1, LenProperties
    <2> QED
        BY <1>2, <2>1, <2>2, EmptySeq
<1>4. TypeOK'
    <2>1. /\ queue' \in Seq(1 .. edits') /\ Len(queue') <= MaxEntries
          /\ stored' \in Seq(1 .. edits') /\ Len(stored') <= MaxEntries
          /\ pending' \in Seq(1 .. edits')
          /\ replay' \in {"idle", "sent", "done", "refused"}
        BY <1>2, <1>3 DEF TypeOK
    <2>2. replay = "sent" => Head(pending) \in 1 .. edits
        BY <1>1
    <2>3. {rejected, rejectedWrites, abandoned, direct, midReplay, forgotten}'
              \subseteq SUBSET (1 .. edits')
        BY <1>2, <2>2 DEF TypeOK
    <2>4. starting' \in BOOLEAN /\ quotaHit' \in BOOLEAN /\ (replay' = "idle" <=> pending' = <<>>)
        BY <1>2, Zenon DEF TypeOK
    <2>5. /\ mode' \in {"online", "offline"}
          /\ landings' \in [Edits -> Nat]
          /\ edits' \in 0 .. MaxEdits /\ faults' \in 0 .. MaxFaults
        BY <1>2 DEF TypeOK
    <2> QED
        BY <1>3, <2>1, <2>3, <2>4, <2>5 DEF TypeOK
<1>5. Saved' /\ Behind' /\ Ordered' /\ OnlineMeansDrained'
    BY <1>2 DEF Saved, Behind, Ordered, Sorted, OnlineMeansDrained
<1>6. Prefix'
    BY <1>2, <1>3 DEF Prefix
<1>7. Arrivals'
    BY <1>2 DEF Arrivals
<1>8. Late'
    <2>1. ASSUME replay # "idle"
          PROVE  \A i \in 1 .. Len(queue) : Head(pending) <= queue[i]
        <3>1. 1 \in 1 .. Len(queue)
            BY <1>1, <2>1
        <3>2. \A i \in 1 .. Len(queue) : i = 1 \/ 1 < i
            BY <1>1
        <3> QED
            BY <1>1, <2>1, <3>1, <3>2 DEF Ordered, Sorted
    <2>2. quotaHit' \/ queue' = queue
        BY <1>2 DEF Saved
    <2> QED
        BY <1>2, <2>1, <2>2 DEF Late
<1>9. Unsent' /\ LandsOnce'
    BY <1>3 DEF Unsent, LandsOnce
<1>10. NothingLostUnlessRaced'
    BY <1>2 DEF NothingLostUnlessRaced, Saved, Accepted, Accounted, Landed
<1>11. QueuedInOrder'
    BY <1>2 DEF QueuedInOrder, Saved, Accepted, Landed
<1> QED
    BY <1>4, <1>5, <1>6, <1>7, <1>8, <1>9, <1>10, <1>11

\* An edit that lands without being newer than anything queued keeps the order.
LEMMA LandingKeeps ==
    ASSUME IInv, NEW e \in 1 .. edits, landings' = [landings EXCEPT ![e] = @ + 1],
           quotaHit \/ \A i \in 1 .. Len(queue) : e <= queue[i],
           UNCHANGED <<queue, rejected, rejectedWrites, edits, direct, midReplay,
                       forgotten, quotaHit>>
    PROVE  /\ landings' \in [Edits -> Nat] /\ landings'[e] = landings[e] + 1
           /\ landings[e] \in Nat
           /\ \A d \in Edits : d # e => landings'[d] = landings[d]
           /\ NothingLostUnlessRaced'
           /\ QueuedInOrder'
<1> USE DEF IInv
<1>1. /\ edits \in Nat /\ 1 .. edits \subseteq Edits
      /\ Len(queue) \in Nat
      /\ \A i \in 1 .. Len(queue) : queue[i] \in 1 .. edits
      /\ \A x : x \in ToSet(queue) <=> \E i \in 1 .. Len(queue) : queue[i] = x
    BY Entries
<1>2. /\ landings \in [Edits -> Nat] /\ landings' \in [Edits -> Nat]
      /\ landings'[e] = landings[e] + 1 /\ landings[e] \in Nat
      /\ \A d \in Edits : d # e => landings'[d] = landings[d]
    <2>1. landings \in [Edits -> Nat] /\ e \in Edits
        BY <1>1 DEF TypeOK
    <2> QED
        BY <2>1
<1>3. Accepted' = Accepted /\ Accepted \subseteq 1 .. edits
    BY DEF Accepted
<1>4. \A d \in Accepted : (Landed(d) => Landed(d)') /\ (Landed(d)' => Landed(d) \/ d = e)
    BY <1>1, <1>2, <1>3 DEF Landed
<1>5. NothingLostUnlessRaced'
    BY <1>3, <1>4 DEF NothingLostUnlessRaced, Accounted
<1>6. quotaHit \/ \A d \in Accepted : d < e => d \notin ToSet(queue)
    BY <1>1, <1>3
<1>7. QueuedInOrder'
    BY <1>3, <1>4, <1>6 DEF QueuedInOrder
<1> QED
    BY <1>2, <1>5, <1>7

\* The server carries out the request of the replay: the oldest entry's.
LEMMA ServerAcceptsKeeps ==
    ASSUME IInv, ServerAccepts
    PROVE  IInv'
<1> USE DEF IInv
<1>1. /\ edits \in Nat /\ 1 .. edits \subseteq Edits
      /\ Len(queue) \in Nat /\ Len(queue) > 0
      /\ \A i \in 1 .. Len(queue) : queue[i] \in 1 .. edits
      /\ pending[1] = queue[1] /\ Head(pending) = queue[1]
    BY Entries DEF ServerAccepts
<1> DEFINE e == queue[1]
<1>2. /\ replay = "sent" /\ replay' = "done"
      /\ landings' = [landings EXCEPT ![e] = @ + 1]
      /\ UNCHANGED <<mode, starting, queue, stored, pending, rejected, rejectedWrites,
                     abandoned, edits, direct, midReplay, forgotten, quotaHit, faults,
                     reloads>>
    BY <1>1 DEF ServerAccepts, Land, history
<1>3. /\ 1 \in 1 .. Len(queue) /\ e \in 1 .. edits
      /\ \A i \in 1 .. Len(queue) : i = 1 \/ e < queue[i]
    BY <1>1 DEF Ordered, Sorted
<1>4. \A i \in 1 .. Len(queue) : e <= queue[i]
    BY <1>1, <1>3
<1> HIDE DEF e
<1>5. /\ landings' \in [Edits -> Nat] /\ landings'[e] = landings[e] + 1
      /\ landings[e] \in Nat
      /\ \A d \in Edits : d # e => landings'[d] = landings[d]
      /\ NothingLostUnlessRaced'
      /\ QueuedInOrder'
    BY <1>2, <1>3, <1>4, LandingKeeps
<1>6. TypeOK'
    <2>1. starting' \in BOOLEAN /\ quotaHit' \in BOOLEAN
        BY <1>2, Zenon DEF TypeOK
    <2>2. replay' = "idle" <=> pending' = <<>>
        BY <1>2 DEF TypeOK
    <2>3. /\ queue' \in Seq(1 .. edits') /\ Len(queue') <= MaxEntries
          /\ stored' \in Seq(1 .. edits') /\ Len(stored') <= MaxEntries
          /\ pending' \in Seq(1 .. edits')
          /\ {rejected, rejectedWrites, abandoned, direct, midReplay, forgotten}'
                  \subseteq SUBSET (1 .. edits')
        BY <1>2 DEF TypeOK
    <2>4. /\ mode' \in {"online", "offline"}
          /\ replay' \in {"idle", "sent", "done", "refused"}
          /\ edits' \in 0 .. MaxEdits /\ faults' \in 0 .. MaxFaults
          /\ reloads' \in 0 .. MaxReloads
        BY <1>2 DEF TypeOK
    <2> QED
        BY <1>5, <2>1, <2>2, <2>3, <2>4 DEF TypeOK
<1>7. Saved' /\ Prefix' /\ Behind' /\ Ordered' /\ Late' /\ OnlineMeansDrained'
    BY <1>2 DEF Saved, Prefix, Behind, Ordered, Sorted, Late, OnlineMeansDrained
<1>8. Arrivals'
    BY <1>1, <1>2, <1>3, <1>5 DEF Arrivals, e
<1>9. faults = 0 /\ reloads = 0 => landings[e] = 0
    BY <1>2, <1>3, <1>5 DEF Unsent, e
<1>10. \A i \in 1 .. Len(queue) : i # 1 => landings'[queue[i]] = landings[queue[i]]
    BY <1>1, <1>3, <1>5
<1>11. Unsent'
    BY <1>2, <1>10 DEF Unsent
<1>12. LandsOnce'
    <2>1. ASSUME faults = 0, reloads = 0, NEW d \in Edits
          PROVE  landings'[d] <= 1
        <3>1. CASE d = e
            BY <1>5, <1>9, <2>1, <3>1
        <3>2. CASE d # e
            BY <1>5, <2>1, <3>2 DEF LandsOnce
        <3> QED
            BY <3>1, <3>2
    <2>2. faults \in Nat /\ reloads \in Nat
        BY BoundsAssumption DEF TypeOK
    <2> QED
        BY <1>2, <2>1, <2>2 DEF LandsOnce
<1> QED
    BY <1>5, <1>6, <1>7, <1>8, <1>11, <1>12

\* A request given up lands late: the order still holds, as it is no younger
\* than the queue.
LEMMA ServerAcceptsLateKeeps ==
    ASSUME IInv, NEW e \in Edits, ServerAcceptsLate(e)
    PROVE  IInv'
<1> USE DEF IInv
<1>1. /\ edits \in Nat /\ 1 .. edits \subseteq Edits
      /\ Len(queue) \in Nat
      /\ \A i \in 1 .. Len(queue) : queue[i] \in 1 .. edits
      /\ replay # "idle" => pending[1] \in 1 .. edits
    BY Entries
<1>2. /\ e \in abandoned /\ abandoned' = abandoned \ {e}
      /\ landings' = [landings EXCEPT ![e] = @ + 1]
      /\ UNCHANGED <<mode, starting, queue, stored, replay, pending, rejected,
                     rejectedWrites, edits, direct, midReplay, forgotten, quotaHit,
                     faults, reloads>>
    BY DEF ServerAcceptsLate, Land, history, replayVars
<1>3. e \in 1 .. edits
    BY <1>2 DEF TypeOK
<1>4. quotaHit \/ \A i \in 1 .. Len(queue) : e <= queue[i]
    BY <1>2 DEF Late
<1>5. /\ landings' \in [Edits -> Nat] /\ landings'[e] = landings[e] + 1
      /\ landings[e] \in Nat
      /\ \A d \in Edits : d # e => landings'[d] = landings[d]
      /\ NothingLostUnlessRaced'
      /\ QueuedInOrder'
    BY <1>2, <1>3, <1>4, LandingKeeps
<1>6. TypeOK'
    <2>1. starting' \in BOOLEAN /\ quotaHit' \in BOOLEAN /\ (replay' = "idle" <=> pending' = <<>>)
        BY <1>2, Zenon DEF TypeOK
    <2>2. /\ queue' \in Seq(1 .. edits') /\ Len(queue') <= MaxEntries
          /\ stored' \in Seq(1 .. edits') /\ Len(stored') <= MaxEntries
          /\ pending' \in Seq(1 .. edits')
        BY <1>2 DEF TypeOK
    <2>3. {rejected, rejectedWrites, abandoned, direct, midReplay, forgotten}'
              \subseteq SUBSET (1 .. edits')
        BY <1>2 DEF TypeOK
    <2>4. /\ mode' \in {"online", "offline"}
          /\ replay' \in {"idle", "sent", "done", "refused"}
          /\ edits' \in 0 .. MaxEdits /\ faults' \in 0 .. MaxFaults
          /\ reloads' \in 0 .. MaxReloads
        BY <1>2 DEF TypeOK
    <2> QED
        BY <1>5, <2>1, <2>2, <2>3, <2>4 DEF TypeOK
<1>7. Saved' /\ Prefix' /\ Behind' /\ Ordered' /\ Late' /\ OnlineMeansDrained'
    BY <1>2 DEF Saved, Prefix, Behind, Ordered, Sorted, Late, OnlineMeansDrained
<1>8. Arrivals'
    BY <1>1, <1>2, <1>3, <1>5 DEF Arrivals
<1>9. ~(faults = 0 /\ reloads = 0) /\ (faults > 0 \/ reloads > 0)
    BY <1>2, BoundsAssumption DEF Unsent, TypeOK
<1>10. Unsent' /\ LandsOnce'
    BY <1>2, <1>9 DEF Unsent, LandsOnce
<1> QED
    BY <1>5, <1>6, <1>7, <1>8, <1>10

\* An answer takes the oldest entry, which has landed or was refused, out of the
\* queue, with whatever was queued during the replay.
LEMMA AnswerKeeps ==
    ASSUME IInv, Answer
    PROVE  IInv'
<1> USE DEF IInv
<1>1. /\ edits \in Nat /\ 1 .. edits \subseteq Edits
      /\ Len(queue) \in Nat /\ Len(queue) > 0
      /\ \A i \in 1 .. Len(queue) : queue[i] \in 1 .. edits
      /\ \A x : x \in ToSet(queue) <=> \E i \in 1 .. Len(queue) : queue[i] = x
      /\ Len(pending) > 0
      /\ pending[1] = queue[1] /\ Head(pending) = queue[1]
    BY Entries DEF Answer
<1> DEFINE rest == Tail(pending)
<1>2. /\ replay \in {"done", "refused"}
      /\ queue' = rest /\ pending' = rest
      /\ replay' = IF rest = <<>> THEN "idle" ELSE "sent"
      /\ \/ stored' = rest /\ quotaHit' = quotaHit /\ faults' = faults
         \/ Fault /\ quotaHit' = TRUE /\ stored' = stored
      /\ UNCHANGED <<mode, starting, abandoned, landings, edits, direct, midReplay,
                     forgotten, reloads>>
    BY DEF Answer, NextEntry, Persist, history
<1>3. /\ rejected' \cup rejectedWrites'
            = rejected \cup rejectedWrites
                \cup (IF replay = "refused" THEN {queue[1]} ELSE {})
      /\ rejected' \subseteq 1 .. edits /\ rejectedWrites' \subseteq 1 .. edits
    <2> DEFINE all == IF replay = "refused" THEN rejected \cup {queue[1]} ELSE rejected
    <2>1. IF replay' = "idle"
          THEN rejected' = {} /\ rejectedWrites' = rejectedWrites \cup all
          ELSE rejected' = all /\ rejectedWrites' = rejectedWrites
        BY <1>1 DEF Answer
    <2>2. all \subseteq 1 .. edits /\ rejectedWrites \subseteq 1 .. edits
        <3>1. rejected \subseteq 1 .. edits /\ rejectedWrites \subseteq 1 .. edits
            BY DEF TypeOK
        <3>2. queue[1] \in 1 .. edits
            BY <1>1
        <3> QED
            BY <3>1, <3>2
    <2> QED
        BY <2>1, <2>2
<1>4. pending # <<>> /\ pending \in Seq(1 .. edits)
    BY <1>2 DEF TypeOK
<1>5. /\ rest \in Seq(1 .. edits)
      /\ Len(pending) \in Nat \ {0} /\ Len(rest) = Len(pending) - 1
      /\ \A i \in 1 .. Len(rest) : i + 1 \in 1 .. Len(pending) /\ rest[i] = pending[i + 1]
    BY <1>1, <1>4, Rest
<1>6. \A i \in 1 .. Len(rest) : i + 1 \in 1 .. Len(queue) /\ rest[i] = queue[i + 1]
    BY <1>1, <1>5 DEF Prefix
<1>7. \A x : x \in ToSet(rest) <=> \E i \in 1 .. Len(rest) : rest[i] = x
    BY <1>5, Members
<1>8. ToSet(rest) \subseteq ToSet(queue)
    BY <1>1, <1>6, <1>7
<1>9. Len(rest) <= MaxEntries /\ Len(rest) \in Nat
    BY <1>1, <1>5, BoundsAssumption DEF Prefix, TypeOK
<1>10. Sorted(rest)
    BY <1>5, <1>6, <1>9 DEF Ordered, Sorted
<1>11. faults \in Nat /\ faults' \in 0 .. MaxFaults /\ faults' \in Nat /\ faults <= faults'
    <2>1. faults \in 0 .. MaxFaults /\ MaxFaults \in Nat
        BY BoundsAssumption DEF TypeOK
    <2>2. faults' = faults \/ Fault
        BY DEF Answer, NextEntry, Persist
    <2>3. faults' = faults \/ (faults < MaxFaults /\ faults' = faults + 1)
        BY <2>2 DEF Fault
    <2> QED
        BY <2>1, <2>3
<1> HIDE DEF rest
<1>12. TypeOK'
    <2>1. stored' \in Seq(1 .. edits') /\ Len(stored') <= MaxEntries
        BY <1>2, <1>5, <1>9 DEF TypeOK
    <2>2. quotaHit' \in BOOLEAN
        BY <1>2, Zenon DEF TypeOK
    <2>3. starting' \in BOOLEAN
        BY <1>2, Zenon DEF TypeOK
    <2>4. {rejected, rejectedWrites, abandoned, direct, midReplay, forgotten}'
              \subseteq SUBSET (1 .. edits')
        BY <1>2, <1>3 DEF TypeOK
    <2>5. (replay' = "idle" <=> pending' = <<>>) /\ replay' \in {"idle", "sent", "done", "refused"}
        BY <1>2
    <2>6. /\ mode' \in {"online", "offline"}
          /\ landings' \in [Edits -> Nat]
          /\ edits' \in 0 .. MaxEdits /\ reloads' \in 0 .. MaxReloads
        BY <1>2 DEF TypeOK
    <2> QED
        BY <1>2, <1>5, <1>9, <1>11, <2>1, <2>2, <2>3, <2>4, <2>5, <2>6 DEF TypeOK
<1>13. Saved'
    BY <1>2 DEF Saved
<1>14. Prefix' /\ Behind'
    BY <1>2, <1>9 DEF Prefix, Behind
<1>15. Ordered'
    BY <1>2, <1>10 DEF Ordered
<1>16. Arrivals'
    BY <1>2 DEF Arrivals
<1>17. Late'
    BY <1>2, <1>6 DEF Late
<1>18. Unsent'
    <2>1. faults' = 0 => faults = 0
        BY <1>11
    <2>2. \A i \in 1 .. Len(rest) : i + 1 # 1
        BY <1>9
    <2> QED
        BY <1>2, <1>6, <2>1, <2>2 DEF Unsent
<1>19. \A x \in ToSet(queue) :
          \/ x \in ToSet(rest)
          \/ x \in midReplay
          \/ x = queue[1] /\ (Landed(x) \/ replay = "refused")
    <2> SUFFICES ASSUME NEW i \in 1 .. Len(queue)
                 PROVE  \/ queue[i] \in ToSet(rest)
                        \/ queue[i] \in midReplay
                        \/ i = 1 /\ (Landed(queue[1]) \/ replay = "refused")
        BY <1>1
    <2>1. CASE i > Len(pending)
        BY <1>2, <2>1 DEF Behind
    <2>2. CASE i = 1
        BY <1>1, <1>2, <2>2 DEF Arrivals, Landed
    <2>3. CASE i # 1 /\ i <= Len(pending)
        <3>1. i - 1 \in 1 .. Len(rest) /\ (i - 1) + 1 = i
            BY <1>1, <1>5, <2>3
        <3> QED
            BY <1>6, <1>7, <3>1
    <2> QED
        BY <1>1, <1>5, <2>1, <2>2, <2>3
<1>20. NothingLostUnlessRaced'
    <2>1. Accepted' = Accepted /\ \A x \in Accepted : Landed(x)' <=> Landed(x)
        BY <1>2 DEF Accepted, Landed
    <2>2. quotaHit => quotaHit'
        BY <1>2
    <2> SUFFICES ASSUME ~quotaHit, NEW x \in Accepted
                 PROVE  Accounted(x)' \/ x \in midReplay
        BY <1>2, <2>1, <2>2 DEF NothingLostUnlessRaced
    <2>3. Accounted(x) \/ x \in midReplay
        BY DEF NothingLostUnlessRaced
    <2> QED
        BY <1>2, <1>3, <1>19, <2>1, <2>3 DEF Accounted
<1>21. QueuedInOrder'
    <2>1. Accepted' = Accepted /\ \A x \in Accepted : Landed(x)' <=> Landed(x)
        BY <1>2 DEF Accepted, Landed
    <2>2. quotaHit => quotaHit'
        BY <1>2
    <2> QED
        BY <1>2, <1>8, <2>1, <2>2 DEF QueuedInOrder
<1>22. LandsOnce'
    BY <1>2, <1>11 DEF LandsOnce
<1>23. OnlineMeansDrained'
    BY <1>2 DEF OnlineMeansDrained
<1> QED
    BY <1>12, <1>13, <1>14, <1>15, <1>16, <1>17, <1>18, <1>20, <1>21, <1>22, <1>23

\* A replay that breaks off leaves the queue, and may leave its request under way.
LEMMA BreakKeeps ==
    ASSUME IInv, Break
    PROVE  IInv'
<1> USE DEF IInv
<1>1. /\ edits \in Nat /\ Len(queue) \in Nat
      /\ \A i \in 1 .. Len(queue) : queue[i] \in 1 .. edits
      /\ Len(queue) > 0 /\ Head(pending) = queue[1]
    BY Entries DEF Break
<1>2. /\ replay' = "idle" /\ pending' = <<>>
      /\ rejected' = {} /\ rejectedWrites' = rejectedWrites \cup rejected
      /\ faults < MaxFaults /\ faults' = faults + 1
      /\ \/ abandoned' = abandoned
         \/ abandoned' = abandoned \cup {Head(pending)}
      /\ UNCHANGED <<mode, starting, queue, stored, landings, edits, direct, midReplay,
                     forgotten, quotaHit, reloads>>
    BY DEF Break, Fault, history
<1>3. /\ faults' \in 0 .. MaxFaults /\ faults' > 0
      /\ <<>> \in Seq(1 .. edits) /\ Len(<<>>) = 0
    <2>1. faults \in 0 .. MaxFaults /\ MaxFaults \in Nat
        BY BoundsAssumption DEF TypeOK
    <2> QED
        BY <1>2, <2>1, EmptySeq
<1>4. 1 \in 1 .. Len(queue) /\ \A i \in 1 .. Len(queue) : i = 1 \/ 1 < i
    BY <1>1
<1>5. TypeOK'
    <2>1. {rejected, rejectedWrites, abandoned, direct, midReplay, forgotten}'
              \subseteq SUBSET (1 .. edits')
        BY <1>1, <1>2, <1>4 DEF TypeOK
    <2>2. starting' \in BOOLEAN /\ quotaHit' \in BOOLEAN /\ (replay' = "idle" <=> pending' = <<>>)
        BY <1>2, Zenon DEF TypeOK
    <2>3. /\ queue' \in Seq(1 .. edits') /\ Len(queue') <= MaxEntries
          /\ stored' \in Seq(1 .. edits') /\ Len(stored') <= MaxEntries
          /\ pending' \in Seq(1 .. edits')
          /\ replay' \in {"idle", "sent", "done", "refused"}
        BY <1>2, <1>3 DEF TypeOK
    <2>4. /\ mode' \in {"online", "offline"}
          /\ landings' \in [Edits -> Nat]
          /\ edits' \in 0 .. MaxEdits /\ reloads' \in 0 .. MaxReloads
        BY <1>2 DEF TypeOK
    <2> QED
        BY <1>3, <2>1, <2>2, <2>3, <2>4 DEF TypeOK
<1>6. Saved' /\ Behind' /\ Ordered' /\ Arrivals'
    BY <1>2 DEF Saved, Behind, Ordered, Sorted, Arrivals
<1>7. Prefix'
    BY <1>1, <1>2, <1>3 DEF Prefix
<1>8. Late'
    <2>1. \A i \in 1 .. Len(queue) : Head(pending) <= queue[i]
        BY <1>1, <1>4 DEF Ordered, Sorted
    <2> QED
        BY <1>2, <2>1 DEF Late
<1>9. Unsent' /\ LandsOnce' /\ OnlineMeansDrained'
    BY <1>3 DEF Unsent, LandsOnce, OnlineMeansDrained
<1>10. NothingLostUnlessRaced'
    BY <1>2 DEF NothingLostUnlessRaced, Accepted, Accounted, Landed
<1>11. QueuedInOrder'
    BY <1>2 DEF QueuedInOrder, Accepted, Landed
<1> QED
    BY <1>5, <1>6, <1>7, <1>8, <1>9, <1>10, <1>11

LEMMA Steps == IInv /\ [Next]_vars => IInv'
<1> SUFFICES ASSUME IInv, [Next]_vars PROVE IInv'
    OBVIOUS
<1>0. mode \in {"online", "offline"} /\ starting \in BOOLEAN
    BY DEF IInv, TypeOK
<1>1. ASSUME NEW e \in Edits, EditOffline(e) PROVE IInv'
    BY <1>1, EditOfflineKeeps
<1>2. ASSUME NEW e \in Edits, EditOnline(e) PROVE IInv'
    BY <1>2, EditOnlineKeeps
<1>3. CASE GoOffline
    <2>1. OnlineMeansDrained'
        BY <1>3 DEF GoOffline, OnlineMeansDrained
    <2> QED
        BY <1>0, <1>3, <2>1, QuietKeeps DEF GoOffline, replayVars, history
<1>4. CASE GoOnline
    BY <1>0, <1>4, FlushKeeps DEF GoOnline, history
<1>5. CASE BrowserOnline
    BY <1>0, <1>5, FlushKeeps DEF BrowserOnline, history
<1>6. CASE StartupFlush
    BY <1>0, <1>6, FlushKeeps DEF StartupFlush, history
<1>7. CASE Reload
    BY <1>7, ReloadKeeps
<1>8. CASE ServerAccepts
    BY <1>8, ServerAcceptsKeeps
<1>9. CASE ServerRefuses
    <2>1. OnlineMeansDrained'
        BY <1>9 DEF ServerRefuses, OnlineMeansDrained
    <2> QED
        BY <1>0, <1>9, <2>1, QuietKeeps DEF ServerRefuses, history
<1>10. ASSUME NEW e \in Edits, ServerAcceptsLate(e) PROVE IInv'
    BY <1>10, ServerAcceptsLateKeeps
<1>11. CASE Answer
    BY <1>11, AnswerKeeps
<1>12. CASE Break
    BY <1>12, BreakKeeps
<1>13. CASE UNCHANGED vars
    <2>1. OnlineMeansDrained'
        BY <1>13 DEF vars, replayVars, IInv, OnlineMeansDrained
    <2> QED
        BY <1>0, <1>13, <2>1, QuietKeeps DEF vars, replayVars, history
<1> QED
    BY <1>1, <1>2, <1>3, <1>4, <1>5, <1>6, <1>7, <1>8, <1>9, <1>10, <1>11, <1>12, <1>13
    DEF Next, User, Network

-----------------------------------------------------------------------------
(* Theorems. *)

\* The inductive invariant of the queue and its replay, whatever is edited,
\* fails or is reloaded.
THEOREM Invariance == Spec => []IInv
<1> QED
    BY Initial, Steps, PTL DEF Spec

\* Every variable keeps its type, and the queue its limit (writeQueue.ts).
THEOREM TypeCorrect == Spec => []TypeOK
<1>1. IInv => TypeOK
    BY DEF IInv
<1> QED
    BY <1>1, Invariance, PTL

\* An edit the user was told is queued is never lost, unless it was made during
\* a replay or localStorage has refused a write (enqueueWrite, replayWriteQueue).
THEOREM NothingLostButRaced == Spec => []NothingLostUnlessRaced
<1>1. IInv => NothingLostUnlessRaced
    BY DEF IInv
<1> QED
    BY <1>1, Invariance, PTL

\* No edit lands over a younger one but as a request given up before
\* (replayWriteQueue), through retries, late arrivals and reloads: what is sent is
\* the head of the queue, and nothing behind it has landed.
THEOREM InOrder == Spec => LandsInOrderUnlessLate
<1>1. ASSUME IInv, [Next]_vars, ~quotaHit, NEW d \in Accepted, NEW e \in Accepted,
             d < e, Landed(e), landings'[d] # landings[d]
      PROVE  d \in abandoned \ abandoned'
    <2>1. /\ d \in Edits
          /\ landings \in [Edits -> Nat]
          /\ d \in 1 .. edits
        BY <1>1, BoundsAssumption DEF IInv, TypeOK, Accepted, Edits
    <2>2. CASE ServerAccepts
        <3>1. d = Head(pending)
            BY <1>1, <2>1, <2>2 DEF ServerAccepts, Land
        <3>2. /\ pending # <<>> /\ pending \in Seq(1 .. edits) /\ edits \in Nat
              /\ queue \in Seq(1 .. edits)
            BY <1>1, <2>2 DEF IInv, TypeOK, ServerAccepts
        <3>3. Head(pending) = pending[1] /\ Len(pending) \in Nat \ {0}
            BY <3>2, Rest
        <3>4. 1 \in 1 .. Len(queue) /\ queue[1] = d
            BY <1>1, <3>1, <3>2, <3>3 DEF IInv, Prefix
        <3>5. d \in ToSet(queue)
            BY <3>2, <3>4, Members
        <3> QED
            BY <1>1, <3>5 DEF IInv, QueuedInOrder
    <2>3. ASSUME NEW f \in Edits, ServerAcceptsLate(f) PROVE d \in abandoned \ abandoned'
        BY <1>1, <2>1, <2>3 DEF ServerAcceptsLate, Land
    <2>4. ASSUME NEW f \in Edits, EditOnline(f) PROVE FALSE
        BY <1>1, <2>1, <2>4 DEF EditOnline, NewEdit, Land, IInv, TypeOK
    <2>5. CASE UNCHANGED landings
        BY <1>1, <2>5
    <2>6. ServerAccepts \/ UNCHANGED landings
          \/ \E f \in Edits : ServerAcceptsLate(f) \/ EditOnline(f)
        BY <1>1 DEF Next, User, Network, vars, EditOffline, GoOffline, GoOnline, BrowserOnline,
                    Reload, ServerRefuses, Break, StartupFlush, Answer
    <2> QED
        BY <2>2, <2>3, <2>4, <2>5, <2>6
<1>2. IInv /\ [Next]_vars => [quotaHit \/ \A d, e \in Accepted :
          d < e /\ Landed(e) /\ landings'[d] # landings[d]
             => d \in abandoned \ abandoned']_vars
    BY <1>1
<1> QED
    BY <1>2, Invariance, PTL DEF Spec, LandsInOrderUnlessLate

\* Without a failure or a reload no edit is carried out twice (flushQueuedWrites
\* returns while a replay is under way).
THEOREM Once == Spec => []LandsOnce
<1>1. IInv => LandsOnce
    BY DEF IInv
<1> QED
    BY <1>1, Invariance, PTL

\* In Online mode nothing waits in the queue without a replay, a flush to come
\* or a failure (setConnectionMode, initializeOfflineSupport).
THEOREM Drained == Spec => []OnlineMeansDrained
<1>1. IInv => OnlineMeansDrained
    BY DEF IInv
<1> QED
    BY <1>1, Invariance, PTL
=============================================================================
