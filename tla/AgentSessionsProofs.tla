------------------------- MODULE AgentSessionsProofs -------------------------
(***************************************************************************)
(* Proofs about AgentSessions, for any number of windows, turns,           *)
(* iterations, nudges and tool calls.                                      *)
(***************************************************************************)
EXTENDS AgentSessions, SequenceTheorems, TLAPS

\* The turn has its copy of the messages.
Looping(t) == pc[t] \in {"top", "asking", "calling", "saving"}

Last(t) == messages[t][Len(messages[t])]

\* How the loop's step and the end of its list go together.
Works(t) ==
    /\ Under(t) => owner[t] \in Windows
    /\ Looping(t) => Len(messages[t]) > 0
    /\ pc[t] = "calling" =>
          Last(t).kind = "tools" /\ Last(t).turn = t /\ results[t] < Last(t).n
    /\ pc[t] = "saving" /\ ~reported[t] => Last(t) = Message(t, "answer")

\* In q the calls of tools up to the n-th message have their results, but for
\* those of the turns in C.
PairedTo(q, n, C) ==
    \A i \in 1..n :
        q[i].kind = "tools" /\ q[i].turn \notin C =>
            /\ i < Len(q)
            /\ q[i + 1] = [q[i] EXCEPT !.kind = "results"]

\* The turn's list is paired as the row is, up to the calls that are being made.
Pairs(t) ==
    /\ pc[t] \in {"top", "asking", "saving"} =>
          PairedTo(messages[t], Len(messages[t]), cut)
    /\ pc[t] = "calling" => PairedTo(messages[t], Len(messages[t]) - 1, cut)

RowPaired == PairedTo(session, Len(session), cut)

\* Where turns are not crowded one is under way at a time, and its list begins
\* with the row.
OneTurn == ~crowded => \A t, u \in Turns : Under(t) /\ Under(u) => t = u

Extends(q, s) == Len(s) <= Len(q) /\ \A i \in 1..Len(s) : q[i] = s[i]

Prefixed(t) == ~crowded /\ ~deleted /\ Looping(t) => Extends(messages[t], session)

IInv ==
    /\ TypeOK /\ RowPaired /\ OneTurn
    /\ \A t \in Turns : Works(t) /\ Pairs(t) /\ Prefixed(t)

-----------------------------------------------------------------------------
(* What a push does to a list. *)

LEMMA PushOne ==
    ASSUME TypeOK, NEW t \in Turns, NEW m \in MessageType, Push(t, m)
    PROVE  /\ messages' \in [Turns -> Seq(MessageType)]
           /\ \A u \in Turns \ {t} : messages'[u] = messages[u]
           /\ Len(messages'[t]) = Len(messages[t]) + 1
           /\ messages'[t][Len(messages[t]) + 1] = m
           /\ Extends(messages'[t], messages[t])
<1>1. messages[t] \in Seq(MessageType) /\ messages' = [messages EXCEPT ![t] = Append(messages[t], m)]
  BY DEF TypeOK, Push
<1>2. /\ Append(messages[t], m) \in Seq(MessageType)
      /\ Len(Append(messages[t], m)) = Len(messages[t]) + 1
      /\ Append(messages[t], m)[Len(messages[t]) + 1] = m
      /\ \A i \in 1..Len(messages[t]) : Append(messages[t], m)[i] = messages[t][i]
  BY <1>1, AppendProperties
<1>3. messages'[t] = Append(messages[t], m)
  BY <1>1 DEF TypeOK
<1>4. Len(messages[t]) \in Nat
  BY <1>1, LenProperties
<1>5. Extends(messages'[t], messages[t])
  BY <1>2, <1>3, <1>4 DEF Extends
<1>6. QED
  BY <1>1, <1>2, <1>3, <1>5 DEF TypeOK

LEMMA Messages ==
    ASSUME NEW t \in Turns
    PROVE  /\ \A kind \in {"prompt", "answer", "thinking", "nudge"} :
                 Message(t, kind) \in MessageType
           /\ \A kind \in {"tools", "results"}, n \in 1..MaxCalls :
                 Batch(t, kind, n) \in MessageType
BY DEF Message, Batch, MessageType

\* A nudge pushes two messages.
LEMMA PushNudge ==
    ASSUME TypeOK, NEW t \in Turns,
           messages' = [messages EXCEPT ![t] =
               @ \o <<Message(t, "thinking"), Message(t, "nudge")>>]
    PROVE  /\ messages' \in [Turns -> Seq(MessageType)]
           /\ \A u \in Turns \ {t} : messages'[u] = messages[u]
           /\ Len(messages'[t]) = Len(messages[t]) + 2
           /\ messages'[t][Len(messages[t]) + 1] = Message(t, "thinking")
           /\ messages'[t][Len(messages[t]) + 2] = Message(t, "nudge")
           /\ Extends(messages'[t], messages[t])
<1> DEFINE pair == <<Message(t, "thinking"), Message(t, "nudge")>>
<1>1. /\ pair \in Seq(MessageType) /\ Len(pair) = 2
      /\ pair[1] = Message(t, "thinking") /\ pair[2] = Message(t, "nudge")
  BY Messages
<1>2. messages[t] \in Seq(MessageType) /\ Len(messages[t]) \in Nat
  BY LenProperties DEF TypeOK
<1>3. messages'[t] = messages[t] \o pair /\ \A u \in Turns \ {t} : messages'[u] = messages[u]
  BY DEF TypeOK
<1> HIDE DEF pair
<1>4. /\ messages[t] \o pair \in Seq(MessageType)
      /\ Len(messages[t] \o pair) = Len(messages[t]) + 2
      /\ \A i \in 1..(Len(messages[t]) + Len(pair)) : (messages[t] \o pair)[i] =
            IF i <= Len(messages[t]) THEN messages[t][i] ELSE pair[i - Len(messages[t])]
  <2>1. \A s1, s2 \in Seq(MessageType) :
          /\ s1 \o s2 \in Seq(MessageType)
          /\ Len(s1 \o s2) = Len(s1) + Len(s2)
          /\ \A i \in 1..(Len(s1) + Len(s2)) : (s1 \o s2)[i] =
                IF i <= Len(s1) THEN s1[i] ELSE s2[i - Len(s1)]
    BY ConcatProperties
  <2>2. QED
    BY <1>1, <1>2, <2>1
<1>5. Extends(messages'[t], messages[t])
  BY <1>2, <1>3, <1>4 DEF Extends
<1>6. /\ messages'[t][Len(messages[t]) + 1] = pair[1]
      /\ messages'[t][Len(messages[t]) + 2] = pair[2]
  BY <1>2, <1>3, <1>4
<1>7. messages' \in [Turns -> Seq(MessageType)]
  BY <1>3, <1>4 DEF TypeOK, pair
<1>8. QED
  BY <1>1, <1>3, <1>4, <1>5, <1>6, <1>7

\* What a push does to the pairing.

LEMMA MoreCut ==
    ASSUME NEW q, NEW n, NEW C, NEW D, C \subseteq D, PairedTo(q, n, C)
    PROVE  PairedTo(q, n, D)
BY DEF PairedTo

LEMMA PairedPush ==
    ASSUME NEW q, NEW p, NEW C, Len(q) \in Nat, Extends(p, q), Len(p) = Len(q) + 1,
           PairedTo(q, Len(q), C)
    PROVE  /\ PairedTo(p, Len(p) - 1, C)
           /\ p[Len(p)].kind # "tools" => PairedTo(p, Len(p), C)
<1>1. ASSUME NEW i \in 1..Len(q), p[i].kind = "tools", p[i].turn \notin C
      PROVE  i < Len(p) /\ p[i + 1] = [p[i] EXCEPT !.kind = "results"]
  <2>1. i < Len(q) /\ q[i + 1] = [q[i] EXCEPT !.kind = "results"] /\ p[i] = q[i]
    BY <1>1 DEF PairedTo, Extends
  <2>2. i + 1 \in 1..Len(q)
    BY <2>1
  <2>3. QED
    BY <2>1, <2>2 DEF Extends
<1>2. PairedTo(p, Len(p) - 1, C)
  BY <1>1 DEF PairedTo
<1>3. ASSUME p[Len(p)].kind # "tools" PROVE PairedTo(p, Len(p), C)
  BY <1>1, <1>3 DEF PairedTo
<1>4. QED
  BY <1>2, <1>3

LEMMA PairedResults ==
    ASSUME NEW q, NEW p, NEW C, Len(q) \in Nat \ {0}, Extends(p, q), Len(p) = Len(q) + 1,
           PairedTo(q, Len(q) - 1, C), p[Len(q) + 1] = [q[Len(q)] EXCEPT !.kind = "results"],
           p[Len(q) + 1].kind = "results"
    PROVE  PairedTo(p, Len(p), C)
<1>1. SUFFICES ASSUME NEW i \in 1..Len(p), p[i].kind = "tools", p[i].turn \notin C
               PROVE  i < Len(p) /\ p[i + 1] = [p[i] EXCEPT !.kind = "results"]
  BY DEF PairedTo
<1>2. i # Len(q) + 1 /\ i \in 1..Len(q) /\ p[i] = q[i]
  <2>1. i # Len(q) + 1
    <3>1. p[Len(q) + 1].kind # "tools"
      OBVIOUS
    <3>2. QED
      BY <1>1, <3>1
  <2>2. i \in 1..Len(q)
    BY <2>1
  <2>3. QED
    BY <2>1, <2>2 DEF Extends
<1>3. CASE i = Len(q)
  BY <1>2, <1>3
<1>4. CASE i # Len(q)
  <2>1. i \in 1..(Len(q) - 1) /\ i + 1 \in 1..Len(q)
    BY <1>2, <1>4
  <2>2. q[i + 1] = [q[i] EXCEPT !.kind = "results"]
    BY <1>1, <1>2, <2>1 DEF PairedTo
  <2>3. QED
    BY <1>2, <2>1, <2>2 DEF Extends
<1>5. QED
  BY <1>3, <1>4

LEMMA PairedNudge ==
    ASSUME NEW q, NEW p, NEW C, Len(q) \in Nat, Extends(p, q), Len(p) = Len(q) + 2,
           PairedTo(q, Len(q), C), p[Len(q) + 1].kind # "tools", p[Len(q) + 2].kind # "tools"
    PROVE  PairedTo(p, Len(p), C)
<1>1. SUFFICES ASSUME NEW i \in 1..Len(p), p[i].kind = "tools", p[i].turn \notin C
               PROVE  i < Len(p) /\ p[i + 1] = [p[i] EXCEPT !.kind = "results"]
  BY DEF PairedTo
<1>2. i \in 1..Len(q) /\ p[i] = q[i]
  BY <1>1 DEF Extends
<1>3. i < Len(q) /\ q[i + 1] = [q[i] EXCEPT !.kind = "results"]
  BY <1>1, <1>2 DEF PairedTo
<1>4. i + 1 \in 1..Len(q)
  BY <1>2, <1>3
<1>5. QED
  BY <1>2, <1>3, <1>4 DEF Extends

LEMMA ExtendsTrans ==
    ASSUME NEW p, NEW q, NEW s, Len(p) \in Nat, Len(q) \in Nat, Len(s) \in Nat,
           Extends(p, q), Extends(q, s)
    PROVE  Extends(p, s)
BY DEF Extends

LEMMA Lengths ==
    ASSUME TypeOK
    PROVE  /\ Len(session) \in Nat
           /\ \A t \in Turns : Len(messages[t]) \in Nat /\ messages[t] \in Seq(MessageType)
BY LenProperties DEF TypeOK

\* loadSessionRaw and the prompt.
LEMMA LoadFacts ==
    ASSUME TypeOK, NEW t \in Turns,
           messages' = [messages EXCEPT ![t] = Append(session, Message(t, "prompt"))]
    PROVE  /\ messages' \in [Turns -> Seq(MessageType)]
           /\ \A u \in Turns \ {t} : messages'[u] = messages[u]
           /\ Len(messages'[t]) = Len(session) + 1
           /\ messages'[t][Len(session) + 1] = Message(t, "prompt")
           /\ Extends(messages'[t], session)
<1> DEFINE m == Message(t, "prompt")
<1>1. session \in Seq(MessageType) /\ m \in MessageType /\ Len(session) \in Nat
  BY Messages, Lengths DEF TypeOK
<1>2. /\ messages'[t] = Append(session, m)
      /\ \A u \in Turns \ {t} : messages'[u] = messages[u]
  BY DEF TypeOK
<1> HIDE DEF m
<1>3. /\ Append(session, m) \in Seq(MessageType)
      /\ Len(Append(session, m)) = Len(session) + 1
      /\ Append(session, m)[Len(session) + 1] = m
      /\ \A i \in 1..Len(session) : Append(session, m)[i] = session[i]
  BY <1>1, AppendProperties
<1>4. Extends(messages'[t], session)
  BY <1>1, <1>2, <1>3 DEF Extends
<1>5. messages' \in [Turns -> Seq(MessageType)]
  BY <1>2, <1>3 DEF TypeOK, m
<1>6. QED
  BY <1>2, <1>3, <1>4, <1>5 DEF m

-----------------------------------------------------------------------------
(* What one step of a turn does to that turn, and to the others. *)

\* What the invariant says of t holds after the step.
Fine(t) ==
    /\ messages' \in [Turns -> Seq(MessageType)]
    /\ (Works(t) /\ Pairs(t))'
    /\ Looping(t)' => \/ Looping(t) /\ Extends(messages'[t], messages[t])
                      \/ Extends(messages'[t], session)

LEMMA ExtendsSelf == ASSUME NEW q, Len(q) \in Nat PROVE Extends(q, q)
BY DEF Extends

LEMMA LoadFine ==
    ASSUME IInv, NEW t \in Turns, Load(t)
    PROVE  Fine(t)
<1>1. /\ messages' \in [Turns -> Seq(MessageType)]
      /\ Len(messages'[t]) = Len(session) + 1
      /\ messages'[t][Len(session) + 1] = Message(t, "prompt")
      /\ Extends(messages'[t], session)
  BY LoadFacts DEF IInv, Load
<1>2. pc'[t] = "top" /\ UNCHANGED <<owner, cut>> /\ pc[t] = "loading"
  BY DEF IInv, TypeOK, Load, Goto
<1>3. Works(t)'
  <2>1. owner[t] \in Windows
    BY <1>2 DEF IInv, Works, Under
  <2>2. Len(messages'[t]) > 0
    BY <1>1, Lengths DEF IInv
  <2>3. QED
    BY <1>2, <2>1, <2>2 DEF Works
<1>4. Pairs(t)'
  <2>1. messages'[t][Len(messages'[t])].kind # "tools"
    BY <1>1 DEF Message
  <2>2. PairedTo(messages'[t], Len(messages'[t]), cut)
    BY <1>1, <2>1, Lengths, PairedPush DEF IInv, RowPaired
  <2>3. QED
    BY <1>2, <2>2 DEF Pairs
<1>5. QED
  BY <1>1, <1>3, <1>4 DEF Fine

LEMMA AnswerFine ==
    ASSUME IInv, NEW t \in Turns, Answer(t)
    PROVE  Fine(t)
<1>1. Message(t, "answer") \in MessageType
  BY Messages
<1>2. /\ messages' \in [Turns -> Seq(MessageType)]
      /\ Len(messages'[t]) = Len(messages[t]) + 1
      /\ messages'[t][Len(messages[t]) + 1] = Message(t, "answer")
      /\ Extends(messages'[t], messages[t])
  BY <1>1, PushOne DEF IInv, Answer
<1>3. pc'[t] = "saving" /\ UNCHANGED <<owner, cut>> /\ pc[t] = "asking"
  BY DEF IInv, TypeOK, Answer, LeaveLoop, Goto
<1>4. Works(t)'
  <2>1. owner[t] \in Windows
    BY <1>3 DEF IInv, Works, Under
  <2>2. Len(messages'[t]) > 0 /\ Last(t)' = Message(t, "answer")
    BY <1>2, Lengths DEF IInv, Last
  <2>3. QED
    BY <1>3, <2>1, <2>2 DEF Works
<1>5. Pairs(t)'
  <2>1. messages'[t][Len(messages'[t])].kind # "tools"
    BY <1>2 DEF Message
  <2>2. PairedTo(messages[t], Len(messages[t]), cut)
    BY <1>3 DEF IInv, Pairs
  <2>3. PairedTo(messages'[t], Len(messages'[t]), cut)
    BY <1>2, <2>1, <2>2, Lengths, PairedPush DEF IInv
  <2>4. QED
    BY <1>3, <2>3 DEF Pairs
<1>6. QED
  BY <1>2, <1>3, <1>4, <1>5 DEF Fine, Looping

LEMMA ThinkFine ==
    ASSUME IInv, NEW t \in Turns, Think(t)
    PROVE  Fine(t)
<1>1. UNCHANGED <<owner, cut>> /\ pc[t] = "asking"
  BY DEF Think
<1>2. owner[t] \in Windows /\ PairedTo(messages[t], Len(messages[t]), cut)
  BY <1>1 DEF IInv, Works, Under, Pairs
<1>3. CASE /\ messages' = [messages EXCEPT ![t] =
                  @ \o <<Message(t, "thinking"), Message(t, "nudge")>>]
           /\ Goto(t, "top")
  <2>1. /\ messages' \in [Turns -> Seq(MessageType)]
        /\ Len(messages'[t]) = Len(messages[t]) + 2
        /\ messages'[t][Len(messages[t]) + 1] = Message(t, "thinking")
        /\ messages'[t][Len(messages[t]) + 2] = Message(t, "nudge")
        /\ Extends(messages'[t], messages[t])
    BY <1>3, PushNudge DEF IInv
  <2>2. pc'[t] = "top"
    BY <1>3 DEF IInv, TypeOK, Goto
  <2>3. Len(messages'[t]) > 0
    BY <2>1, Lengths DEF IInv
  <2>4. /\ messages'[t][Len(messages[t]) + 1].kind # "tools"
        /\ messages'[t][Len(messages[t]) + 2].kind # "tools"
    BY <2>1 DEF Message
  <2>5. PairedTo(messages'[t], Len(messages'[t]), cut)
    BY <1>2, <2>1, <2>4, Lengths, PairedNudge DEF IInv
  <2>6. (Works(t) /\ Pairs(t))'
    BY <1>1, <1>2, <2>2, <2>3, <2>5 DEF Works, Pairs
  <2>7. QED
    BY <1>1, <2>1, <2>6 DEF Fine, Looping
<1>4. CASE Push(t, Message(t, "thinking")) /\ Report(t) /\ Goto(t, "saving")
  <2>1. /\ messages' \in [Turns -> Seq(MessageType)]
        /\ Len(messages'[t]) = Len(messages[t]) + 1
        /\ messages'[t][Len(messages[t]) + 1] = Message(t, "thinking")
        /\ Extends(messages'[t], messages[t])
    BY <1>4, Messages, PushOne DEF IInv
  <2>2. pc'[t] = "saving" /\ reported'[t]
    BY <1>4 DEF IInv, TypeOK, Goto, Report
  <2>3. Len(messages'[t]) > 0
    BY <2>1, Lengths DEF IInv
  <2>4. messages'[t][Len(messages'[t])].kind # "tools"
    BY <2>1 DEF Message
  <2>5. PairedTo(messages'[t], Len(messages'[t]), cut)
    BY <1>2, <2>1, <2>4, Lengths, PairedPush DEF IInv
  <2>6. (Works(t) /\ Pairs(t))'
    BY <1>1, <1>2, <2>2, <2>3, <2>5 DEF Works, Pairs
  <2>7. QED
    BY <1>1, <2>1, <2>6 DEF Fine, Looping
<1>5. QED
  BY <1>3, <1>4 DEF Think

LEMMA CallToolsFine ==
    ASSUME IInv, NEW t \in Turns, NEW n \in 1..MaxCalls, CallTools(t, n)
    PROVE  Fine(t)
<1>1. Batch(t, "tools", n) \in MessageType
  BY Messages
<1>2. /\ messages' \in [Turns -> Seq(MessageType)]
      /\ Len(messages'[t]) = Len(messages[t]) + 1
      /\ messages'[t][Len(messages[t]) + 1] = Batch(t, "tools", n)
      /\ Extends(messages'[t], messages[t])
  BY <1>1, PushOne DEF IInv, CallTools
<1>3. /\ pc'[t] = "calling" /\ pc[t] = "asking"
      /\ results'[t] = 0
      /\ UNCHANGED <<owner, cut>>
  BY DEF IInv, TypeOK, CallTools, Goto
<1>4. Works(t)'
  <2>1. owner[t] \in Windows
    BY <1>3 DEF IInv, Works, Under
  <2>2. Len(messages'[t]) > 0 /\ Last(t)' = Batch(t, "tools", n)
    BY <1>2, Lengths DEF IInv, Last
  <2>3. Last(t)'.kind = "tools" /\ Last(t)'.turn = t /\ Last(t)'.n = n
    BY <2>2 DEF Batch
  <2>4. results'[t] < Last(t)'.n
    BY <1>3, <2>3
  <2>5. QED
    BY <1>3, <2>1, <2>2, <2>3, <2>4 DEF Works
<1>5. Pairs(t)'
  <2>1. PairedTo(messages[t], Len(messages[t]), cut)
    BY <1>3 DEF IInv, Pairs
  <2>2. PairedTo(messages'[t], Len(messages'[t]) - 1, cut)
    BY <1>2, <2>1, Lengths, PairedPush DEF IInv
  <2>3. QED
    BY <1>3, <2>2 DEF Pairs
<1>6. QED
  BY <1>2, <1>3, <1>4, <1>5 DEF Fine, Looping

\* What the calls of a turn have to do with its last message.
LEMMA Calling ==
    ASSUME IInv, NEW t \in Turns, ToolAnswers(t)
    PROVE  /\ Len(messages[t]) \in Nat \ {0}
           /\ Last(t) \in MessageType /\ Last(t).kind = "tools" /\ Last(t).turn = t
           /\ Calls(t) = Last(t).n /\ Last(t).n \in 1..MaxCalls
           /\ results'[t] = results[t] + 1 /\ results'[t] \in 1..Calls(t)
           /\ results' = [results EXCEPT ![t] = results'[t]]
<1>1. pc[t] = "calling" /\ Works(t) /\ messages[t] \in Seq(MessageType)
  BY Lengths DEF IInv, ToolAnswers
<1>2. Len(messages[t]) \in Nat \ {0}
  BY <1>1, Lengths DEF IInv, Works, Looping
<1>3. Last(t) \in MessageType
  BY <1>1, <1>2, ElementOfSeq DEF Last
<1>4. Last(t).kind = "tools" /\ Last(t).turn = t /\ results[t] < Last(t).n
  BY <1>1 DEF Works
<1>5. Last(t).n \in 1..MaxCalls /\ Calls(t) = Last(t).n
  BY <1>3, <1>4 DEF MessageType, Last, Calls
<1>6. results' = [results EXCEPT ![t] = results[t] + 1] /\ results[t] \in 0..MaxCalls
  BY DEF IInv, TypeOK, ToolAnswers
<1>7. results'[t] = results[t] + 1
  BY <1>6 DEF IInv, TypeOK
<1>8. results'[t] \in 1..Calls(t)
  BY <1>4, <1>5, <1>6, <1>7
<1>9. QED
  BY <1>2, <1>3, <1>4, <1>5, <1>6, <1>7, <1>8

LEMMA ToolAnswersFine ==
    ASSUME IInv, NEW t \in Turns, ToolAnswers(t)
    PROVE  Fine(t)
<1>1. pc[t] = "calling" /\ UNCHANGED <<owner, cut>>
  BY DEF ToolAnswers
<1>2. /\ owner[t] \in Windows
      /\ PairedTo(messages[t], Len(messages[t]) - 1, cut)
  BY <1>1 DEF IInv, Works, Under, Pairs
<1>3. CASE results'[t] = Calls(t)
  <2> DEFINE m == Batch(t, "results", results'[t])
  <2>1. m \in MessageType
    BY Calling, <1>3, Messages
  <2>2. Push(t, m) /\ Goto(t, "top")
    BY <1>3 DEF ToolAnswers
  <2>3. m.kind = "results" /\ [Last(t) EXCEPT !.kind = "results"] = m
    BY Calling, <1>3 DEF Batch, MessageType
  <2> HIDE DEF m
  <2>4. /\ messages' \in [Turns -> Seq(MessageType)]
        /\ Len(messages'[t]) = Len(messages[t]) + 1
        /\ messages'[t][Len(messages[t]) + 1] = m
        /\ Extends(messages'[t], messages[t])
    BY <2>1, <2>2, PushOne DEF IInv
  <2>5. pc'[t] = "top"
    BY <2>2 DEF IInv, TypeOK, Goto
  <2>6. Len(messages'[t]) > 0
    BY <2>4, Lengths DEF IInv
  <2>7. PairedTo(messages'[t], Len(messages'[t]), cut)
    BY <1>2, <2>3, <2>4, Calling, PairedResults DEF Last
  <2>8. (Works(t) /\ Pairs(t))'
    BY <1>1, <1>2, <2>5, <2>6, <2>7 DEF Works, Pairs
  <2>9. QED
    BY <1>1, <2>4, <2>8 DEF Fine, Looping
<1>4. CASE results'[t] # Calls(t)
  <2>1. UNCHANGED <<messages, pc>>
    BY <1>4 DEF ToolAnswers
  <2>2. results'[t] < Last(t).n
    BY <1>4, Calling
  <2>3. (Works(t) /\ Pairs(t))'
    BY <1>1, <2>1, <2>2 DEF IInv, Works, Pairs, Last, Looping, Under
  <2>4. Extends(messages'[t], messages[t]) /\ Looping(t)
    BY <1>1, <2>1, Lengths, ExtendsSelf DEF IInv, Looping
  <2>5. QED
    BY <2>1, <2>3, <2>4 DEF IInv, TypeOK, Fine
<1>5. QED
  BY <1>3, <1>4

\* The steps that leave the list as it is.
LEMMA StillFine ==
    ASSUME IInv, NEW t \in Turns, UNCHANGED <<messages, owner>>, cut \subseteq cut',
           Looping(t), pc'[t] \in {"asking", "saving"},
           pc'[t] = "saving" => reported'[t],
           pc[t] = "calling" => pc'[t] = "saving" /\ t \in cut'
    PROVE  Fine(t)
<1>1. Extends(messages'[t], messages[t])
  BY Lengths, ExtendsSelf DEF IInv
<1>2. Works(t)'
  BY DEF IInv, Works, Looping, Under, Last
<1>3. Pairs(t)'
  <2>1. CASE pc[t] # "calling"
    <3>1. PairedTo(messages[t], Len(messages[t]), cut)
      BY <2>1 DEF IInv, Pairs, Looping
    <3>2. PairedTo(messages[t], Len(messages[t]), cut')
      BY <3>1, MoreCut
    <3>3. QED
      BY <2>1, <3>2 DEF Pairs
  <2>2. CASE pc[t] = "calling"
    <3>1. /\ PairedTo(messages[t], Len(messages[t]) - 1, cut')
          /\ Last(t).turn = t
      BY <2>2, MoreCut DEF IInv, Pairs, Works
    <3>2. PairedTo(messages[t], Len(messages[t]), cut')
      BY <2>2, <3>1, Lengths DEF IInv, PairedTo, Last
    <3>3. QED
      BY <2>2, <3>2 DEF Pairs
  <2>3. QED
    BY <2>1, <2>2
<1>4. QED
  BY <1>1, <1>2, <1>3 DEF Fine, IInv, TypeOK

LEMMA EndFine ==
    ASSUME IInv, NEW t \in Turns, End({t})
    PROVE  Fine(t)
<1>1. pc'[t] = "over"
  BY DEF End
<1>2. messages' \in [Turns -> Seq(MessageType)]
  BY DEF End, IInv, TypeOK
<1>3. QED
  BY <1>1, <1>2 DEF Fine, Works, Pairs, Looping, Under

LEMMA StepFine ==
    ASSUME IInv, NEW t \in Turns, Step(t)
    PROVE  Fine(t)
<1>1. CASE Ask(t)
  <2>1. pc'[t] = "asking" /\ pc[t] = "top" /\ UNCHANGED <<messages, owner, cut>>
    BY <1>1 DEF IInv, TypeOK, Ask, Goto
  <2>2. QED
    BY <2>1, StillFine DEF Looping
<1>2. CASE Abort(t)
  <2>1. /\ pc'[t] = "saving" /\ reported'[t] /\ t \in cut' /\ cut \subseteq cut'
        /\ pc[t] \in {"top", "calling"} /\ UNCHANGED <<messages, owner>>
    BY <1>2 DEF IInv, TypeOK, Abort, Goto, Report
  <2>2. QED
    BY <2>1, StillFine DEF Looping
<1>3. CASE StreamFails(t)
  <2>1. /\ pc'[t] = "saving" /\ reported'[t]
        /\ pc[t] = "asking" /\ UNCHANGED <<messages, owner, cut>>
    BY <1>3 DEF IInv, TypeOK, StreamFails, Goto, Report
  <2>2. QED
    BY <2>1, StillFine DEF Looping
<1>4. CASE Exhausted(t)
  <2>1. /\ pc'[t] = "saving" /\ reported'[t]
        /\ pc[t] = "top" /\ UNCHANGED <<messages, owner, cut>>
    BY <1>4 DEF IInv, TypeOK, Exhausted, LeaveLoop, Goto
  <2>2. QED
    BY <2>1, StillFine DEF Looping
<1>5. CASE Refuse(t) \/ Save(t) \/ SaveFails(t)
  BY <1>5, EndFine DEF Refuse, Save, SaveFails
<1>6. QED
  BY <1>1, <1>2, <1>3, <1>4, <1>5, LoadFine, AnswerFine, ThinkFine, CallToolsFine,
     ToolAnswersFine DEF Step

Same(u) ==
    /\ pc'[u] = pc[u] /\ messages'[u] = messages[u] /\ results'[u] = results[u]
    /\ reported'[u] = reported[u] /\ owner'[u] = owner[u]

\* A turn's step leaves the others alone, begins none and ends only its own.
LEMMA StepOthers ==
    ASSUME IInv, NEW t \in Turns, Step(t)
    PROVE  /\ \A u \in Turns \ {t} : Same(u)
           /\ Under(t) /\ UNCHANGED <<deleted, crowded, owner, crashes>>
           /\ cut \subseteq cut' /\ cut' \subseteq Turns
           /\ ~Save(t) => UNCHANGED session
<1> USE DEF IInv, TypeOK, Same, Under, Goto, Push, Report
<1>1. CASE Load(t)
  BY <1>1 DEF Load
<1>2. CASE Refuse(t) \/ Save(t) \/ SaveFails(t)
  BY <1>2 DEF Refuse, Save, SaveFails, End
<1>3. CASE Ask(t)
  BY <1>3 DEF Ask
<1>4. CASE Abort(t)
  BY <1>4 DEF Abort
<1>5. CASE StreamFails(t)
  BY <1>5 DEF StreamFails
<1>6. CASE Answer(t)
  BY <1>6 DEF Answer, LeaveLoop
<1>7. CASE Think(t)
  BY <1>7 DEF Think
<1>8. CASE ToolAnswers(t)
  BY <1>8 DEF ToolAnswers
<1>9. CASE Exhausted(t)
  BY <1>9 DEF Exhausted, LeaveLoop
<1>10. ASSUME NEW n \in 1..MaxCalls, CallTools(t, n)
       PROVE  /\ \A u \in Turns \ {t} : Same(u)
              /\ Under(t) /\ UNCHANGED <<deleted, crowded, owner, crashes>>
              /\ cut \subseteq cut' /\ cut' \subseteq Turns
              /\ ~Save(t) => UNCHANGED session
  BY <1>10 DEF CallTools
<1>11. QED
  BY <1>1, <1>2, <1>3, <1>4, <1>5, <1>6, <1>7, <1>8, <1>9, <1>10 DEF Step

LEMMA OthersFine ==
    ASSUME NEW u \in Turns, Works(u), Pairs(u), Same(u), cut \subseteq cut'
    PROVE  (Works(u) /\ Pairs(u))'
<1>1. Works(u)'
  BY DEF Works, Same, Looping, Under, Last
<1>2. Pairs(u)'
  BY MoreCut DEF Pairs, Same
<1>3. QED
  BY <1>1, <1>2

-----------------------------------------------------------------------------
LEMMA InitIInv == Init => IInv
<1>1. SUFFICES ASSUME Init PROVE IInv
  OBVIOUS
<1>2. <<>> \in Seq(MessageType) /\ Len(<<>>) = 0
  OBVIOUS
<1>3. TypeOK
  <2>1. 0 \in 0..MaxIterations /\ 0 \in 0..MaxNudges /\ 0 \in 0..MaxCalls
        /\ 0 \in 0..MaxCrashes
    BY LimitsAssumption
  <2>2. session \in Seq(MessageType) /\ messages \in [Turns -> Seq(MessageType)]
    BY <1>1, <1>2 DEF Init
  <2>3. /\ iter \in [Turns -> 0..MaxIterations] /\ nudges \in [Turns -> 0..MaxNudges]
        /\ results \in [Turns -> 0..MaxCalls] /\ crashes \in 0..MaxCrashes
    BY <1>1, <2>1 DEF Init
  <2>4. /\ deleted \in BOOLEAN /\ crowded \in BOOLEAN /\ cut \subseteq Turns
        /\ reported \in [Turns -> BOOLEAN]
    BY <1>1 DEF Init
  <2>5. /\ waits \in [Windows -> Turns \cup {0}] /\ pc \in [Turns -> Steps]
        /\ owner \in [Turns -> Windows \cup {"none"}]
    BY <1>1 DEF Init, Steps
  <2>6. QED
    BY <2>2, <2>3, <2>4, <2>5 DEF TypeOK
<1>4. RowPaired
  BY <1>1, <1>2 DEF Init, RowPaired, PairedTo
<1>5. \A t \in Turns : ~Under(t) /\ ~Looping(t) /\ pc[t] = "new"
  BY <1>1 DEF Init, Under, Looping
<1>6. QED
  BY <1>3, <1>4, <1>5 DEF IInv, OneTurn, Works, Pairs, Prefixed

LEMMA StepTypeOK ==
    ASSUME IInv, NEW t \in Turns, Step(t)
    PROVE  TypeOK'
<1>1. /\ messages' \in [Turns -> Seq(MessageType)]
      /\ UNCHANGED <<deleted, crowded, owner, crashes>> /\ cut' \subseteq Turns
  BY StepFine, StepOthers DEF Fine
<1>2. session' \in Seq(MessageType)
  <2>1. CASE Save(t)
    BY <2>1 DEF Save, IInv, TypeOK
  <2>2. CASE ~Save(t)
    BY <2>2, StepOthers DEF IInv, TypeOK
  <2>3. QED
    BY <2>1, <2>2
<1>3. /\ pc' \in [Turns -> Steps] /\ iter' \in [Turns -> 0..MaxIterations]
      /\ nudges' \in [Turns -> 0..MaxNudges] /\ results' \in [Turns -> 0..MaxCalls]
      /\ reported' \in [Turns -> BOOLEAN] /\ waits' \in [Windows -> Turns \cup {0}]
  <2> USE LimitsAssumption
  <2> USE DEF IInv, TypeOK, Steps, Goto, Report
  <2>1. CASE Load(t)
    BY <2>1 DEF Load
  <2>2. CASE Refuse(t) \/ Save(t) \/ SaveFails(t)
    <3>1. End({t})
      BY <2>2 DEF Refuse, Save, SaveFails
    <3>2. /\ pc' \in [Turns -> Steps] /\ iter' \in [Turns -> 0..MaxIterations]
          /\ nudges' \in [Turns -> 0..MaxNudges] /\ results' \in [Turns -> 0..MaxCalls]
      BY <3>1 DEF End
    <3>3. waits' \in [Windows -> Turns \cup {0}]
      BY <3>1 DEF End
    <3>4. reported' \in [Turns -> BOOLEAN]
      BY <2>2 DEF Refuse, Save, SaveFails
    <3>5. QED
      BY <3>2, <3>3, <3>4
  <2>3. CASE Ask(t)
    BY <2>3 DEF Ask
  <2>4. CASE Abort(t)
    BY <2>4 DEF Abort
  <2>5. CASE StreamFails(t)
    BY <2>5 DEF StreamFails
  <2>6. CASE Answer(t)
    BY <2>6 DEF Answer, LeaveLoop
  <2>7. CASE Think(t)
    <3>1. pc' \in [Turns -> Steps] /\ reported' \in [Turns -> BOOLEAN]
      BY <2>7 DEF Think
    <3>2. nudges' \in [Turns -> 0..MaxNudges]
      <4>1. CASE nudges[t] < MaxNudges /\ nudges' = [nudges EXCEPT ![t] = @ + 1]
        <5>1. nudges[t] + 1 \in 0..MaxNudges
          BY <4>1
        <5>2. QED
          BY <4>1, <5>1
      <4>2. CASE UNCHANGED nudges
        BY <4>2
      <4>3. QED
        BY <2>7, <4>1, <4>2 DEF Think
    <3>3. QED
      BY <2>7, <3>1, <3>2 DEF Think
  <2>8. CASE ToolAnswers(t)
    <3>1. /\ results' = [results EXCEPT ![t] = results'[t]]
          /\ results'[t] \in 1..Calls(t) /\ Calls(t) \in 1..MaxCalls
      BY <2>8, Calling
    <3>2. results'[t] \in 0..MaxCalls
      BY <3>1
    <3>3. results' \in [Turns -> 0..MaxCalls]
      BY <3>1, <3>2
    <3>4. pc' \in [Turns -> Steps]
      BY <2>8 DEF ToolAnswers
    <3>5. QED
      BY <2>8, <3>3, <3>4 DEF ToolAnswers
  <2>9. CASE Exhausted(t)
    BY <2>9 DEF Exhausted, LeaveLoop
  <2>10. CASE \E n \in 1..MaxCalls : CallTools(t, n)
    BY <2>10 DEF CallTools
  <2>11. QED
    BY <2>1, <2>2, <2>3, <2>4, <2>5, <2>6, <2>7, <2>8, <2>9, <2>10 DEF Step
<1>4. QED
  BY <1>1, <1>2, <1>3 DEF IInv, TypeOK

LEMMA StepIInv ==
    ASSUME IInv, NEW t \in Turns, Step(t)
    PROVE  IInv'
<1>1. /\ \A u \in Turns \ {t} : Same(u)
      /\ Under(t) /\ UNCHANGED <<deleted, crowded>> /\ cut \subseteq cut'
      /\ ~Save(t) => UNCHANGED session
  BY StepOthers
<1>2. Fine(t)
  BY StepFine
<1>3. \A u \in Turns : (Works(u) /\ Pairs(u))'
  <2>1. ASSUME NEW u \in Turns \ {t} PROVE (Works(u) /\ Pairs(u))'
    BY <1>1, OthersFine DEF IInv
  <2>2. QED
    BY <1>2, <2>1 DEF Fine
<1>4. OneTurn'
  BY <1>1 DEF IInv, OneTurn, Same, Under
<1>5. RowPaired'
  <2>1. CASE ~Save(t)
    BY <1>1, <2>1, MoreCut DEF IInv, RowPaired
  <2>2. CASE Save(t)
    <3>1. PairedTo(messages[t], Len(messages[t]), cut) /\ UNCHANGED cut
      BY <2>2 DEF IInv, Save, Pairs
    <3>2. CASE deleted
      BY <2>2, <3>1, <3>2 DEF IInv, Save, RowPaired
    <3>3. CASE ~deleted
      BY <2>2, <3>1, <3>3 DEF Save, RowPaired
    <3>4. QED
      BY <3>2, <3>3
  <2>3. QED
    BY <2>1, <2>2
<1>6. ASSUME NEW u \in Turns, ~crowded', ~deleted', Looping(u)'
      PROVE  Extends(messages[u], session)'
  <2>1. u = t
    <3>1. CASE u # t
      BY <1>1, <1>6, <3>1 DEF IInv, OneTurn, Same, Under, Looping
    <3>2. QED
      BY <3>1
  <2>2. UNCHANGED session
    BY <1>1, <1>6, <2>1 DEF Save, End, Looping
  <2>3. \/ Extends(messages'[t], messages[t]) /\ Extends(messages[t], session)
        \/ Extends(messages'[t], session)
    BY <1>1, <1>2, <1>6, <2>1 DEF Fine, IInv, Prefixed
  <2>4. Len(messages'[t]) \in Nat /\ Len(messages[t]) \in Nat /\ Len(session) \in Nat
    BY <1>2, Lengths, LenProperties DEF IInv, Fine
  <2>5. Extends(messages'[t], session)
    BY <2>3, <2>4, ExtendsTrans
  <2>6. QED
    BY <2>1, <2>2, <2>5
<1>7. QED
  BY <1>3, <1>4, <1>5, <1>6, StepTypeOK DEF IInv, Prefixed

LEMMA SubmitIInv ==
    ASSUME IInv, NEW w \in Windows, Submit(w)
    PROVE  IInv'
<1>1. PICK t \in Turns : /\ pc[t] = "new"
                         /\ pc' = [pc EXCEPT ![t] = "loading"]
                         /\ owner' = [owner EXCEPT ![t] = w]
                         /\ waits' = [waits EXCEPT ![w] = t]
  BY DEF Submit, Goto
<1>2. /\ \A u \in Turns \ {t} : Same(u)
      /\ pc'[t] = "loading" /\ owner'[t] = w
      /\ UNCHANGED <<messages, session, deleted, cut, results, reported>>
  BY <1>1 DEF IInv, TypeOK, Same, Submit
<1>3. crowded' = (crowded \/ \E u \in Turns : Under(u) /\ (Left(u) \/ owner[u] # w))
  BY DEF Submit
<1>4. TypeOK'
  <2>1. pc' \in [Turns -> Steps]
    BY <1>1 DEF IInv, TypeOK, Steps
  <2>2. owner' \in [Turns -> Windows \cup {"none"}] /\ waits' \in [Windows -> Turns \cup {0}]
    BY <1>1 DEF IInv, TypeOK
  <2>3. crowded' \in BOOLEAN
    BY <1>3 DEF IInv, TypeOK
  <2>4. QED
    BY <1>2, <2>1, <2>2, <2>3 DEF IInv, TypeOK, Submit
<1>5. \A u \in Turns : (Works(u) /\ Pairs(u))'
  <2>1. ASSUME NEW u \in Turns \ {t} PROVE (Works(u) /\ Pairs(u))'
    BY <1>2, OthersFine DEF IInv
  <2>2. (Works(t) /\ Pairs(t))'
    BY <1>2 DEF Works, Pairs, Looping
  <2>3. QED
    BY <2>1, <2>2
<1>6. ASSUME ~crowded' PROVE ~crowded /\ \A u \in Turns : ~Under(u)
  <2>1. \A u \in Turns : Under(u) => ~Left(u) /\ owner[u] = w
    BY <1>3, <1>6
  <2>2. w # "none" /\ waits[w] = 0 /\ 0 \notin Turns
    BY WindowsAssumption DEF Submit, Idle, Turns
  <2>3. QED
    BY <1>3, <1>6, <2>1, <2>2 DEF Left
<1>7. OneTurn'
  BY <1>2, <1>6 DEF OneTurn, Under, Same
<1>8. \A u \in Turns : Prefixed(u)'
  BY <1>2, <1>6 DEF Prefixed, Under, Looping, Same
<1>9. QED
  BY <1>2, <1>4, <1>5, <1>7, <1>8 DEF IInv, RowPaired

LEMMA LeaveIInv ==
    ASSUME IInv, NEW w \in Windows, Leave(w)
    PROVE  IInv'
<1>1. UNCHANGED <<session, deleted, pc, messages, iter, nudges, results, reported, cut, owner,
                  crashes, crowded>>
  BY DEF Leave, turnVars
<1>2. TypeOK'
  <2>1. waits' \in [Windows -> Turns \cup {0}]
    BY DEF IInv, TypeOK, Leave
  <2>2. QED
    BY <1>1, <2>1 DEF IInv, TypeOK
<1>3. QED
  BY <1>1, <1>2 DEF IInv, RowPaired, OneTurn, Works, Pairs, Prefixed, Looping, Under, Last

LEMMA DeleteIInv ==
    ASSUME IInv, DeleteSession
    PROVE  IInv'
<1>1. /\ session' = <<>> /\ deleted'
      /\ UNCHANGED <<waits, pc, messages, iter, nudges, results, reported, cut, owner, crashes,
                     crowded>>
  BY DEF DeleteSession, turnVars
<1>2. TypeOK'
  BY <1>1 DEF IInv, TypeOK
<1>3. RowPaired'
  BY <1>1 DEF RowPaired, PairedTo
<1>4. QED
  BY <1>1, <1>2, <1>3 DEF IInv, OneTurn, Works, Pairs, Prefixed, Looping, Under, Last

LEMMA CrashIInv ==
    ASSUME IInv, Crash
    PROVE  IInv'
<1>1. /\ \A t \in Turns : ~Under(t)' /\ ~Looping(t)'
      /\ UNCHANGED <<session, deleted, cut, owner, crowded>>
  BY DEF IInv, TypeOK, Crash, End, Under, Looping
<1>2. TypeOK'
  <2>1. /\ pc' \in [Turns -> Steps] /\ iter' \in [Turns -> 0..MaxIterations]
        /\ nudges' \in [Turns -> 0..MaxNudges] /\ results' \in [Turns -> 0..MaxCalls]
    BY LimitsAssumption DEF IInv, TypeOK, Crash, End, Steps
  <2>2. waits' \in [Windows -> Turns \cup {0}]
    BY DEF IInv, TypeOK, Crash, End
  <2>3. messages' \in [Turns -> Seq(MessageType)]
    BY DEF IInv, TypeOK, Crash, End
  <2>4. crashes' \in 0..MaxCrashes /\ reported' \in [Turns -> BOOLEAN]
    BY LimitsAssumption DEF IInv, TypeOK, Crash, Under
  <2>5. QED
    BY <1>1, <2>1, <2>2, <2>3, <2>4 DEF IInv, TypeOK
<1>3. \A t \in Turns : pc'[t] \notin {"top", "asking", "saving", "calling"}
  BY <1>1 DEF Looping
<1>4. QED
  BY <1>1, <1>2, <1>3 DEF IInv, RowPaired, OneTurn, Works, Pairs, Prefixed

LEMMA Invariance == Spec => []IInv
<1>1. IInv /\ [Next]_vars => IInv'
  <2>1. SUFFICES ASSUME IInv, [Next]_vars PROVE IInv'
    OBVIOUS
  <2>2. CASE UNCHANGED vars
    BY <2>1, <2>2 DEF vars, turnVars, IInv, TypeOK, RowPaired, OneTurn, Works, Pairs, Prefixed,
       Looping, Under, Last
  <2>3. QED
    BY <2>1, <2>2, SubmitIInv, LeaveIInv, DeleteIInv, StepIInv, CrashIInv DEF Next
<1>2. QED
  BY InitIInv, <1>1, PTL DEF Spec

-----------------------------------------------------------------------------
\* Every variable keeps its type; in particular a turn makes no more requests,
\* nudges and calls than its limits allow.
THEOREM TypeCorrect == Spec => []TypeOK
<1>1. IInv => TypeOK
  BY DEF IInv
<1>2. QED
  BY <1>1, Invariance, PTL

\* In the row every call of tools has its results, unless its turn was cut.
THEOREM Paired == Spec => []PairedUnlessCut
<1>1. IInv => PairedUnlessCut
  BY DEF IInv, RowPaired, PairedTo, PairedUnlessCut
<1>2. QED
  BY <1>1, Invariance, PTL

\* A turn that ends without an error leaves its answer as the last message.
THEOREM AnswersOrErrs == Spec => NeverEndsSilently
<1> DEFINE Loud ==
      \A t \in Turns :
          Under(t) /\ pc'[t] = "over" /\ ~reported'[t] =>
              messages[t][Len(messages[t])] = Message(t, "answer")
<1>1. IInv /\ [Next]_vars => [Loud]_vars
  <2>1. SUFFICES ASSUME IInv, [Next]_vars,
                        NEW t \in Turns, Under(t), pc'[t] = "over", ~reported'[t]
                 PROVE  messages[t][Len(messages[t])] = Message(t, "answer")
    BY DEF Loud
  <2>2. ASSUME NEW u \in Turns, Step(u) PROVE pc[t] = "saving" /\ ~reported[t]
    <3>1. u = t
      BY <2>1, <2>2, StepOthers DEF Same, Under
    <3>2. CASE Save(t)
      BY <2>1, <3>2 DEF Save
    <3>3. CASE ~Save(t)
      BY <2>1, <2>2, <3>1, <3>3 DEF IInv, TypeOK, Step, Load, Refuse, Ask, Abort, StreamFails,
         Answer, Think, ToolAnswers, Exhausted, SaveFails, CallTools, LeaveLoop, Goto, Report,
         End, Under
    <3>4. QED
      BY <3>2, <3>3
  <2>3. ~Crash
    BY <2>1 DEF Crash
  <2>4. ASSUME NEW w \in Windows, Submit(w) \/ Leave(w) PROVE FALSE
    BY <2>1, <2>4 DEF IInv, TypeOK, Submit, Leave, Goto, Under, turnVars
  <2>5. ~DeleteSession /\ ~UNCHANGED vars
    BY <2>1 DEF DeleteSession, Under, vars, turnVars
  <2>6. pc[t] = "saving" /\ ~reported[t]
    <3>1. CASE Next
      BY <2>2, <2>3, <2>4, <2>5, <3>1 DEF Next
    <3>2. QED
      BY <2>1, <2>5, <3>1
  <2>7. QED
    BY <2>1, <2>6 DEF IInv, Works, Last
<1>2. QED
  BY <1>1, Invariance, PTL DEF Spec, NeverEndsSilently

\* Unless turns were crowded, the row only grows at its end.
THEOREM Growing == Spec => HistoryGrows
<1> DEFINE Longer ==
      ~crowded /\ ~deleted' =>
          Len(session) <= Len(session') /\ SubSeq(session', 1, Len(session)) = session
<1>1. IInv /\ [Next]_vars => [Longer]_vars
  <2>1. SUFFICES ASSUME IInv, [Next]_vars, ~crowded, ~deleted'
                 PROVE  Len(session) <= Len(session') /\ SubSeq(session', 1, Len(session)) = session
    BY DEF Longer
  <2>2. session \in Seq(MessageType) /\ session' \in Seq(MessageType)
    BY <2>1, Invariance, StepTypeOK, SubmitIInv, LeaveIInv, DeleteIInv, CrashIInv
       DEF IInv, TypeOK, Next, vars
  <2>3. Extends(session', session)
    <3>1. ASSUME NEW t \in Turns, Save(t) PROVE Extends(session', session)
      <4>1. session' = messages[t] /\ ~deleted /\ Looping(t)
        BY <2>1, <3>1 DEF Save, Looping
      <4>2. QED
        BY <2>1, <4>1 DEF IInv, Prefixed
    <3>2. ASSUME session' = session PROVE Extends(session', session)
      BY <2>1, <3>2, Lengths, ExtendsSelf DEF IInv
    <3>3. ASSUME NEW t \in Turns, Step(t), ~Save(t) PROVE session' = session
      BY <2>1, <3>3, StepOthers
    <3>4. CASE DeleteSession
      BY <2>1, <3>4 DEF DeleteSession
    <3>5. CASE Crash \/ UNCHANGED vars \/ \E w \in Windows : Submit(w) \/ Leave(w)
      BY <3>2, <3>5 DEF Crash, vars, Submit, Leave
    <3>6. QED
      BY <2>1, <3>1, <3>2, <3>3, <3>4, <3>5 DEF Next
  <2>4. Len(session) \in Nat /\ Len(session') \in Nat /\ Len(session) <= Len(session')
    BY <2>2, <2>3, LenProperties DEF Extends
  <2>5. /\ SubSeq(session', 1, Len(session)) \in Seq(MessageType)
        /\ Len(SubSeq(session', 1, Len(session))) = Len(session)
        /\ \A i \in 1..Len(session) : SubSeq(session', 1, Len(session))[i] = session'[i]
    BY <2>2, <2>4, SubSeqProperties
  <2>6. SubSeq(session', 1, Len(session)) = session
    BY <2>2, <2>3, <2>5, SeqEqual DEF Extends
  <2>7. QED
    BY <2>4, <2>6
<1>2. QED
  BY <1>1, Invariance, PTL DEF Spec, HistoryGrows
=============================================================================
