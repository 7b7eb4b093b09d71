------------------------ MODULE McpStdioClientProofs ------------------------
(***************************************************************************)
(* Proofs about McpStdioClient, for any number of callers, turns, process  *)
(* slots and reconnect attempts: no process is forgotten, a client in use  *)
(* has a server or will start one, and a child is lost only through        *)
(* itself.                                                                 *)
(***************************************************************************)
EXTENDS McpStdioClient, TLAPS

(* Where the reconnect cycle stands in relation to the child: while it backs *)
(* off there is no process, and during its handshake the child is the one    *)
(* that the handshake was sent to.                                           *)
CycleOwnsChild ==
    ~overlapped =>
        /\ cyc = "backoff" => child \in {NoChild, Stillborn}
        /\ cyc = "handshake" => child = pend[Cycle] /\ child \in Children

(* Until a spawn of the cycle fails, every unanswered request was written to *)
(* the present child.                                                        *)
PendingOnChild ==
    ~overlapped /\ ~stillborn =>
        /\ cyc = "backoff" => child = NoChild
        /\ \A w \in Who : pend[w] # NoChild => pend[w] = child

IInv == TypeOK /\ CycleOwnsChild /\ PendingOnChild /\ ServerAccountedFor

-----------------------------------------------------------------------------

Servers == Children \union {Stillborn, NoChild}
UserPlaces == {"idle", "sent", "shared", "resumed"}

\* An attempt that fails leaves the cycle backing off or over.
LEMMA AttemptEnds ==
    ASSUME TypeOK, AttemptFails
    PROVE  cyc' \in {"none", "backoff"} /\ att' \in 0 .. MaxReconnectAttempts - 1
  BY AttemptsArePositive DEF TypeOK, AttemptFails

\* After the pending requests are rejected none is left, nobody waits for an
\* answer, and a handshake is over.
LEMMA Rejected ==
    ASSUME TypeOK, RejectAllPending
    PROVE  /\ pend' \in [Who -> Servers] /\ \A w \in Who : pend'[w] = NoChild
           /\ pc' \in [Users -> UserPlaces] /\ \A u \in Users : pc'[u] # "sent"
           /\ cyc' \in {"none", "backoff"} /\ att' \in 0 .. MaxReconnectAttempts - 1
           /\ cyc = "none" => cyc' = "none"
           /\ cyc = "backoff" => cyc' = "backoff"
<1>1. pend' \in [Who -> Servers] /\ \A w \in Who : pend'[w] = NoChild
  BY DEF RejectAllPending, Servers
<1>2. pc' \in [Users -> UserPlaces] /\ \A u \in Users : pc'[u] # "sent"
  BY DEF RejectAllPending, TypeOK, UserPlaces
<1>3. CASE cyc = "handshake"
  <2>1. AttemptFails
    BY <1>3 DEF RejectAllPending
  <2> QED BY <1>1, <1>2, <1>3, <2>1, AttemptEnds
<1>4. CASE cyc # "handshake"
  <2>1. UNCHANGED <<cyc, att>>
    BY <1>4 DEF RejectAllPending
  <2> QED BY <1>1, <1>2, <1>4, <2>1 DEF TypeOK
<1> QED BY <1>3, <1>4

\* Killing the child leaves no process that was its own, and starts none.
LEMMA KilledProc ==
    ASSUME TypeOK
    PROVE  /\ Killed \in [Children -> {"free", "up", "gone"}]
           /\ \A ch \in Children : Killed[ch] = "up" => proc[ch] = "up" /\ ch # child
  BY DEF TypeOK, Killed

LEMMA InitInv == Init => IInv
<1> SUFFICES ASSUME Init PROVE IInv
  OBVIOUS
<1>1. TypeOK
  <2>1. 0 \in 0 .. MaxReconnectAttempts - 1
    BY AttemptsArePositive
  <2>2. \A u \in Users : pend[u] = NoChild /\ pc[u] = "idle"
    BY DEF Init, Who
  <2>3. pend[Cycle] = NoChild /\ cyc = "none"
    BY DEF Init, Who
  <2> QED BY <2>1, <2>2, <2>3 DEF Init, TypeOK
<1>2. CycleOwnsChild /\ ServerAccountedFor
  BY DEF Init, CycleOwnsChild, ServerAccountedFor
<1>3. PendingOnChild
  BY DEF Init, PendingOnChild
<1> QED BY <1>1, <1>2, <1>3 DEF IInv

\* A step that rejects everything pending, whatever child it leaves.
LEMMA RejectTyped ==
    ASSUME TypeOK, RejectAllPending, child' \in Servers,
           proc' \in [Children -> {"free", "up", "gone"}],
           {dropped', wanted', overlapped', stillborn', flooded'} \subseteq BOOLEAN
    PROVE  TypeOK'
<1>1. Cycle \in Who /\ \A u \in Users : u \in Who
  BY DEF Who
<1> QED BY <1>1, Rejected DEF TypeOK, Servers, UserPlaces

LEMMA NextTyped == TypeOK /\ [Next]_vars => TypeOK'
<1> SUFFICES ASSUME TypeOK, [Next]_vars PROVE TypeOK'
  OBVIOUS
<1> USE NamesAreApart DEF TypeOK
<1>1. Cycle \in Who /\ \A u \in Users : u \in Who /\ u # Cycle
  BY DEF Who
<1>2. \A t \in Callers \union Turns : t \in Users
  BY DEF Users
<1>3. ASSUME NEW u \in Users, NEW ch \in Children \union {Stillborn},
             Send(u, ch), pc' = [pc EXCEPT ![u] = "sent"], UNCHANGED cyc
      PROVE  /\ pend' \in [Who -> Servers] /\ pc' \in [Users -> UserPlaces]
             /\ \A v \in Users : pend'[v] # NoChild <=> pc'[v] = "sent"
             /\ pend'[Cycle] # NoChild <=> cyc' = "handshake"
  BY <1>1, <1>3 DEF Send, Servers, UserPlaces
<1>4. ASSUME NEW t \in Turns, Initialize(t) PROVE TypeOK'
  <2>1. CASE child # NoChild /\ UNCHANGED <<child, proc, pend, pc, overlapped, flooded>>
    BY <1>4, <2>1 DEF Initialize
  <2>2. CASE /\ child = NoChild
             /\ \E ch \in Children :
                   /\ Fresh(ch)
                   /\ child' = ch /\ proc' = [proc EXCEPT ![ch] = "up"]
                   /\ Send(t, ch) /\ pc' = [pc EXCEPT ![t] = "sent"]
             /\ overlapped' = (overlapped \/ cyc # "none") /\ flooded' = FALSE
    <3>1. PICK ch \in Children : /\ child' = ch /\ proc' = [proc EXCEPT ![ch] = "up"]
                                 /\ Send(t, ch) /\ pc' = [pc EXCEPT ![t] = "sent"]
      BY <2>2
    <3>2. UNCHANGED <<dropped, cyc, att, stillborn>> /\ wanted' = TRUE
      BY <1>4 DEF Initialize
    <3> QED BY <1>2, <1>3, <2>2, <3>1, <3>2 DEF Servers, UserPlaces
  <2> QED BY <1>4, <2>1, <2>2 DEF Initialize
<1>5. ASSUME NEW t \in Turns, InitializeSpawnFails(t) PROVE TypeOK'
  BY <1>5, RejectTyped DEF InitializeSpawnFails, Servers
<1>6. ASSUME NEW c \in Callers, Request(c) PROVE TypeOK'
  <2>1. CASE /\ child # NoChild
             /\ Send(c, child) /\ pc' = [pc EXCEPT ![c] = "sent"]
             /\ UNCHANGED cyc
    BY <1>2, <1>3, <1>6, <2>1 DEF Request, hist, Servers, UserPlaces
  <2>2. CASE /\ child = NoChild /\ dropped
             /\ pc' = [pc EXCEPT ![c] = "shared"]
             /\ cyc' = IF cyc = "none" THEN "backoff" ELSE cyc
             /\ UNCHANGED pend
    BY <1>1, <1>2, <1>6, <2>2 DEF Request, hist
  <2> QED BY <1>6, <2>1, <2>2 DEF Request
<1>7. ASSUME NEW c \in Callers, Resume(c) PROVE TypeOK'
  <2>1. CASE child # NoChild /\ Send(c, child) /\ pc' = [pc EXCEPT ![c] = "sent"]
    BY <1>2, <1>3, <1>7, <2>1 DEF Resume, hist, Servers, UserPlaces
  <2>2. CASE child = NoChild /\ pc' = [pc EXCEPT ![c] = "idle"] /\ UNCHANGED pend
    BY <1>1, <1>2, <1>7, <2>2 DEF Resume, hist
  <2> QED BY <1>7, <2>1, <2>2 DEF Resume
<1>8. CASE Close
  BY <1>8, RejectTyped, KilledProc DEF Close, Servers
<1>9. CASE BackoffOver
  <2>1. PICK ch \in Children : /\ child' = ch /\ proc' = [proc EXCEPT ![ch] = "up"]
                               /\ Send(Cycle, ch)
    BY <1>9 DEF BackoffOver
  <2>2. cyc' = "handshake" /\ UNCHANGED <<dropped, pc, att, hist>>
    BY <1>9 DEF BackoffOver
  <2>3. /\ pend' \in [Who -> Children \union {Stillborn, NoChild}] /\ pend'[Cycle] # NoChild
        /\ \A u \in Users : pend'[u] = pend[u]
    BY <1>1, <2>1 DEF Send
  <2> QED BY <2>1, <2>2, <2>3 DEF hist
<1>10. CASE BackoffOverSpawnFails
  <2>1. cyc' \in {"none", "backoff"} /\ att' \in 0 .. MaxReconnectAttempts - 1
    BY <1>10, AttemptEnds DEF BackoffOverSpawnFails
  <2>2. pend' \in [Who -> Children \union {Stillborn, NoChild}] /\ \A w \in Who : pend'[w] = NoChild
    BY <1>10 DEF BackoffOverSpawnFails
  <2>3. pc' \in [Users -> {"idle", "sent", "shared", "resumed"}] /\ \A u \in Users : pc'[u] # "sent"
    BY <1>10 DEF BackoffOverSpawnFails
  <2> QED BY <1>1, <1>10, <2>1, <2>2, <2>3 DEF BackoffOverSpawnFails
<1>11. CASE Reconnected
  <2>1. /\ pend' \in [Who -> Children \union {Stillborn, NoChild}] /\ pend'[Cycle] = NoChild
        /\ \A u \in Users : pend'[u] = pend[u]
    BY <1>1, <1>11 DEF Reconnected, Send
  <2>2. /\ pc' \in [Users -> {"idle", "sent", "shared", "resumed"}]
        /\ \A u \in Users : pc'[u] = "sent" <=> pc[u] = "sent"
    BY <1>11 DEF Reconnected
  <2>3. cyc' = "none" /\ att' = 0 /\ dropped' = FALSE /\ UNCHANGED <<child, proc, hist>>
    BY <1>11 DEF Reconnected
  <2>4. 0 \in 0 .. MaxReconnectAttempts - 1
    BY AttemptsArePositive
  <2> QED BY <2>1, <2>2, <2>3, <2>4 DEF hist
<1>12. CASE Overflow
  BY <1>12, RejectTyped, KilledProc DEF Overflow, Servers
<1>13. ASSUME NEW u \in Users, Reply(u) PROVE TypeOK'
  BY <1>1, <1>13 DEF Reply, Send, hist
<1>14. ASSUME NEW w \in Who, Timeout(w) PROVE TypeOK'
  BY <1>14, RejectTyped, KilledProc DEF Timeout, hist, Servers
<1>15. ASSUME NEW ch \in Children, Exit(ch) PROVE TypeOK'
  BY <1>15 DEF Exit, hist
<1>16. ASSUME NEW ch \in Children, ExitEvent(ch) PROVE TypeOK'
  <2>1. proc' \in [Children -> {"free", "up", "gone"}]
    BY <1>16 DEF ExitEvent
  <2>2. CASE child' = NoChild /\ dropped' = TRUE /\ RejectAllPending
    BY <1>16, <2>1, <2>2, RejectTyped DEF ExitEvent, hist, Servers
  <2>3. CASE UNCHANGED <<child, dropped, pend, pc, cyc, att>>
    BY <1>16, <2>1, <2>3 DEF ExitEvent, hist
  <2> QED BY <1>16, <2>2, <2>3 DEF ExitEvent
<1>17. CASE UNCHANGED vars
  BY <1>17 DEF vars, hist
<1> QED BY <1>4, <1>5, <1>6, <1>7, <1>8, <1>9, <1>10, <1>11, <1>12, <1>13, <1>14, <1>15, <1>16,
           <1>17 DEF Next

-----------------------------------------------------------------------------

LEMMA NextCycle == TypeOK /\ CycleOwnsChild /\ [Next]_vars => CycleOwnsChild'
<1> SUFFICES ASSUME TypeOK, CycleOwnsChild, [Next]_vars, ~overlapped' PROVE CycleOwnsChild'
  BY DEF CycleOwnsChild
<1> USE NamesAreApart DEF CycleOwnsChild
<1>1. Cycle \in Who /\ \A u \in Users : u \in Who /\ u # Cycle
  BY DEF Who
<1>2. ASSUME UNCHANGED <<child, cyc, overlapped>>, pend'[Cycle] = pend[Cycle] PROVE CycleOwnsChild'
  BY <1>2
<1>3. ASSUME RejectAllPending, child' = NoChild \/ cyc = "none" PROVE CycleOwnsChild'
  BY <1>3, Rejected
<1>4. ASSUME NEW t \in Turns, Initialize(t) \/ InitializeSpawnFails(t) PROVE CycleOwnsChild'
  <2>1. CASE Initialize(t) /\ child # NoChild
    BY <1>2, <2>1 DEF Initialize
  <2>2. CASE Initialize(t) /\ child = NoChild
    <3>1. cyc = "none" /\ cyc' = "none"
      BY <2>2 DEF Initialize, TypeOK
    <3> QED BY <3>1
  <2>3. CASE InitializeSpawnFails(t)
    <3>1. cyc = "none" /\ RejectAllPending
      BY <2>3 DEF InitializeSpawnFails, TypeOK
    <3> QED BY <1>3, <3>1
  <2> QED BY <1>4, <2>1, <2>2, <2>3
<1>5. ASSUME NEW c \in Callers, Request(c) PROVE CycleOwnsChild'
  <2>1. c \in Users
    BY DEF Users
  <2>2. pend'[Cycle] = pend[Cycle] /\ UNCHANGED <<child, overlapped>>
    BY <1>1, <1>5, <2>1 DEF Request, Send, TypeOK, hist
  <2>3. cyc' = cyc \/ (cyc' = "backoff" /\ child = NoChild)
    BY <1>5 DEF Request
  <2> QED BY <2>2, <2>3
<1>6. ASSUME NEW c \in Callers, Resume(c) PROVE CycleOwnsChild'
  <2>1. c \in Users
    BY DEF Users
  <2> QED BY <1>1, <1>2, <1>6, <2>1 DEF Resume, Send, TypeOK, hist
<1>7. CASE Close \/ Overflow \/ \E w \in Who : Timeout(w)
  BY <1>3, <1>7 DEF Close, Overflow, Timeout
<1>8. CASE BackoffOver
  BY <1>1, <1>8 DEF BackoffOver, Send, TypeOK
<1>9. CASE BackoffOverSpawnFails
  BY <1>9, AttemptEnds DEF BackoffOverSpawnFails
<1>10. CASE Reconnected
  BY <1>10 DEF Reconnected
<1>11. ASSUME NEW u \in Users, Reply(u) PROVE CycleOwnsChild'
  BY <1>1, <1>2, <1>11 DEF Reply, Send, TypeOK, hist
<1>12. ASSUME NEW ch \in Children, Exit(ch) PROVE CycleOwnsChild'
  BY <1>2, <1>12 DEF Exit, hist
<1>13. ASSUME NEW ch \in Children, ExitEvent(ch) PROVE CycleOwnsChild'
  BY <1>2, <1>3, <1>13 DEF ExitEvent, hist
<1>14. CASE UNCHANGED vars
  BY <1>2, <1>14 DEF vars, hist
<1> QED BY <1>4, <1>5, <1>6, <1>7, <1>8, <1>9, <1>10, <1>11, <1>12, <1>13, <1>14 DEF Next

LEMMA NextPending == TypeOK /\ PendingOnChild /\ [Next]_vars => PendingOnChild'
<1> SUFFICES ASSUME TypeOK, PendingOnChild, [Next]_vars, ~overlapped', ~stillborn'
             PROVE  PendingOnChild'
  BY DEF PendingOnChild
<1> USE NamesAreApart DEF PendingOnChild
<1>1. Cycle \in Who /\ \A u \in Users : u \in Who /\ u # Cycle
  BY DEF Who
<1>2. ASSUME RejectAllPending, child' = NoChild \/ cyc = "none" PROVE PendingOnChild'
  BY <1>2, Rejected
<1>3. ASSUME UNCHANGED <<child, overlapped, stillborn>>,
             cyc' = "backoff" => cyc = "backoff" \/ child = NoChild,
             \A w \in Who : pend'[w] \in {pend[w], NoChild, child}
      PROVE  PendingOnChild'
  BY <1>3
<1>4. ASSUME NEW t \in Turns, Initialize(t) \/ InitializeSpawnFails(t) PROVE PendingOnChild'
  <2>1. CASE Initialize(t) /\ child # NoChild
    BY <1>3, <2>1 DEF Initialize
  <2>2. CASE Initialize(t) /\ child = NoChild
    <3>1. PICK ch \in Children : child' = ch /\ Send(t, ch)
      BY <2>2 DEF Initialize
    <3>2. cyc' = "none" /\ ~overlapped /\ ~stillborn
      BY <2>2 DEF Initialize, TypeOK
    <3>3. \A w \in Who : pend[w] = NoChild
      BY <2>2, <3>2
    <3>4. \A w \in Who : pend'[w] # NoChild => pend'[w] = child'
      BY <3>1, <3>3 DEF Send, TypeOK
    <3> QED BY <3>2, <3>4
  <2>3. CASE InitializeSpawnFails(t)
    <3>1. cyc = "none" /\ RejectAllPending
      BY <2>3 DEF InitializeSpawnFails, TypeOK
    <3> QED BY <1>2, <3>1
  <2> QED BY <1>4, <2>1, <2>2, <2>3
<1>5. ASSUME NEW c \in Callers, Request(c) PROVE PendingOnChild'
  <2>1. UNCHANGED <<child, overlapped, stillborn>>
    BY <1>5 DEF Request, hist
  <2>2. cyc' = "backoff" => cyc = "backoff" \/ child = NoChild
    BY <1>5 DEF Request
  <2>3. \A w \in Who : pend'[w] \in {pend[w], NoChild, child}
    BY <1>5 DEF Request, Send, TypeOK
  <2> QED BY <1>3, <2>1, <2>2, <2>3
<1>6. ASSUME NEW c \in Callers, Resume(c) PROVE PendingOnChild'
  <2>1. \A w \in Who : pend'[w] \in {pend[w], NoChild, child}
    BY <1>6 DEF Resume, Send, TypeOK
  <2> QED BY <1>3, <1>6, <2>1 DEF Resume, hist
<1>7. CASE Close \/ Overflow \/ \E w \in Who : Timeout(w)
  BY <1>2, <1>7 DEF Close, Overflow, Timeout
<1>8. CASE BackoffOver
  <2>1. PICK ch \in Children : child' = ch /\ Send(Cycle, ch)
    BY <1>8 DEF BackoffOver
  <2>2. cyc = "backoff" /\ cyc' = "handshake" /\ ~overlapped /\ ~stillborn
    BY <1>8 DEF BackoffOver, hist
  <2>3. \A w \in Who : pend[w] = NoChild
    BY <2>2
  <2>4. \A w \in Who : pend'[w] # NoChild => pend'[w] = child'
    BY <2>1, <2>3 DEF Send, TypeOK
  <2> QED BY <2>2, <2>4
<1>9. CASE BackoffOverSpawnFails
  BY <1>9 DEF BackoffOverSpawnFails
<1>10. CASE Reconnected
  <2>1. \A w \in Who : pend'[w] \in {pend[w], NoChild, child}
    BY <1>10 DEF Reconnected, Send, TypeOK
  <2> QED BY <1>3, <1>10, <2>1 DEF Reconnected, hist
<1>11. ASSUME NEW u \in Users, Reply(u) PROVE PendingOnChild'
  <2>1. \A w \in Who : pend'[w] \in {pend[w], NoChild, child}
    BY <1>11 DEF Reply, Send, TypeOK
  <2> QED BY <1>3, <1>11, <2>1 DEF Reply, hist
<1>12. ASSUME NEW ch \in Children, Exit(ch) PROVE PendingOnChild'
  BY <1>3, <1>12 DEF Exit, hist
<1>13. ASSUME NEW ch \in Children, ExitEvent(ch) PROVE PendingOnChild'
  BY <1>2, <1>3, <1>13 DEF ExitEvent, hist
<1>14. CASE UNCHANGED vars
  BY <1>3, <1>14 DEF vars, hist
<1> QED BY <1>4, <1>5, <1>6, <1>7, <1>8, <1>9, <1>10, <1>11, <1>12, <1>13, <1>14 DEF Next

LEMMA NextAccounted ==
    TypeOK /\ CycleOwnsChild /\ ServerAccountedFor /\ [Next]_vars => ServerAccountedFor'
<1> SUFFICES ASSUME TypeOK, CycleOwnsChild, ServerAccountedFor, [Next]_vars, ~overlapped'
             PROVE  ServerAccountedFor'
  BY DEF ServerAccountedFor
<1> USE NamesAreApart DEF ServerAccountedFor
<1>1. ASSUME UNCHANGED <<child, dropped, proc, wanted, overlapped, flooded>>
      PROVE  ServerAccountedFor'
  BY <1>1
<1>2. ASSUME ~overlapped, proc' = Killed, child' = NoChild, dropped' \/ ~wanted' \/ flooded'
      PROVE  ServerAccountedFor'
  BY <1>2, KilledProc
\* A spawn from a client that has no process.
<1>3. ASSUME NEW ch \in Children, ~overlapped, child \in {NoChild, Stillborn},
             child' = ch, proc' = [proc EXCEPT ![ch] = "up"]
      PROVE  ServerAccountedFor'
  <2>1. \A d \in Children : proc[d] # "up"
    BY <1>3
  <2>2. \A d \in Children : proc'[d] = "up" => d = ch
    BY <1>3, <2>1 DEF TypeOK
  <2> QED BY <1>3, <2>2
<1>4. ASSUME ~overlapped, child \in {NoChild, Stillborn}, child' = Stillborn, UNCHANGED proc
      PROVE  ServerAccountedFor'
  <2>1. \A d \in Children : proc[d] # "up"
    BY <1>4
  <2> QED BY <1>4, <2>1
<1>5. ASSUME NEW t \in Turns, Initialize(t) PROVE ServerAccountedFor'
  <2>1. CASE child # NoChild
    <3>1. UNCHANGED <<child, proc, overlapped>>
      BY <1>5, <2>1 DEF Initialize
    <3> QED BY <2>1, <3>1
  <2>2. CASE child = NoChild
    <3>1. PICK ch \in Children : child' = ch /\ proc' = [proc EXCEPT ![ch] = "up"]
      BY <1>5, <2>2 DEF Initialize
    <3>2. ~overlapped
      BY <1>5, <2>2 DEF Initialize
    <3> QED BY <1>3, <2>2, <3>1, <3>2
  <2> QED BY <2>1, <2>2
<1>6. ASSUME NEW t \in Turns, InitializeSpawnFails(t) PROVE ServerAccountedFor'
  BY <1>4, <1>6 DEF InitializeSpawnFails
<1>7. ASSUME NEW c \in Callers, Request(c) \/ Resume(c) PROVE ServerAccountedFor'
  BY <1>1, <1>7 DEF Request, Resume, hist
<1>8. CASE Close
  BY <1>2, <1>8 DEF Close
<1>9. CASE BackoffOver
  <2>1. PICK ch \in Children : child' = ch /\ proc' = [proc EXCEPT ![ch] = "up"]
    BY <1>9 DEF BackoffOver
  <2>2. ~overlapped /\ child \in {NoChild, Stillborn}
    BY <1>9 DEF BackoffOver, hist, CycleOwnsChild
  <2> QED BY <1>3, <2>1, <2>2
<1>10. CASE BackoffOverSpawnFails
  BY <1>4, <1>10 DEF BackoffOverSpawnFails, CycleOwnsChild
<1>11. CASE Reconnected
  <2>1. ~overlapped /\ child \in Children /\ UNCHANGED <<child, proc>>
    BY <1>11 DEF Reconnected, hist, CycleOwnsChild
  <2> QED BY <2>1
<1>12. CASE Overflow
  BY <1>2, <1>12 DEF Overflow
<1>13. ASSUME NEW u \in Users, Reply(u) PROVE ServerAccountedFor'
  BY <1>1, <1>13 DEF Reply, hist
<1>14. ASSUME NEW w \in Who, Timeout(w) PROVE ServerAccountedFor'
  BY <1>2, <1>14 DEF Timeout, hist
<1>15. ASSUME NEW ch \in Children, Exit(ch) PROVE ServerAccountedFor'
  <2>1. \A d \in Children : proc'[d] = "up" => proc[d] = "up"
    BY <1>15 DEF Exit, TypeOK
  <2> QED BY <1>15, <2>1 DEF Exit, hist
<1>16. ASSUME NEW ch \in Children, ExitEvent(ch) PROVE ServerAccountedFor'
  <2>1. \A d \in Children : proc'[d] = "up" => proc[d] = "up" /\ d # ch
    BY <1>16 DEF ExitEvent, TypeOK
  <2>2. CASE child = ch /\ child' = NoChild /\ dropped' = TRUE
    BY <1>16, <2>1, <2>2 DEF ExitEvent, hist
  <2>3. CASE UNCHANGED <<child, dropped>>
    BY <1>16, <2>1, <2>3 DEF ExitEvent, hist
  <2> QED BY <1>16, <2>2, <2>3 DEF ExitEvent
<1>17. CASE UNCHANGED vars
  BY <1>1, <1>17 DEF vars, hist
<1> QED BY <1>5, <1>6, <1>7, <1>8, <1>9, <1>10, <1>11, <1>12, <1>13, <1>14, <1>15, <1>16, <1>17
        DEF Next

LEMMA Inductive == IInv /\ [Next]_vars => IInv'
  BY NextTyped, NextCycle, NextPending, NextAccounted DEF IInv

-----------------------------------------------------------------------------

\* A step that takes the client's child away, from a state of the invariant.
LEMMA StepSpares ==
    ASSUME IInv, [Next]_vars, child # NoChild, child' # child, ~overlapped', ~stillborn
    PROVE  \/ child = Stillborn \/ proc[child] # "up"
           \/ ~wanted' \/ flooded'
           \/ \E w \in Who : pend[w] = child /\ pend'[w] = NoChild
<1> USE NamesAreApart DEF IInv
<1>1. ASSUME NEW t \in Turns, Initialize(t) \/ InitializeSpawnFails(t) PROVE FALSE
  BY <1>1 DEF Initialize, InitializeSpawnFails
<1>2. ASSUME NEW c \in Callers, Request(c) \/ Resume(c) PROVE FALSE
  BY <1>2 DEF Request, Resume
<1>3. CASE Close \/ Overflow
  BY <1>3 DEF Close, Overflow
<1>4. CASE BackoffOver
  <2>1. child = NoChild
    BY <1>4 DEF BackoffOver, PendingOnChild, hist
  <2> QED BY <2>1
<1>5. CASE BackoffOverSpawnFails
  <2>1. child = NoChild
    BY <1>5 DEF BackoffOverSpawnFails, PendingOnChild
  <2> QED BY <2>1
<1>6. ASSUME Reconnected \/ \E u \in Users : Reply(u) PROVE FALSE
  BY <1>6 DEF Reconnected, Reply
<1>7. ASSUME NEW w \in Who, Timeout(w) PROVE pend[w] = child /\ pend'[w] = NoChild
  <2>1. RejectAllPending /\ pend[w] # NoChild /\ ~overlapped
    BY <1>7 DEF Timeout, hist
  <2> QED BY <2>1, Rejected DEF PendingOnChild
<1>8. ASSUME NEW ch \in Children, Exit(ch) PROVE FALSE
  BY <1>8 DEF Exit
<1>9. ASSUME NEW ch \in Children, ExitEvent(ch) PROVE proc[child] # "up"
  BY <1>9 DEF ExitEvent
<1>10. ASSUME UNCHANGED vars PROVE FALSE
  BY <1>10 DEF vars
<1> QED BY <1>1, <1>2, <1>3, <1>4, <1>5, <1>6, <1>7, <1>8, <1>9, <1>10 DEF Next

(* Theorem: IInv holds in every reachable state (child, pending and         *)
(* reconnecting of client.ts, with the processes behind them).              *)
THEOREM Invariant == Spec => []IInv
<1>1. Init => IInv
  BY InitInv
<1>2. IInv /\ [Next]_vars => IInv'
  BY Inductive
<1> QED BY <1>1, <1>2, PTL DEF Spec

(* Theorem: the client's fields keep their types, a user waits for an answer *)
(* exactly while its request is pending, and the cycle's own request is      *)
(* pending exactly during its handshake.                                     *)
THEOREM TypeCorrect == Spec => []TypeOK
<1>1. IInv => TypeOK
  BY DEF IInv
<1> QED BY <1>1, Invariant, PTL

(* Theorem: exit, timeout, flood, close and reconnect in any order leave no  *)
(* process that the client has forgotten, and a client in use has a child or *)
(* is marked for a reconnect (handleExit, the request timer, onData, close   *)
(* and reconnect of client.ts).                                              *)
THEOREM ServerIsAccountedFor == Spec => []ServerAccountedFor
<1>1. IInv => ServerAccountedFor
  BY DEF IInv
<1> QED BY <1>1, Invariant, PTL

(* Theorem: the client loses a live child only through that child or a       *)
(* close, never through a late event of a predecessor.                       *)
THEOREM SuccessorsAreSpared == Spec => SuccessorsSurvive
<1> DEFINE Spared == (child # NoChild /\ child' # child /\ ~overlapped' /\ ~stillborn)
                       => \/ child = Stillborn \/ proc[child] # "up"
                          \/ ~wanted' \/ flooded'
                          \/ \E w \in Who : pend[w] = child /\ pend'[w] = NoChild
<1>1. IInv /\ [Next]_vars => [Spared]_vars
  BY StepSpares
<1>2. Spec => [][Spared]_vars
  BY <1>1, Invariant, PTL DEF Spec
<1> QED BY <1>2 DEF SuccessorsSurvive
=============================================================================
