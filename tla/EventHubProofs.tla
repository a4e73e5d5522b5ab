--------------------------- MODULE EventHubProofs ---------------------------
(***************************************************************************)
(* That no broadcast ever panics and that the page ends up showing what is *)
(* so, for any number of connections, of goroutines that notify and of     *)
(* lists, any size of the channels, and whatever the page does.            *)
(***************************************************************************)
EXTENDS LibraryView, SequenceTheorems, TLAPS

\* Broadcasts that address only connections of S.
Broadcasts(S) == [Notifiers -> [event : Events \cup {"none"}, to : SUBSET S]]

\* A broadcast under way addresses only registered connections (it holds the
\* lock), a registered connection has its channel open, and a connection is
\* registered once.
LockInv ==
  /\ telling \in Broadcasts(clients)
  /\ reader \in [Conns -> {"none", "register", "read", "leave", "close", "done"}]
  /\ sock \in [Conns -> {"none", "open", "lost", "closed"}]
  /\ clients \subseteq Conns /\ closed \subseteq Conns
  /\ \A k \in clients : k \notin closed /\ reader[k] \in {"read", "leave"}
  /\ \A k \in closed : reader[k] \in {"close", "done"}
  /\ \A k \in Conns : reader[k] # "none" => sock[k] # "none"

IndInv == LockInv /\ NoPanic
-----------------------------------------------------------------------------
\* Initially there is no connection.
LEMMA InitInv == Init => IndInv
  BY DEF Init, HubInit, IndInv, LockInv, NoPanic, Silent, Broadcasts

\* One send goes to a registered connection, whose channel is open.
LEMMA SendInv ==
  ASSUME IndInv, NEW n \in Notifiers, NEW k \in Conns, Send(n, k)
  PROVE  IndInv'
<1>1. k \in clients /\ k \notin closed
  BY DEF IndInv, LockInv, Send, Sent, Broadcasts
<1>2. NoPanic'
  BY <1>1 DEF IndInv, NoPanic, Send
<1>3. Silent \in [event : Events \cup {"none"}, to : SUBSET clients]
  BY DEF Silent
<1>4. Without(telling[n], k) \in [event : Events \cup {"none"}, to : SUBSET clients]
  BY <1>3 DEF IndInv, LockInv, Broadcasts, Without
<1>5. telling' \in Broadcasts(clients)
  BY <1>4 DEF IndInv, LockInv, Broadcasts, Send, Sent
<1>6. UNCHANGED <<clients, closed, sock, reader>>
  BY DEF Send, pumps
<1> QED
  BY <1>2, <1>5, <1>6 DEF IndInv, LockInv

\* A broadcast begins with those who are registered.
LEMMA NotifyInv ==
  ASSUME IndInv, NEW n \in Notifiers, NEW event \in Events, Notify(n, event)
  PROVE  IndInv'
<1>1. telling' \in Broadcasts(clients)
  <2>1. Silent \in [event : Events \cup {"none"}, to : SUBSET clients]
    BY DEF Silent
  <2>2. [event |-> event, to |-> clients] \in [event : Events \cup {"none"}, to : SUBSET clients]
    OBVIOUS
  <2> QED
    BY <2>1, <2>2 DEF IndInv, LockInv, Notify, Broadcasts
<1> QED
  BY <1>1 DEF IndInv, LockInv, NoPanic, Notify, pumps

\* The map changes only when no broadcast is under way, and a channel is
\* closed only by the reader that takes its connection out of the map.
LEMMA PumpInv ==
  ASSUME IndInv, NEW k \in Conns,
         Pump(k) \/ WriteFails(k) \/ Lose(k) \/ Upgrade(k) \/ Write(k)
  PROVE  IndInv'
<1> USE DEF IndInv, LockInv, NoPanic, pumps
<1>a. Unlocked => \A S : telling \in Broadcasts(S)
  <2> SUFFICES ASSUME Unlocked, NEW S
               PROVE  telling \in Broadcasts(S)
    OBVIOUS
  <2>1. \A n \in Notifiers : telling[n] = [event |-> "none", to |-> {}]
    BY DEF Unlocked, Silent
  <2>2. [event |-> "none", to |-> {}] \in [event : Events \cup {"none"}, to : SUBSET S]
    OBVIOUS
  <2>3. telling = [n \in Notifiers |-> telling[n]]
    BY DEF Broadcasts
  <2> QED
    BY <2>1, <2>2, <2>3 DEF Broadcasts
<1>1. CASE Register(k)
  <2>1. telling' \in Broadcasts(clients')
    BY <1>1, <1>a DEF Register
  <2>2. k \notin clients /\ k \notin closed
    BY <1>1 DEF Register
  <2> QED
    BY <1>1, <2>1, <2>2 DEF Register
<1>2. CASE ReadFails(k)
  BY <1>2 DEF ReadFails
<1>3. CASE Unregister(k)
  <2>1. telling' \in Broadcasts(clients')
    BY <1>3, <1>a DEF Unregister
  <2> QED
    BY <1>3, <2>1 DEF Unregister
<1>4. CASE CloseByReader(k)
  BY <1>4 DEF CloseByReader
<1>5. CASE WriterDismissed(k)
  BY <1>5 DEF WriterDismissed, WriterReturns
<1>6. CASE WriteFails(k)
  BY <1>6 DEF WriteFails, WriterReturns
<1>7. CASE Lose(k)
  BY <1>7 DEF Lose
<1>8. CASE Upgrade(k)
  BY <1>8 DEF Upgrade
<1>9. CASE Write(k)
  BY <1>9 DEF Write
<1> QED
  BY <1>1, <1>2, <1>3, <1>4, <1>5, <1>6, <1>7, <1>8, <1>9 DEF Pump
-----------------------------------------------------------------------------
\* A step of LibraryView is a step of the hub or leaves the hub alone.
LEMMA StepInv == IndInv /\ [Next]_vars => IndInv'
<1> SUFFICES ASSUME IndInv, [Next]_vars PROVE IndInv'
  OBVIOUS
<1>1. CASE UNCHANGED hubVars
  BY <1>1 DEF IndInv, LockInv, NoPanic, hubVars
<1>2. CASE NotifyQueued
  BY <1>2, NotifyInv, NotifiersAssumption DEF NotifyQueued, Events
<1>3. CASE Begin
  BY <1>1, <1>3, NotifyInv, NotifiersAssumption DEF Begin, Events
<1>4. CASE NotifyFinal
  BY <1>4, NotifyInv, NotifiersAssumption DEF NotifyFinal, Events
<1>5. ASSUME NEW n \in Notifiers, Run(n) PROVE IndInv'
  BY <1>5, SendInv DEF Run, SendEvent
<1>6. ASSUME NEW k \in Conns,
             Connect(k) \/ Deliver(k) \/ ((Pump(k) \/ WriteFails(k) \/ Lose(k)) /\ Page)
      PROVE  IndInv'
  BY <1>6, PumpInv DEF Connect, Deliver
<1>7. CASE Save \/ Answer \/ Build \/ Disconnect \/ ChangeView \/ UNCHANGED vars
  BY <1>7, <1>1 DEF Save, Answer, Build, Disconnect, ChangeView, vars
<1>8. ASSUME NEW c \in Calls, ServeCall(c) PROVE IndInv'
  BY <1>8, <1>1 DEF ServeCall
<1>9. ASSUME NEW i \in DOMAIN answers, Handle(i) PROVE IndInv'
  BY <1>9, <1>1 DEF Handle
<1> QED
  BY <1>2, <1>3, <1>4, <1>5, <1>6, <1>7, <1>8, <1>9 DEF Next

\* NoPanic: no send of a broadcast meets a closed channel, for any number of
\* connections that come and go while any number of goroutines notify.
THEOREM BroadcastsNeverPanic == Spec => []NoPanic
<1>1. IndInv => NoPanic
  BY DEF IndInv
<1> QED
  BY InitInv, StepInv, <1>1, PTL DEF Spec
-----------------------------------------------------------------------------
(* Sequences.                                                              *)

\* Removing the element at a place moves the later ones up by one.
LEMMA RemovedAt ==
  ASSUME NEW S, NEW s \in Seq(S), NEW i \in 1 .. Len(s)
  PROVE  /\ RemoveAt(s, i) \in Seq(S) /\ Len(RemoveAt(s, i)) = Len(s) - 1
         /\ \A j \in 1 .. Len(s) - 1 :
              RemoveAt(s, i)[j] = IF j < i THEN s[j] ELSE s[j + 1]
<1> DEFINE a == SubSeq(s, 1, i - 1)
           b == SubSeq(s, i + 1, Len(s))
<1>0. Len(s) \in Nat /\ i \in Nat /\ s \in Seq(S)
  BY LenProperties
<1>1. a \in Seq(S) /\ Len(a) = i - 1 /\ \A j \in 1 .. i - 1 : a[j] = s[j]
  BY <1>0, SubSeqProperties
<1>2. b \in Seq(S) /\ Len(b) = Len(s) - i /\ \A j \in 1 .. Len(s) - i : b[j] = s[i + j]
  BY <1>0, SubSeqProperties
<1>3. RemoveAt(s, i) = a \o b
  BY DEF RemoveAt
<1> HIDE DEF a, b
<1>4. a \o b \in Seq(S) /\ Len(a \o b) = Len(s) - 1
  <2>1. a \o b \in Seq(S) /\ Len(a \o b) = Len(a) + Len(b)
    BY <1>1, <1>2, ConcatProperties
  <2> QED
    BY <1>0, <1>1, <1>2, <2>1
<1>5. ASSUME NEW j \in 1 .. Len(s) - 1
      PROVE  (a \o b)[j] = IF j < i THEN s[j] ELSE s[j + 1]
  <2>1. (a \o b)[j] = IF j <= Len(a) THEN a[j] ELSE b[j - Len(a)]
    BY <1>0, <1>1, <1>2, ConcatProperties
  <2>2. CASE j < i
    BY <1>0, <1>1, <2>1, <2>2
  <2>3. CASE ~(j < i)
    <3>1. b[j - Len(a)] = s[j + 1]
      <4>1. j - Len(a) \in 1 .. Len(s) - i /\ i + (j - Len(a)) = j + 1
        BY <1>0, <1>1, <2>3
      <4> QED
        BY <1>2, <4>1
    <3> QED
      BY <1>0, <1>1, <2>1, <2>3, <3>1
  <2> QED
    BY <2>2, <2>3
<1> QED
  BY <1>3, <1>4, <1>5

\* What is left of a sequence when one element is taken out.
LEMMA Others ==
  ASSUME NEW S, NEW s \in Seq(S), NEW i \in DOMAIN s, NEW t, t = RemoveAt(s, i)
  PROVE  /\ t \in Seq(S)
         /\ \A j \in DOMAIN t : \E l \in DOMAIN s : l # i /\ t[j] = s[l]
         /\ \A l \in DOMAIN s : l # i => \E j \in DOMAIN t : t[j] = s[l]
<1>1. DOMAIN s = 1 .. Len(s) /\ Len(s) \in Nat
  BY LenProperties
<1>2. /\ t \in Seq(S) /\ Len(t) = Len(s) - 1
      /\ \A j \in 1 .. Len(s) - 1 : t[j] = IF j < i THEN s[j] ELSE s[j + 1]
  BY <1>1, RemovedAt
<1>3. DOMAIN t = 1 .. Len(s) - 1
  BY <1>2, LenProperties
<1>4. ASSUME NEW j \in DOMAIN t PROVE \E l \in DOMAIN s : l # i /\ t[j] = s[l]
  BY <1>1, <1>2, <1>3
<1>5. ASSUME NEW l \in DOMAIN s, l # i PROVE \E j \in DOMAIN t : t[j] = s[l]
  <2>1. CASE l < i
    BY <1>1, <1>2, <1>3, <2>1
  <2>2. CASE l > i
    <3>1. l - 1 \in DOMAIN t /\ t[l - 1] = s[l]
      BY <1>1, <1>2, <1>3, <2>2
    <3> QED
      BY <3>1
  <2> QED
    BY <1>1, <1>5, <2>1, <2>2
<1> QED
  BY <1>2, <1>4, <1>5

\* At most one element of a kind, also when another one is taken out.
LEMMA OnceStill ==
  ASSUME NEW S, NEW s \in Seq(S), NEW i \in DOMAIN s, NEW t, t = RemoveAt(s, i), NEW P,
         \A l, m \in DOMAIN s : s[l] \in P /\ s[m] \in P => l = m
  PROVE  \A l, m \in DOMAIN t : t[l] \in P /\ t[m] \in P => l = m
<1>1. DOMAIN s = 1 .. Len(s) /\ Len(s) \in Nat
  BY LenProperties
<1>2. /\ t \in Seq(S) /\ Len(t) = Len(s) - 1
      /\ \A j \in 1 .. Len(s) - 1 : t[j] = IF j < i THEN s[j] ELSE s[j + 1]
  BY <1>1, RemovedAt
<1>3. DOMAIN t = 1 .. Len(s) - 1
  BY <1>2, LenProperties
<1>4. ASSUME NEW l \in DOMAIN t, NEW m \in DOMAIN t, t[l] \in P, t[m] \in P
      PROVE  l = m
  <2> DEFINE p == IF l < i THEN l ELSE l + 1
             q == IF m < i THEN m ELSE m + 1
  <2>1. p \in DOMAIN s /\ q \in DOMAIN s /\ t[l] = s[p] /\ t[m] = s[q]
    BY <1>1, <1>2, <1>3
  <2>2. p = q
    BY <1>4, <2>1
  <2> QED
    BY <1>1, <1>3, <2>2
<1> QED
  BY <1>4

\* An event, or an answer, comes last.
LEMMA Appended ==
  ASSUME NEW S, NEW s \in Seq(S), NEW e \in S, NEW t, t = Append(s, e)
  PROVE  /\ t \in Seq(S) /\ Len(t) = Len(s) + 1
         /\ DOMAIN s \subseteq DOMAIN t
         /\ \A i \in DOMAIN s : t[i] = s[i]
         /\ Len(s) + 1 \in DOMAIN t /\ Len(s) + 1 \notin DOMAIN s /\ t[Len(s) + 1] = e
         /\ \A i \in DOMAIN t : i \in DOMAIN s \/ i = Len(s) + 1
BY AppendProperties, LenProperties

\* Taking the first one leaves the others.
LEMMA Tailed ==
  ASSUME NEW S, NEW s \in Seq(S), s # <<>>
  PROVE  /\ Tail(s) \in Seq(S) /\ Len(Tail(s)) = Len(s) - 1
         /\ Head(s) \in S /\ 1 \in DOMAIN s /\ s[1] = Head(s)
         /\ \A j \in DOMAIN Tail(s) : \E l \in DOMAIN s : Tail(s)[j] = s[l]
         /\ \A l \in DOMAIN s : l # 1 => \E j \in DOMAIN Tail(s) : Tail(s)[j] = s[l]
<1> DEFINE t == Tail(s)
<1>1. Len(s) \in Nat /\ DOMAIN s = 1 .. Len(s) /\ Len(s) # 0 /\ Head(s) = s[1] /\ Head(s) \in S
  BY LenProperties, EmptySeq, HeadTailProperties
<1>2. t \in Seq(S) /\ Len(t) = Len(s) - 1 /\ \A j \in 1 .. Len(t) : t[j] = s[j + 1]
  BY HeadTailProperties
<1>3. DOMAIN t = 1 .. Len(s) - 1
  BY <1>2, LenProperties
<1>4. ASSUME NEW l \in DOMAIN s, l # 1 PROVE \E j \in DOMAIN t : t[j] = s[l]
  <2>1. l - 1 \in DOMAIN t /\ t[l - 1] = s[l]
    BY <1>1, <1>2, <1>3, <1>4
  <2> QED
    BY <2>1
<1> QED
  BY <1>1, <1>2, <1>3, <1>4
-----------------------------------------------------------------------------
(* The types of the hub.                                                   *)

\* The hub starts empty.
LEMMA HubTypeInit == HubInit => HubTypeOK
<1>1. <<>> \in Seq(Events) /\ Len(<<>>) = 0
  BY EmptySeq
<1>2. Buffer \in Nat
  BY HubAssumption
<1> SUFFICES ASSUME HubInit PROVE HubTypeOK
  OBVIOUS
<1>3. send \in [Conns -> Seq(Events)] /\ \A k \in Conns : Len(send[k]) <= Buffer
  BY <1>1, <1>2 DEF HubInit
<1>4. panicked \in BOOLEAN
  BY Zenon DEF HubInit
<1> QED
  BY <1>3, <1>4 DEF HubInit, HubTypeOK

\* A channel that is full takes no more events.
LEMMA HubSendType ==
  ASSUME HubTypeOK, IndInv, NEW n \in Notifiers, NEW k \in Conns, Send(n, k)
  PROVE  HubTypeOK'
<1>1. UNCHANGED <<clients, closed, sock, reader, writer>> /\ panicked' \in BOOLEAN
  BY DEF Send, pumps, HubTypeOK
<1>2. telling' \in [Notifiers -> {Silent} \cup [event : Events, to : SUBSET Conns]]
  <2>1. telling[n] \in [event : Events, to : SUBSET Conns]
    BY DEF HubTypeOK, Send, Sent, Silent
  <2>2. Without(telling[n], k) \in {Silent} \cup [event : Events, to : SUBSET Conns]
    BY <2>1 DEF Without
  <2> QED
    BY <2>2 DEF HubTypeOK, Send, Sent
<1>3. send' \in [Conns -> Seq(Events)] /\ \A j \in Conns : Len(send'[j]) <= Buffer
  <2>0. Buffer \in Nat
    BY HubAssumption
  <2>1. CASE k \in closed \/ Full(k)
    BY <2>1 DEF HubTypeOK, Send
  <2>2. CASE ~(k \in closed \/ Full(k))
    <3> DEFINE new == Append(send[k], telling[n].event)
    <3>1. telling[n].event \in Events
      BY DEF HubTypeOK, Send, Sent, Silent
    <3>2. send[k] \in Seq(Events) /\ Len(send[k]) \in Nat /\ Len(send[k]) < Buffer
      BY <2>0, <2>2, LenProperties DEF HubTypeOK, Full
    <3>3. new \in Seq(Events) /\ Len(new) = Len(send[k]) + 1
      BY <3>1, <3>2, Appended
    <3>4. send' = [send EXCEPT ![k] = new]
      BY <2>2 DEF Send
    <3> HIDE DEF new
    <3>5. Len(new) <= Buffer
      BY <2>0, <3>2, <3>3
    <3> QED
      BY <3>3, <3>4, <3>5 DEF HubTypeOK
  <2> QED
    BY <2>1, <2>2
<1> QED
  BY <1>1, <1>2, <1>3 DEF HubTypeOK

\* A broadcast addresses connections.
LEMMA HubNotifyType ==
  ASSUME HubTypeOK, NEW n \in Notifiers, NEW event \in Events, Notify(n, event)
  PROVE  HubTypeOK'
<1>1. [event |-> event, to |-> clients] \in [event : Events, to : SUBSET Conns]
  BY DEF HubTypeOK
<1> QED
  BY <1>1 DEF HubTypeOK, Notify, pumps

\* What a pump does to a channel is to take an event from it.
LEMMA HubTakeType ==
  ASSUME HubTypeOK, NEW k \in Conns, send[k] # <<>>
  PROVE  LET new == [send EXCEPT ![k] = Tail(@)] IN
         new \in [Conns -> Seq(Events)] /\ \A j \in Conns : Len(new[j]) <= Buffer
<1> DEFINE rest == Tail(send[k])
<1>0. Buffer \in Nat /\ send[k] \in Seq(Events) /\ Len(send[k]) \in Nat
  BY HubAssumption, LenProperties DEF HubTypeOK
<1>1. rest \in Seq(Events) /\ Len(rest) = Len(send[k]) - 1
  BY <1>0, Tailed
<1> HIDE DEF rest
<1>2. Len(rest) <= Buffer
  BY <1>0, <1>1 DEF HubTypeOK
<1>3. [send EXCEPT ![k] = Tail(@)] = [send EXCEPT ![k] = rest]
  BY DEF rest
<1> QED
  BY <1>1, <1>2, <1>3 DEF HubTypeOK

\* The goroutines of a connection go through their stages.
LEMMA HubPumpType ==
  ASSUME HubTypeOK, NEW k \in Conns,
         Pump(k) \/ WriteFails(k) \/ Lose(k) \/ Upgrade(k) \/ Write(k)
  PROVE  HubTypeOK'
<1>1. CASE Register(k) \/ ReadFails(k) \/ Unregister(k) \/ CloseByReader(k) \/ Lose(k)
             \/ Upgrade(k) \/ WriterDismissed(k)
  BY <1>1
     DEF HubTypeOK, Register, ReadFails, Unregister, CloseByReader, Lose, Upgrade,
         WriterDismissed, WriterReturns, pumps
<1>2. CASE WriteFails(k)
  <2>1. send' \in [Conns -> Seq(Events)] /\ \A j \in Conns : Len(send'[j]) <= Buffer
    <3>1. CASE send' = send
      BY <3>1 DEF HubTypeOK
    <3>2. CASE send[k] # <<>> /\ send' = [send EXCEPT ![k] = Tail(@)]
      BY <3>2, HubTakeType
    <3> QED
      BY <1>2, <3>1, <3>2 DEF WriteFails
  <2> QED
    BY <1>2, <2>1 DEF HubTypeOK, WriteFails, WriterReturns
<1>3. CASE Write(k)
  <2>1. send' \in [Conns -> Seq(Events)] /\ \A j \in Conns : Len(send'[j]) <= Buffer
    BY <1>3, HubTakeType DEF Write
  <2> QED
    BY <1>3, <2>1 DEF HubTypeOK, Write, pumps
<1> QED
  BY <1>1, <1>2, <1>3 DEF Pump

\* Every step keeps the types of the hub.
LEMMA HubTypeStep == HubTypeOK /\ IndInv /\ [Next]_vars => HubTypeOK'
<1> SUFFICES ASSUME HubTypeOK, IndInv, [Next]_vars PROVE HubTypeOK'
  OBVIOUS
<1>1. CASE UNCHANGED hubVars
  BY <1>1 DEF HubTypeOK, hubVars
<1>2. CASE NotifyQueued \/ Begin \/ NotifyFinal
  BY <1>1, <1>2, HubNotifyType, NotifiersAssumption DEF NotifyQueued, Begin, NotifyFinal, Events
<1>3. ASSUME NEW n \in Notifiers, Run(n) PROVE HubTypeOK'
  BY <1>3, HubSendType DEF Run, SendEvent
<1>4. ASSUME NEW k \in Conns,
             Connect(k) \/ Deliver(k) \/ ((Pump(k) \/ WriteFails(k) \/ Lose(k)) /\ Page)
      PROVE  HubTypeOK'
  BY <1>4, HubPumpType DEF Connect, Deliver
<1>5. CASE Save \/ Answer \/ Build \/ Disconnect \/ ChangeView \/ UNCHANGED vars
  BY <1>5, <1>1 DEF Save, Answer, Build, Disconnect, ChangeView, vars
<1>6. ASSUME NEW c \in Calls, ServeCall(c) PROVE HubTypeOK'
  BY <1>6, <1>1 DEF ServeCall
<1>7. ASSUME NEW i \in DOMAIN answers, Handle(i) PROVE HubTypeOK'
  BY <1>7, <1>1 DEF Handle
<1> QED
  BY <1>2, <1>3, <1>4, <1>5, <1>6, <1>7 DEF Next
-----------------------------------------------------------------------------
(* The page.                                                               *)

Replies == [call : Calls, body : Statuses \cup {"error"}]

PageTypeOK ==
  /\ row \in Statuses /\ card \in Statuses
  /\ post \in {"save", "notify", "answer", "sent", "done"}
  /\ work \in {"none", "begin", "build", "finish", "done", "gone"}
  /\ mine \in Conns \cup {Offline}
  /\ live \in Events \cup {"none"}
  /\ gen \in Lists /\ asked \subseteq Lists \cup {Get}
  /\ answers \in Seq(Replies)
  /\ heard \in BOOLEAN /\ astray \in BOOLEAN

\* The row is there once the upload has saved it, which is before any other
\* answer than an error, and final only when the worker has built the item.
RowInv ==
  /\ post = "save" => row = "absent"
  /\ row = "absent" => post \in {"save", "sent", "done"} /\ work = "none"
  /\ work = "none" => row \in {"absent", "pending"}
  /\ row \in Final => work \in {"finish", "done", "gone"}
  /\ work \in {"build", "finish", "done"} => row \in Final \cup {"processing"}
  /\ \A i \in DOMAIN answers : answers[i].call = Upload => post # "save"

\* The last event of an item that ended that way.
EndOf(status) == IF status = "ready" THEN "completed" ELSE "failed"

\* Events on their way that say that the item has ended, and how, are right.
Told ==
  /\ \A n \in Notifiers :
       telling[n].event \in Ends => work = "done" /\ telling[n].event = EndOf(row)
  /\ \A k \in Conns : \A i \in DOMAIN send[k] :
       send[k][i] \in Ends => work = "done" /\ send[k][i] = EndOf(row)

\* So is what the page holds, and what answers tell it.
Truth ==
  /\ card = "ready" => row = "ready"
  /\ card = "failed" \/ live = "failed" => row = "failed" \/ Unsaved
  /\ card # "absent" => row # "absent"
  /\ heard => work = "done"
  /\ Get \in asked => row = "ready" /\ heard
  /\ \A i \in DOMAIN answers :
       /\ answers[i].body \in Final => row = answers[i].body
       /\ answers[i].body \notin {"absent", "error"} => row # "absent"
  /\ \A i \in DOMAIN answers :
       /\ answers[i].call = Get =>
            answers[i].body \in {"ready", "error"} /\ row = "ready" /\ heard
       /\ answers[i].call = Upload => answers[i].body \in {"pending", "error"}

\* Lists are asked for one after the other, and each is answered once; a view
\* without the item does not list it.
ListsInv ==
  /\ \A c \in asked : c \in Lists => c <= gen
  /\ \A i \in DOMAIN answers : answers[i].call \in Lists =>
       /\ answers[i].call <= gen
       /\ ~InView(answers[i].call) => answers[i].body \in {"absent", "error"}
       /\ answers[i].call = gen =>
            gen \notin asked /\ \A j \in DOMAIN answers : answers[j].call = gen => j = i

Pending(c) == c \in asked \/ \E i \in DOMAIN answers : answers[i].call = c

\* A page that is not astray shows the item where it belongs, unless the list
\* or the upload's answer is still to come.
Placed ==
  IF InView(gen) THEN card # "absent" \/ row = "absent" \/ post # "done" \/ Pending(gen)
                 ELSE card = "absent" \/ Pending(gen)

\* The last event is still to come, or the page will notice that its
\* connection has broken.
EventComing ==
  \/ work = "finish"
  \/ /\ work = "done" /\ mine # Offline
     /\ \/ sock[mine] # "open"
        \/ \E n \in Notifiers : telling[n].event \in Ends /\ mine \in telling[n].to
        \/ \E i \in DOMAIN send[mine] : send[mine][i] \in Ends

\* A page that has heard the last event shows how the item ended, or will.
Heard == heard /\ row \in Final /\ InView(gen) =>
  Shown = row \/ Pending(gen) \/ Pending(Get) \/ post # "done"

\* A page that will not hear it has it from a list that was up to date.
Unheard == ~heard /\ row \in Final /\ ~EventComing =>
  /\ \A i \in DOMAIN answers :
       answers[i].call = gen => answers[i].body \in {Listed(gen), "error"}
  /\ InView(gen) => card = row \/ Pending(gen)

PageInv ==
  /\ PageTypeOK /\ RowInv /\ Told /\ Truth /\ ListsInv
  /\ ~astray => Placed /\ Heard /\ Unheard

\* The page starts with an empty list and nothing on its way.
LEMMA PageInit == Init => PageInv
<1>1. <<>> \in Seq(Replies) /\ DOMAIN <<>> = {}
  BY EmptySeq
<1> SUFFICES ASSUME Init PROVE PageInv
  OBVIOUS
<1>2. heard \in BOOLEAN /\ astray \in BOOLEAN
  BY Zenon DEF Init
<1>3. PageTypeOK
  BY <1>1, <1>2, LoadsAssumption DEF Init, PageTypeOK, Statuses, Lists
<1>4. RowInv /\ Truth /\ ListsInv /\ Placed /\ Heard /\ Unheard
  BY <1>1
     DEF Init, RowInv, Truth, ListsInv, Placed, Heard, Unheard, Final, Lists
<1>5. Told
  BY <1>1 DEF Init, HubInit, Told, Silent, Ends
<1> QED
  BY <1>3, <1>4, <1>5 DEF PageInv

\* Steps that leave the page and the server alone: what is on its way has to
\* stay true, and the last event must not be lost.
LEMMA HubOnly ==
  ASSUME PageInv, UNCHANGED <<server, mine, page>>, Told', astray' \in BOOLEAN,
         ~astray' => ~astray,
         ~astray' /\ ~heard /\ row \in Final /\ EventComing => EventComing'
  PROVE  PageInv'
<1>1. /\ row' = row /\ post' = post /\ work' = work /\ mine' = mine /\ live' = live
      /\ card' = card /\ gen' = gen /\ asked' = asked /\ answers' = answers /\ heard' = heard
  BY DEF server, page
<1>2. PageTypeOK' /\ RowInv' /\ Truth' /\ ListsInv'
  BY <1>1 DEF PageInv, PageTypeOK, RowInv, Truth, ListsInv, Unsaved, InView
<1>3. ~astray' => Placed' /\ Heard'
  BY <1>1 DEF PageInv, Placed, Heard, Pending, Shown, InView
<1>4. ~astray' => Unheard'
  BY <1>1 DEF PageInv, Unheard, Pending, Listed, InView
<1> QED
  BY <1>2, <1>3, <1>4 DEF PageInv

\* What a pump takes from a channel was true, and a connection whose pump has
\* lost an event is not open any more.
LEMMA PumpPage ==
  ASSUME PageInv, HubTypeOK, NEW k \in Conns,
         Pump(k) \/ WriteFails(k) \/ Lose(k), Page
  PROVE  PageInv'
<1>1. /\ telling' = telling
      /\ \A j \in Conns : sock'[j] = sock[j] \/ sock'[j] # "open"
      /\ \A j \in Conns : \/ send'[j] = send[j]
                          \/ sock'[j] # "open" /\ send[j] # <<>> /\ send'[j] = Tail(send[j])
  BY DEF HubTypeOK, Pump, Register, ReadFails, Unregister, CloseByReader, WriterDismissed,
         WriteFails, WriterReturns, Lose, pumps
<1>2. ASSUME NEW j \in Conns, NEW i \in DOMAIN send'[j]
      PROVE  \E l \in DOMAIN send[j] : send'[j][i] = send[j][l]
  <2>1. send[j] \in Seq(Events)
    BY DEF HubTypeOK
  <2>2. CASE send'[j] = send[j]
    BY <1>2, <2>2
  <2>3. CASE send[j] # <<>> /\ send'[j] = Tail(send[j])
    BY <1>2, <2>1, <2>3, Tailed
  <2> QED
    BY <1>1, <2>2, <2>3
<1>3. UNCHANGED <<server, mine, page, astray>>
  BY DEF Page
<1>4. Told'
  BY <1>1, <1>2, <1>3 DEF PageInv, Told, server
<1>5. EventComing => EventComing'
  BY <1>1, <1>3 DEF EventComing, server, PageInv, PageTypeOK
<1> QED
  BY <1>3, <1>4, <1>5, HubOnly DEF PageInv, PageTypeOK

\* A broadcast brings the page the last event, or the page goes astray.
LEMMA SendPage ==
  ASSUME PageInv, HubTypeOK, IndInv, NEW n \in Notifiers, NEW k \in Conns, SendEvent(n, k)
  PROVE  PageInv'
<1>1. /\ UNCHANGED <<server, mine, page>>
      /\ astray' = (astray \/ (k = mine /\ telling[n].event \in Ends /\ Full(k)))
      /\ Send(n, k) /\ k \in telling[n].to /\ sock' = sock
      /\ telling' = [telling EXCEPT ![n] = Without(telling[n], k)]
  BY DEF SendEvent, Send, Sent
<1>2. k \notin closed
  BY <1>1 DEF IndInv, LockInv, Broadcasts
<1>3. telling[n].event \in Events /\ send[k] \in Seq(Events)
  BY <1>1 DEF HubTypeOK, Silent
<1>4. /\ \A m \in Notifiers \ {n} : telling'[m] = telling[m]
      /\ telling'[n] = Without(telling[n], k)
  BY <1>1 DEF HubTypeOK
<1>5. /\ \A j \in Conns \ {k} : send'[j] = send[j]
      /\ send'[k] = IF Full(k) THEN send[k] ELSE Append(send[k], telling[n].event)
  BY <1>1, <1>2 DEF HubTypeOK, Send
<1>6. /\ DOMAIN send[k] \subseteq DOMAIN send'[k]
      /\ \A i \in DOMAIN send[k] : send'[k][i] = send[k][i]
      /\ \A i \in DOMAIN send'[k] : \/ i \in DOMAIN send[k]
                                    \/ send'[k][i] = telling[n].event
      /\ ~Full(k) => \E i \in DOMAIN send'[k] : send'[k][i] = telling[n].event
  <2>1. CASE Full(k)
    BY <1>5, <2>1
  <2>2. CASE ~Full(k)
    <3>1. send'[k] = Append(send[k], telling[n].event)
      BY <1>5, <2>2
    <3>2. /\ DOMAIN send[k] \subseteq DOMAIN send'[k]
          /\ \A i \in DOMAIN send[k] : send'[k][i] = send[k][i]
          /\ Len(send[k]) + 1 \in DOMAIN send'[k]
          /\ send'[k][Len(send[k]) + 1] = telling[n].event
          /\ \A i \in DOMAIN send'[k] : i \in DOMAIN send[k] \/ i = Len(send[k]) + 1
      BY <1>3, <3>1, Appended
    <3> QED
      BY <3>2
  <2> QED
    BY <2>1, <2>2
<1>7. Told'
  <2>0. /\ telling[n].event \in Ends => work = "done" /\ telling[n].event = EndOf(row)
        /\ \A j \in Conns : \A i \in DOMAIN send[j] :
             send[j][i] \in Ends => work = "done" /\ send[j][i] = EndOf(row)
    BY DEF PageInv, Told
  <2>1. ASSUME NEW j \in Conns, NEW i \in DOMAIN send'[j], send'[j][i] \in Ends
        PROVE  work = "done" /\ send'[j][i] = EndOf(row)
    <3>1. CASE j = k
      BY <1>6, <2>0, <2>1, <3>1
    <3>2. CASE j # k
      BY <1>5, <2>0, <2>1, <3>2
    <3> QED
      BY <3>1, <3>2
  <2>2. \A m \in Notifiers :
          telling'[m].event \in Ends => work = "done" /\ telling'[m].event = EndOf(row)
    <3>1. telling'[n].event \in Ends => telling'[n].event = telling[n].event
      BY <1>3, <1>4 DEF Without, Silent, Ends, HubTypeOK
    <3> QED
      BY <1>4, <3>1 DEF PageInv, Told
  <2> QED
    BY <1>1, <2>1, <2>2 DEF Told, server
<1>8. ASSUME ~astray', EventComing
      PROVE  EventComing'
  <2>1. work' = work /\ mine' = mine
    BY <1>1 DEF server
  <2>2. CASE work = "finish"
    BY <2>1, <2>2 DEF EventComing
  <2>3. CASE work = "done" /\ mine # Offline /\ sock[mine] # "open"
    BY <1>1, <2>1, <2>3 DEF EventComing
  <2>4. ASSUME mine # Offline, NEW i \in DOMAIN send[mine], send[mine][i] \in Ends
        PROVE  EventComing'
    <3>1. mine \in Conns
      BY <2>4 DEF PageInv, PageTypeOK
    <3>2. i \in DOMAIN send'[mine] /\ send'[mine][i] \in Ends
      BY <1>5, <1>6, <2>4, <3>1
    <3>3. work = "done"
      BY <2>4, <3>1 DEF PageInv, Told
    <3> QED
      BY <2>1, <2>4, <3>2, <3>3 DEF EventComing
  <2>5. ASSUME mine # Offline, NEW m \in Notifiers,
               telling[m].event \in Ends, mine \in telling[m].to
        PROVE  EventComing'
    <3>0. work = "done"
      BY <2>5 DEF PageInv, Told
    <3>1. CASE m = n /\ k = mine
      <4>1. ~Full(k)
        BY <1>1, <1>8, <2>5, <3>1
      <4>2. \E i \in DOMAIN send'[mine] : send'[mine][i] \in Ends
        BY <1>6, <2>5, <3>1, <4>1
      <4> QED
        BY <2>1, <2>5, <3>0, <4>2 DEF EventComing
    <3>2. CASE ~(m = n /\ k = mine)
      <4>1. telling'[m].event \in Ends /\ mine \in telling'[m].to
        <5>1. CASE m # n
          BY <1>4, <2>5, <5>1
        <5>2. CASE m = n
          <6>1. telling[n].to # {k} /\ telling[n] \in [event : Events, to : SUBSET Conns]
            BY <1>1, <2>5, <3>2, <5>2 DEF HubTypeOK, Silent
          <6>2. telling'[n] = [telling[n] EXCEPT !.to = @ \ {k}]
            BY <1>4, <6>1 DEF Without
          <6> QED
            BY <2>5, <3>2, <5>2, <6>1, <6>2
        <5> QED
          BY <5>1, <5>2
      <4> QED
        BY <2>1, <2>5, <3>0, <4>1 DEF EventComing
    <3> QED
      BY <3>1, <3>2
  <2> QED
    BY <1>8, <2>2, <2>3, <2>4, <2>5 DEF EventComing
<1>9. astray' \in BOOLEAN /\ (~astray' => ~astray)
  BY <1>1 DEF PageInv, PageTypeOK
<1> QED
  BY <1>1, <1>7, <1>8, <1>9, HubOnly

\* The page hears of events in their order.
LEMMA DeliverPage ==
  ASSUME PageInv, HubTypeOK, NEW k \in Conns, Deliver(k)
  PROVE  PageInv'
<1>1. /\ telling' = telling /\ sock' = sock /\ row' = row /\ post' = post /\ work' = work
      /\ mine' = mine /\ send[k] # <<>>
      /\ \A j \in Conns : send'[j] = IF j = k THEN Tail(send[k]) ELSE send[j]
  BY DEF Deliver, Write, server, HubTypeOK
<1>2. send[k] \in Seq(Events)
  BY DEF HubTypeOK
<1>3. /\ Head(send[k]) \in Events /\ 1 \in DOMAIN send[k] /\ send[k][1] = Head(send[k])
      /\ \A i \in DOMAIN send'[k] : \E l \in DOMAIN send[k] : send'[k][i] = send[k][l]
      /\ \A l \in DOMAIN send[k] : l # 1 => \E i \in DOMAIN send'[k] : send'[k][i] = send[k][l]
  <2>1. send'[k] = Tail(send[k]) /\ send[k] # <<>>
    BY <1>1
  <2>2. Head(send[k]) \in Events /\ 1 \in DOMAIN send[k] /\ send[k][1] = Head(send[k])
    BY <1>2, <2>1, Tailed
  <2>3. \A i \in DOMAIN send'[k] : \E l \in DOMAIN send[k] : send'[k][i] = send[k][l]
    BY <1>2, <2>1, Tailed
  <2>4. \A l \in DOMAIN send[k] : l # 1 => \E i \in DOMAIN send'[k] : send'[k][i] = send[k][l]
    BY <1>2, <2>1, Tailed
  <2> QED
    BY <2>2, <2>3, <2>4
<1>4. Told'
  BY <1>1, <1>3 DEF PageInv, Told
<1>5. CASE ~(k = mine /\ sock[k] = "open")
  <2>1. UNCHANGED <<server, mine, page, astray>>
    BY <1>5 DEF Deliver
  <2>2. EventComing => EventComing'
    BY <1>1, <1>5 DEF EventComing, PageInv, PageTypeOK
  <2> QED
    BY <1>4, <2>1, <2>2, HubOnly DEF PageInv, PageTypeOK
<1>6. CASE k = mine /\ sock[k] = "open"
  <2> DEFINE e == Head(send[k])
  <2>1. /\ live' = e
        /\ card' = IF e = "failed" /\ card # "absent" THEN "failed" ELSE card
        /\ asked' = IF e = "completed" THEN asked \cup {Get} ELSE asked
        /\ heard' = (heard \/ e \in Ends)
        /\ astray' = (astray \/ (e \notin Ends /\ heard))
        /\ gen' = gen /\ answers' = answers
    BY <1>6 DEF Deliver, OnEvent
  <2>2. /\ e \in Events
        /\ e \in Ends => work = "done"
        /\ e = "failed" => row = "failed" \/ Unsaved
        /\ e = "completed" => row = "ready"
        /\ e \in Ends <=> e = "failed" \/ e = "completed"
    BY <1>3 DEF PageInv, Told, Ends, EndOf, RowInv, Unsaved, Final
  <2> HIDE DEF e
  <2>3. PageTypeOK'
    BY <1>1, <2>1, <2>2 DEF PageInv, PageTypeOK, Statuses, Final
  <2>4. RowInv'
    BY <1>1, <2>1 DEF PageInv, RowInv
  <2>5. Truth'
    <3>1. Get \in asked' => row = "ready" /\ heard'
      BY <2>1, <2>2 DEF PageInv, Truth
    <3> QED
      BY <1>1, <2>1, <2>2, <3>1 DEF PageInv, Truth, Unsaved
  <2>6. Get \notin Lists /\ Get # gen
    BY LoadsAssumption DEF Get, Lists, PageInv, PageTypeOK
  <2>7. ListsInv'
    BY <2>1, <2>6 DEF PageInv, ListsInv, InView
  <2>8. \A c : Pending(c) => Pending(c)'
    BY <2>1 DEF Pending
  <2>9. ASSUME ~astray' PROVE Placed' /\ Heard' /\ Unheard'
    <3>1. ~astray /\ Placed /\ Heard /\ Unheard
      BY <2>1, <2>9 DEF PageInv
    <3>2. Placed'
      <4>1. card' = "absent" <=> card = "absent"
        BY <2>1
      <4> QED
        BY <1>1, <2>1, <2>8, <3>1, <4>1 DEF Placed, InView
    <3>3. Heard'
      <4>1. CASE e = "failed"
        BY <1>1, <2>1, <2>2, <4>1 DEF Heard, Shown, Unsaved, Final
      <4>2. CASE e = "completed"
        BY <2>1, <4>2 DEF Heard, Pending
      <4>3. CASE e \notin Ends
        BY <2>1, <2>9, <4>3 DEF Heard
      <4> QED
        BY <2>2, <4>1, <4>2, <4>3
    <3>4. Unheard'
      <4>1. CASE e \in Ends
        BY <2>1, <4>1 DEF Unheard
      <4>2. CASE e \notin Ends
        <5>1. EventComing => EventComing'
          <6>1. \A l \in DOMAIN send[k] : send[k][l] \in Ends => l # 1
            BY <1>3, <4>2 DEF e
          <6> QED
            BY <1>1, <1>3, <1>6, <6>1 DEF EventComing
        <5>2. card' = card /\ asked' = asked
          BY <2>1, <2>2, <4>2
        <5> QED
          BY <1>1, <2>1, <2>8, <3>1, <5>1, <5>2 DEF Unheard, Listed, InView
      <4> QED
        BY <4>1, <4>2
    <3> QED
      BY <3>2, <3>3, <3>4
  <2> QED
    BY <1>4, <2>3, <2>4, <2>5, <2>7, <2>9 DEF PageInv
<1> QED
  BY <1>5, <1>6

\* A page that opens a connection was off line.
LEMMA ConnectPage ==
  ASSUME PageInv, HubTypeOK, NEW k \in Conns, Connect(k)
  PROVE  PageInv'
<1>1. /\ UNCHANGED <<server, page, astray>> /\ mine = Offline /\ mine' = k
      /\ telling' = telling /\ send' = send
  BY DEF Connect, Upgrade
<1>2. /\ row' = row /\ post' = post /\ work' = work /\ live' = live
      /\ card' = card /\ gen' = gen /\ asked' = asked /\ answers' = answers /\ heard' = heard
      /\ astray' = astray
  BY <1>1 DEF server, page
<1>3. PageTypeOK' /\ RowInv' /\ Told' /\ Truth' /\ ListsInv'
  BY <1>1, <1>2 DEF PageInv, PageTypeOK, RowInv, Told, Truth, ListsInv, Unsaved, InView
<1>4. Placed => Placed'
  BY <1>2 DEF Placed, Pending, InView
<1>5. Heard => Heard'
  BY <1>2 DEF Heard, Pending, Shown, InView
<1>6. Unheard => Unheard'
  <2>1. EventComing => EventComing'
    BY <1>1, <1>2 DEF EventComing
  <2> QED
    BY <1>2, <2>1 DEF Unheard, Pending, Listed, InView
<1> QED
  BY <1>2, <1>3, <1>4, <1>5, <1>6 DEF PageInv

\* A page that gives a broken connection up before the last event is astray.
LEMMA DisconnectPage ==
  ASSUME PageInv, Disconnect
  PROVE  PageInv'
<1>1. /\ row' = row /\ post' = post /\ work' = work /\ live' = live
      /\ card' = card /\ gen' = gen /\ asked' = asked /\ answers' = answers /\ heard' = heard
      /\ astray' = (astray \/ (work = "done" /\ ~heard))
      /\ telling' = telling /\ send' = send /\ mine' = Offline
  BY DEF Disconnect, server, page, hubVars
<1>2. PageTypeOK'
  <2>1. astray' \in BOOLEAN
    BY <1>1 DEF PageInv, PageTypeOK
  <2> QED
    BY <1>1, <2>1 DEF PageInv, PageTypeOK
<1>3. RowInv' /\ Told' /\ Truth' /\ ListsInv'
  BY <1>1 DEF PageInv, RowInv, Told, Truth, ListsInv, Unsaved, InView
<1>4. Placed => Placed'
  BY <1>1 DEF Placed, Pending, InView
<1>5. Heard => Heard'
  BY <1>1 DEF Heard, Pending, Shown, InView
<1>6. ~astray' => Unheard'
  BY <1>1 DEF Unheard, EventComing, Pending, Listed, InView, PageInv
<1>7. ~astray' => ~astray
  BY <1>1
<1> QED
  BY <1>2, <1>3, <1>4, <1>5, <1>6, <1>7 DEF PageInv

\* The item gets its row, and a job or none; or the upload is answered with an
\* error, with or without a row.
LEMMA SavePage ==
  ASSUME PageInv, Save
  PROVE  PageInv'
<1>0. Upload \notin Lists /\ Get # Upload /\ gen \in Lists
  BY LoadsAssumption DEF PageInv, PageTypeOK, Lists, Get, Upload
<1>1. /\ row = "absent" /\ work = "none" /\ row' \in {"absent", "pending"}
      /\ mine' = mine /\ live' = live /\ card' = card /\ gen' = gen
      /\ asked' = asked /\ heard' = heard /\ astray' = astray
      /\ telling' = telling /\ send' = send /\ sock' = sock
  BY DEF Save, hubVars, PageInv, RowInv
<1>2. Told'
  BY <1>1 DEF PageInv, Told
<1>3. CASE row' = "pending" /\ post' = "notify" /\ work' \in {"none", "begin"} /\ answers' = answers
  <2>1. PageTypeOK' /\ RowInv' /\ Truth' /\ ListsInv'
    BY <1>1, <1>3
       DEF PageInv, PageTypeOK, RowInv, Truth, ListsInv, Unsaved, InView, Statuses, Final
  <2>2. (Placed' /\ Heard' /\ Unheard') \/ astray
    BY <1>1, <1>3 DEF PageInv, Placed, Heard, Unheard, Pending, InView, Final
  <2> QED
    BY <1>1, <1>2, <2>1, <2>2 DEF PageInv
<1>4. CASE post' = "sent" /\ work' = work /\ Reply("error")
  <2>1. /\ answers' \in Seq(Replies)
        /\ \A i \in DOMAIN answers' : \/ i \in DOMAIN answers /\ answers'[i] = answers[i]
                                      \/ answers'[i] = [call |-> Upload, body |-> "error"]
        /\ DOMAIN answers \subseteq DOMAIN answers'
        /\ \A i \in DOMAIN answers : answers'[i] = answers[i]
    <3>1. [call |-> Upload, body |-> "error"] \in Replies /\ answers \in Seq(Replies)
      BY DEF PageInv, PageTypeOK, Replies, Calls
    <3> QED
      BY <1>4, <3>1, Appended DEF Reply
  <2>2. PageTypeOK' /\ RowInv'
    BY <1>1, <1>4, <2>1 DEF PageInv, PageTypeOK, RowInv, Statuses, Final
  <2>3. Truth'
    BY <1>0, <1>1, <1>4, <2>1 DEF PageInv, Truth, Unsaved, Final
  <2>4. ListsInv'
    <3>1. \A i \in DOMAIN answers' : answers'[i].call \in Lists =>
            i \in DOMAIN answers /\ answers'[i] = answers[i]
      BY <1>0, <2>1
    <3> QED
      BY <1>0, <1>1, <3>1 DEF PageInv, ListsInv, InView
  <2>5. (Placed' /\ Heard' /\ Unheard') \/ astray
    <3>1. \A d : Pending(d) => Pending(d)'
      BY <1>1, <2>1 DEF Pending
    <3> QED
      BY <1>1, <1>4, <3>1 DEF PageInv, Placed, Heard, Unheard, InView, Final
  <2> QED
    BY <1>1, <1>2, <2>2, <2>3, <2>4, <2>5 DEF PageInv
<1> QED
  BY <1>1, <1>3, <1>4 DEF Save, Reply

\* A goroutine that begins a broadcast was in none.
LEMMA NotifyEffect ==
  ASSUME HubTypeOK, NEW n \in Notifiers, NEW event \in Events, Notify(n, event)
  PROVE  /\ send' = send /\ sock' = sock /\ clients' = clients
         /\ telling[n] = Silent
         /\ \A m \in Notifiers : m # n => telling'[m] = telling[m]
         /\ telling'[n] = IF clients = {} THEN Silent ELSE [event |-> event, to |-> clients]
BY DEF Notify, HubTypeOK

\* "queued" is not the last event.
LEMMA QueuedPage ==
  ASSUME PageInv, HubTypeOK, NotifyQueued
  PROVE  PageInv'
<1>1. /\ row' = row /\ post = "notify" /\ post' = "answer" /\ work' = work /\ mine' = mine
      /\ live' = live /\ card' = card /\ gen' = gen
      /\ asked' = asked /\ answers' = answers /\ heard' = heard /\ astray' = astray
  BY DEF NotifyQueued, page
<1>2. /\ send' = send /\ sock' = sock /\ telling["handler"] = Silent
      /\ \A m \in Notifiers : m # "handler" => telling'[m] = telling[m]
      /\ telling'["handler"].event \notin Ends
  BY NotifyEffect, NotifiersAssumption DEF NotifyQueued, Events, Silent, Ends
<1>3. PageTypeOK' /\ RowInv' /\ Truth' /\ ListsInv'
  BY <1>1 DEF PageInv, PageTypeOK, RowInv, Truth, ListsInv, Unsaved, InView
<1>4. Told'
  BY <1>1, <1>2 DEF PageInv, Told
<1>5. (Placed => Placed') /\ Heard'
  BY <1>1 DEF Placed, Heard, Pending, InView
<1>6. Unheard => Unheard'
  <2>1. EventComing => EventComing'
    BY <1>1, <1>2 DEF EventComing, Silent, Ends
  <2> QED
    BY <1>1, <2>1 DEF Unheard, Pending, Listed, InView
<1> QED
  BY <1>1, <1>3, <1>4, <1>5, <1>6 DEF PageInv

\* Nor is "processing"; the item is not final.
LEMMA BeginPage ==
  ASSUME PageInv, HubTypeOK, Begin
  PROVE  PageInv'
<1>1. /\ work = "begin" /\ row \notin Final /\ row # "absent" /\ post # "save"
      /\ row' \in {row, "processing"} /\ post' = post /\ mine' = mine
      /\ work' = "gone" \/ (work' = "build" /\ row' = "processing")
      /\ live' = live /\ card' = card /\ gen' = gen
      /\ asked' = asked /\ answers' = answers /\ heard' = heard /\ astray' = astray
  BY DEF Begin, page, PageInv, RowInv
<1>2. /\ send' = send
      /\ \A m \in Notifiers : telling'[m] = telling[m] \/ telling'[m].event \notin Ends
  <2>1. CASE Notify("worker", "processing")
    BY <2>1, NotifyEffect, NotifiersAssumption DEF Events, Silent, Ends
  <2>2. CASE UNCHANGED hubVars
    BY <2>2 DEF hubVars
  <2> QED
    BY <2>1, <2>2 DEF Begin
<1>3. PageTypeOK' /\ RowInv' /\ ListsInv'
  BY <1>1 DEF PageInv, PageTypeOK, RowInv, ListsInv, InView, Statuses, Final
<1>4. Told'
  BY <1>1, <1>2 DEF PageInv, Told
<1>5. Truth'
  BY <1>1 DEF PageInv, Truth, Unsaved, Final
<1>6. Placed => Placed'
  BY <1>1 DEF Placed, Pending, InView
<1>7. Heard' /\ Unheard'
  BY <1>1 DEF Heard, Unheard, PageInv, Truth, Final
<1> QED
  BY <1>1, <1>3, <1>4, <1>5, <1>6, <1>7 DEF PageInv

\* From here on the last event is to come; or none will, and a page is astray
\* if the item has ended.
LEMMA BuildPage ==
  ASSUME PageInv, Build
  PROVE  PageInv'
<1>1. /\ work = "build" /\ row \notin Final /\ row # "absent" /\ row' \in Final \cup {row}
      /\ post' = post /\ post # "save"
      /\ work' \in {"finish", "gone"} /\ mine' = mine /\ live' = live /\ card' = card
      /\ gen' = gen /\ asked' = asked /\ answers' = answers /\ heard' = heard
      /\ telling' = telling /\ send' = send
  BY DEF Build, page, hubVars, PageInv, RowInv, Final
<1>2. /\ astray' \in BOOLEAN /\ (~astray' => ~astray)
      /\ work' = "gone" /\ row' # row => astray'
  <2>1. CASE work' = "finish" /\ astray' = astray
    BY <2>1 DEF PageInv, PageTypeOK
  <2>2. CASE row' \in {row, "ready"} /\ astray' = (astray \/ row' = "ready")
    BY <2>2 DEF PageInv, PageTypeOK
  <2> QED
    BY <2>1, <2>2 DEF Build
<1>3. PageTypeOK' /\ RowInv' /\ ListsInv'
  BY <1>1, <1>2 DEF PageInv, PageTypeOK, RowInv, ListsInv, InView, Statuses, Final
<1>4. Told' /\ Truth'
  BY <1>1 DEF PageInv, Told, Truth, Unsaved, Final
<1>5. Placed => Placed'
  BY <1>1 DEF Placed, Pending, InView
<1>6. ~astray' => Heard' /\ Unheard'
  BY <1>1, <1>2 DEF Heard, Unheard, EventComing, PageInv, Truth
<1> QED
  BY <1>2, <1>3, <1>4, <1>5, <1>6 DEF PageInv

\* A page in the hub at this moment is among the receivers; another is astray.
LEMMA FinalPage ==
  ASSUME PageInv, HubTypeOK, NotifyFinal
  PROVE  PageInv'
<1>1. /\ row' = row /\ post' = post /\ work = "finish" /\ work' = "done" /\ mine' = mine
      /\ live' = live /\ card' = card /\ gen' = gen
      /\ asked' = asked /\ answers' = answers /\ heard' = heard
      /\ astray' = (astray \/ mine \notin clients)
  BY DEF NotifyFinal, page, PageInv, RowInv
<1>2. Notify("worker", EndOf(row)) /\ EndOf(row) \in Events /\ EndOf(row) \in Ends
  BY DEF NotifyFinal, EndOf, Events, Ends
<1>3. /\ send' = send /\ clients' = clients
      /\ \A m \in Notifiers : m # "worker" => telling'[m] = telling[m]
      /\ telling'["worker"] = IF clients = {} THEN Silent
                              ELSE [event |-> EndOf(row), to |-> clients]
  BY <1>2, NotifyEffect, NotifiersAssumption
<1>4. PageTypeOK' /\ RowInv' /\ Truth' /\ ListsInv'
  <2>1. astray' \in BOOLEAN
    BY <1>1 DEF PageInv, PageTypeOK
  <2> QED
    BY <1>1, <2>1 DEF PageInv, PageTypeOK, RowInv, Truth, ListsInv, Unsaved, InView
<1>5. Told'
  BY <1>1, <1>3 DEF PageInv, Told, Silent, Ends
<1>6. ASSUME ~astray' PROVE Placed' /\ Heard' /\ Unheard'
  <2>1. Placed /\ Heard /\ mine \in clients
    BY <1>1, <1>6 DEF PageInv
  <2>2. mine # Offline
    BY <2>1 DEF HubTypeOK, Conns, Offline
  <2>3. telling'["worker"].event \in Ends /\ mine \in telling'["worker"].to
    BY <1>2, <1>3, <2>1
  <2>4. EventComing'
    BY <1>1, <2>2, <2>3, NotifiersAssumption DEF EventComing
  <2> QED
    BY <1>1, <2>1, <2>4 DEF Placed, Heard, Unheard, Pending, Shown, InView
<1> QED
  BY <1>4, <1>5, <1>6 DEF PageInv

\* A list that is asked for is to come, and no answer for it is there yet.
LEMMA ChangeViewPage ==
  ASSUME PageInv, ChangeView
  PROVE  PageInv'
<1>0. gen \in Nat /\ gen + 1 \in Lists /\ Get \notin Lists /\ MaxLoads \in Nat
  BY LoadsAssumption DEF ChangeView, PageInv, PageTypeOK, Lists, Get
<1>1. /\ row' = row /\ post' = post /\ work' = work /\ mine' = mine
      /\ live' = live /\ card' = card /\ gen' = gen + 1 /\ asked' = asked \cup {gen + 1}
      /\ answers' = answers /\ heard' = heard /\ astray' = astray
      /\ telling' = telling /\ send' = send
  BY DEF ChangeView, server, hubVars
<1>2. \A i \in DOMAIN answers : answers[i].call # gen + 1
  <2>1. ASSUME NEW i \in DOMAIN answers, answers[i].call = gen + 1 PROVE FALSE
    <3>1. answers[i].call <= gen
      BY <1>0, <2>1 DEF PageInv, ListsInv
    <3> QED
      BY <1>0, <2>1, <3>1
  <2> QED
    BY <2>1
<1>3. PageTypeOK' /\ RowInv' /\ Told'
  BY <1>0, <1>1 DEF PageInv, PageTypeOK, RowInv, Told
<1>4. Truth'
  BY <1>0, <1>1 DEF PageInv, Truth, Unsaved
<1>5. ListsInv'
  <2>1. \A c \in Lists : c <= gen => c <= gen + 1
    BY <1>0, LoadsAssumption DEF Lists
  <2>2. \A c \in asked' : c \in Lists => c <= gen'
    BY <1>0, <1>1, <2>1 DEF PageInv, ListsInv
  <2>3. \A i \in DOMAIN answers' : answers'[i].call \in Lists =>
          /\ answers'[i].call <= gen'
          /\ ~InView(answers'[i].call) => answers'[i].body \in {"absent", "error"}
          /\ answers'[i].call # gen'
    BY <1>1, <1>2, <2>1 DEF PageInv, ListsInv
  <2> QED
    BY <2>2, <2>3 DEF ListsInv, InView
<1>6. Placed' /\ Heard' /\ Unheard'
  BY <1>1, <1>2 DEF Placed, Heard, Unheard, Pending, Listed
<1> QED
  BY <1>1, <1>3, <1>4, <1>5, <1>6 DEF PageInv

\* An answer says what the row is at that moment, or that the call has failed.
LEMMA ServeCallPage ==
  ASSUME PageInv, NEW c \in Calls, ServeCall(c)
  PROVE  PageInv'
<1>0. Get \notin Lists /\ Upload \notin Lists /\ Get # Upload /\ Lists \subseteq Nat /\ gen \in Lists
  BY LoadsAssumption DEF PageInv, PageTypeOK, Lists, Get, Upload
<1>1. PICK body \in {IF c = Get THEN row ELSE Listed(c), "error"} :
        answers' = Append(answers, [call |-> c, body |-> body])
  BY DEF ServeCall
<1>2. /\ row' = row /\ post' = post /\ work' = work /\ mine' = mine
      /\ live' = live /\ card' = card /\ gen' = gen
      /\ c \in asked /\ asked' = asked \ {c} /\ heard' = heard /\ astray' = astray
      /\ telling' = telling /\ send' = send /\ sock' = sock
  BY DEF ServeCall, server, hubVars
<1> DEFINE a == [call |-> c, body |-> body]
           z == Len(answers) + 1
<1>3. a \in Replies /\ answers \in Seq(Replies) /\ a.call = c /\ a.body = body
  BY <1>1 DEF PageInv, PageTypeOK, Replies, Listed, Statuses
<1>4. c \in Lists \/ c = Get
  BY <1>2 DEF PageInv, PageTypeOK
<1>5. /\ c = Get => body \in {"ready", "error"} /\ heard
      /\ c \in Lists => body \in {Listed(c), "error"}
      /\ body \in Final => row = body
      /\ body \notin {"absent", "error"} => row # "absent"
  BY <1>0, <1>1, <1>2, <1>4 DEF PageInv, Truth, Listed, Final
<1>6. answers' = Append(answers, a)
  BY <1>1
<1> HIDE DEF a, z
<1>7. /\ answers' \in Seq(Replies)
      /\ DOMAIN answers \subseteq DOMAIN answers'
      /\ \A i \in DOMAIN answers : answers'[i] = answers[i]
      /\ z \in DOMAIN answers' /\ z \notin DOMAIN answers /\ answers'[z] = a
      /\ \A i \in DOMAIN answers' : i \in DOMAIN answers \/ i = z
  BY <1>3, <1>6, Appended DEF z
<1>8. PageTypeOK' /\ RowInv' /\ Told'
  BY <1>0, <1>2, <1>3, <1>4, <1>7 DEF PageInv, PageTypeOK, RowInv, Told
<1>9. Truth'
  BY <1>0, <1>2, <1>3, <1>4, <1>5, <1>7 DEF PageInv, Truth, Unsaved
<1>10. ListsInv'
  <2>1. \A d \in asked' : d \in Lists => d <= gen'
    BY <1>2 DEF PageInv, ListsInv
  <2>2. ASSUME NEW i \in DOMAIN answers', answers'[i].call \in Lists
        PROVE  /\ answers'[i].call <= gen'
               /\ ~InView(answers'[i].call) => answers'[i].body \in {"absent", "error"}
               /\ answers'[i].call = gen' =>
                    gen' \notin asked' /\ \A j \in DOMAIN answers' : answers'[j].call = gen' => j = i
    <3>1. CASE i = z
      <4>1. c \in Lists /\ c <= gen /\ (~InView(c) => body \in {"absent", "error"})
        BY <1>2, <1>3, <1>5, <1>7, <2>2, <3>1 DEF PageInv, ListsInv, Listed
      <4>2. c = gen => \A j \in DOMAIN answers : answers[j].call # gen
        BY <1>0, <1>2 DEF PageInv, ListsInv
      <4> QED
        BY <1>2, <1>3, <1>7, <3>1, <4>1, <4>2
    <3>2. CASE i # z
      <4>1. i \in DOMAIN answers /\ answers'[i] = answers[i]
        BY <1>7, <3>2
      <4>2. answers[i].call = gen => c # gen
        BY <1>2, <2>2, <4>1 DEF PageInv, ListsInv
      <4> QED
        BY <1>2, <1>3, <1>7, <2>2, <4>1, <4>2 DEF PageInv, ListsInv
    <3> QED
      BY <3>1, <3>2
  <2> QED
    BY <2>1, <2>2 DEF ListsInv, InView
<1>11. \A d : Pending(d) => Pending(d)'
  BY <1>2, <1>3, <1>7 DEF Pending
<1>12. Placed => Placed'
  BY <1>2, <1>11 DEF Placed, InView
<1>13. Heard => Heard'
  BY <1>2, <1>11 DEF Heard, Shown, InView
<1>14. Unheard => Unheard'
  <2>1. EventComing => EventComing'
    BY <1>2 DEF EventComing
  <2>2. ASSUME Unheard, ~heard, row \in Final, ~EventComing,
               NEW i \in DOMAIN answers', answers'[i].call = gen
        PROVE  answers'[i].body \in {Listed(gen), "error"}
    BY <1>0, <1>3, <1>5, <1>7, <2>2 DEF Unheard
  <2> QED
    BY <1>2, <1>11, <2>1, <2>2 DEF Unheard, Listed, InView
<1> QED
  BY <1>2, <1>8, <1>9, <1>10, <1>12, <1>13, <1>14 DEF PageInv

\* The upload's answer is on its way.
LEMMA AnswerPage ==
  ASSUME PageInv, Answer
  PROVE  PageInv'
<1>0. Upload \notin Lists /\ Get # Upload /\ gen \in Lists
  BY LoadsAssumption DEF PageInv, PageTypeOK, Lists, Get, Upload
<1> DEFINE a == [call |-> Upload, body |-> "pending"]
           z == Len(answers) + 1
<1>1. /\ row' = row /\ work' = work /\ mine' = mine
      /\ live' = live /\ card' = card /\ gen' = gen
      /\ asked' = asked /\ heard' = heard /\ astray' = astray
      /\ telling' = telling /\ send' = send /\ sock' = sock
      /\ post = "answer" /\ post' = "sent" /\ answers' = Append(answers, a)
  BY DEF Answer, Reply, hubVars
<1>2. a \in Replies /\ answers \in Seq(Replies) /\ a.call = Upload /\ a.body = "pending"
  BY DEF PageInv, PageTypeOK, Replies, Statuses, Calls
<1> HIDE DEF a, z
<1>3. /\ answers' \in Seq(Replies)
      /\ DOMAIN answers \subseteq DOMAIN answers'
      /\ \A i \in DOMAIN answers : answers'[i] = answers[i]
      /\ z \in DOMAIN answers' /\ z \notin DOMAIN answers /\ answers'[z] = a
      /\ \A i \in DOMAIN answers' : i \in DOMAIN answers \/ i = z
  BY <1>1, <1>2, Appended DEF z
<1>4. PageTypeOK' /\ RowInv' /\ Told'
  BY <1>1, <1>3 DEF PageInv, PageTypeOK, RowInv, Told
<1>5. Truth'
  BY <1>0, <1>1, <1>2, <1>3 DEF PageInv, Truth, RowInv, Unsaved, Final
<1>6. ListsInv'
  <2>1. ASSUME NEW i \in DOMAIN answers', answers'[i].call \in Lists
        PROVE  /\ i \in DOMAIN answers /\ answers'[i] = answers[i]
               /\ answers[i].call = gen =>
                    \A j \in DOMAIN answers' : answers'[j].call = gen => j = i
    BY <1>0, <1>2, <1>3, <2>1 DEF PageInv, ListsInv
  <2> QED
    BY <1>1, <2>1 DEF PageInv, ListsInv, InView
<1>7. \A d : Pending(d) => Pending(d)'
  BY <1>1, <1>3 DEF Pending
<1>8. Placed => Placed'
  BY <1>1, <1>7 DEF Placed, InView
<1>9. Heard => Heard'
  BY <1>1, <1>7 DEF Heard, Shown, InView
<1>10. Unheard => Unheard'
  <2>1. EventComing => EventComing'
    BY <1>1 DEF EventComing
  <2>2. \A i \in DOMAIN answers' :
          answers'[i].call = gen => i \in DOMAIN answers /\ answers'[i] = answers[i]
    BY <1>0, <1>2, <1>3
  <2> QED
    BY <1>1, <1>7, <2>1, <2>2 DEF Unheard, Listed, InView
<1> QED
  BY <1>1, <1>4, <1>5, <1>6, <1>8, <1>9, <1>10 DEF PageInv

\* What holds after an answer is taken, whichever it is.
LEMMA HandleRest ==
  ASSUME PageInv, NEW i \in DOMAIN answers, answers' = RemoveAt(answers, i),
         gen' = gen, asked' = asked
  PROVE  /\ answers' \in Seq(Replies)
         /\ \A j \in DOMAIN answers' : \E l \in DOMAIN answers : l # i /\ answers'[j] = answers[l]
         /\ \A c : c # answers[i].call /\ Pending(c) => Pending(c)'
         /\ ListsInv'
<1>1. answers \in Seq(Replies) /\ gen \in Lists
  BY DEF PageInv, PageTypeOK
<1>2. /\ answers' \in Seq(Replies)
      /\ \A j \in DOMAIN answers' : \E l \in DOMAIN answers : l # i /\ answers'[j] = answers[l]
      /\ \A l \in DOMAIN answers : l # i => \E j \in DOMAIN answers' : answers'[j] = answers[l]
  BY <1>1, Others
<1>3. \A c : c # answers[i].call /\ Pending(c) => Pending(c)'
  BY <1>2 DEF Pending
<1> DEFINE P == {a \in Replies : a.call = gen}
<1>4. \A j \in DOMAIN answers' : answers'[j] \in Replies
  BY <1>2, LenProperties
<1>5. \A j \in DOMAIN answers : answers[j] \in Replies
  BY <1>1, LenProperties
<1>6. \A l, m \in DOMAIN answers : answers[l] \in P /\ answers[m] \in P => l = m
  BY <1>1, <1>5 DEF PageInv, ListsInv
<1>7. \A l, m \in DOMAIN answers' : answers'[l] \in P /\ answers'[m] \in P => l = m
  <2> HIDE DEF P
  <2> QED
    BY <1>1, <1>6, OnceStill
<1>8. \A l, m \in DOMAIN answers' : answers'[l].call = gen /\ answers'[m].call = gen => l = m
  BY <1>4, <1>7
<1>9. ListsInv'
  BY <1>2, <1>8 DEF PageInv, ListsInv, InView
<1> QED
  BY <1>2, <1>3, <1>9

\* The upload's answer puts a pending item into the list; after the last event
\* that leaves the page astray.
LEMMA UploadedPage ==
  ASSUME PageInv, NEW i \in DOMAIN answers, answers[i].call = Upload, Handle(i)
  PROVE  PageInv'
<1>0. Upload \notin Lists /\ Get # Upload /\ Get \notin Lists /\ gen \in Lists
  BY LoadsAssumption DEF PageInv, PageTypeOK, Lists, Get, Upload
<1>1. /\ row' = row /\ work' = work /\ mine' = mine /\ gen' = gen /\ asked' = asked
      /\ heard' = heard /\ telling' = telling /\ send' = send /\ sock' = sock
      /\ answers' = RemoveAt(answers, i) /\ post # "save" /\ post' = "done"
  BY <1>0 DEF Handle, OnUploaded, hubVars, PageInv, RowInv
<1>2. \/ /\ answers[i].body # "error" /\ live' = "queued"
         /\ card' = IF InView(gen) /\ card = "absent" THEN "pending" ELSE card
         /\ astray' = (astray \/ heard)
      \/ astray' = (astray \/ row # "absent") /\ live' = live /\ card' = card
  BY <1>0 DEF Handle, OnUploaded
<1>3. /\ answers' \in Seq(Replies)
      /\ \A j \in DOMAIN answers' : \E l \in DOMAIN answers : l # i /\ answers'[j] = answers[l]
      /\ \A c : c # Upload /\ Pending(c) => Pending(c)'
      /\ ListsInv'
  BY <1>1, HandleRest
<1>4. PageTypeOK'
  <2>1. astray' \in BOOLEAN
    <3>1. CASE astray' = (astray \/ row # "absent")
      BY <3>1 DEF PageInv, PageTypeOK
    <3>2. CASE astray' = (astray \/ heard)
      BY <3>2 DEF PageInv, PageTypeOK
    <3> QED
      BY <1>2, <3>1, <3>2
  <2> QED
    BY <1>1, <1>2, <1>3, <2>1 DEF PageInv, PageTypeOK, Events, Statuses
<1>5. RowInv' /\ Told'
  BY <1>1, <1>3 DEF PageInv, RowInv, Told
<1>6. Truth'
  <2>1. answers[i].body = "error" \/ row # "absent"
    BY DEF PageInv, Truth
  <2> QED
    BY <1>1, <1>2, <1>3, <2>1 DEF PageInv, Truth, Unsaved
<1>7. ASSUME ~astray' PROVE Placed' /\ Heard' /\ Unheard'
  <2>1. /\ Placed /\ Unheard /\ (heard => row = "absent")
        /\ \/ card' = IF InView(gen) /\ card = "absent" THEN "pending" ELSE card
           \/ card' = card /\ row = "absent"
    BY <1>2, <1>7 DEF PageInv
  <2>2. Pending(gen) => Pending(gen)'
    BY <1>0, <1>1, <1>3 DEF Pending
  <2>3. Placed'
    BY <1>1, <2>1, <2>2 DEF Placed, InView
  <2>4. Heard'
    BY <1>1, <2>1 DEF Heard, Final
  <2>5. Unheard'
    <3>1. EventComing => EventComing'
      BY <1>1 DEF EventComing
    <3>2. row \in Final => row # "absent"
      BY DEF Final
    <3> QED
      BY <1>1, <1>3, <2>1, <2>2, <3>1, <3>2 DEF Unheard, Listed, InView
  <2> QED
    BY <2>3, <2>4, <2>5
<1> QED
  BY <1>3, <1>4, <1>5, <1>6, <1>7 DEF PageInv

\* The copy that a "completed" event makes the page get is of a ready item.
LEMMA GotPage ==
  ASSUME PageInv, NEW i \in DOMAIN answers, answers[i].call = Get, Handle(i)
  PROVE  PageInv'
<1>0. Upload \notin Lists /\ Get # Upload /\ Get \notin Lists /\ gen \in Lists
  BY LoadsAssumption DEF PageInv, PageTypeOK, Lists, Get, Upload
<1> DEFINE body == answers[i].body
<1>1. /\ row' = row /\ work' = work /\ mine' = mine /\ gen' = gen /\ asked' = asked
      /\ heard' = heard /\ telling' = telling /\ send' = send
      /\ answers' = RemoveAt(answers, i) /\ post' = post /\ live' = "none"
      /\ card' = IF body = "error" \/ card = "absent" THEN card ELSE body
      /\ astray' = (astray \/ body = "error")
  BY <1>0 DEF Handle, OnGot, hubVars
<1>2. body \in {"ready", "error"} /\ heard /\ row = "ready"
  BY DEF PageInv, Truth
<1> HIDE DEF body
<1>3. /\ answers' \in Seq(Replies)
      /\ \A j \in DOMAIN answers' : \E l \in DOMAIN answers : l # i /\ answers'[j] = answers[l]
      /\ \A c : c # Get /\ Pending(c) => Pending(c)'
      /\ ListsInv'
  BY <1>1, HandleRest
<1>4. PageTypeOK'
  <2>1. astray' \in BOOLEAN
    BY <1>1 DEF PageInv, PageTypeOK
  <2> QED
    BY <1>1, <1>2, <1>3, <2>1 DEF PageInv, PageTypeOK, Statuses, Final
<1>5. RowInv' /\ Told'
  BY <1>1, <1>3 DEF PageInv, RowInv, Told
<1>6. Truth'
  BY <1>1, <1>2, <1>3 DEF PageInv, Truth, Unsaved
<1>7. ASSUME ~astray' PROVE Placed' /\ Heard' /\ Unheard'
  <2>1. Placed /\ row = "ready" /\ card' = IF card = "absent" THEN card ELSE "ready"
    BY <1>1, <1>2, <1>7 DEF PageInv
  <2>2. Pending(gen) => Pending(gen)'
    BY <1>0, <1>1, <1>3 DEF Pending
  <2>3. Placed'
    BY <1>1, <2>1, <2>2 DEF Placed, InView
  <2>4. Heard'
    <3>1. CASE card = "absent"
      BY <1>1, <2>1, <2>2, <3>1 DEF Placed, Heard, InView
    <3>2. CASE card # "absent"
      BY <1>1, <2>1, <3>2 DEF Heard, Shown
    <3> QED
      BY <3>1, <3>2
  <2>5. Unheard'
    BY <1>1, <1>2 DEF Unheard
  <2> QED
    BY <2>3, <2>4, <2>5
<1> QED
  BY <1>3, <1>4, <1>5, <1>6, <1>7 DEF PageInv

\* A list for the view of now that is up to date sets the page right; one
\* that is not may come before the end is known, else the page is astray.
LEMMA ListedPage ==
  ASSUME PageInv, NEW i \in DOMAIN answers, answers[i].call \in Lists, Handle(i)
  PROVE  PageInv'
<1>0. Upload \notin Lists /\ Get \notin Lists /\ gen \in Lists
  BY LoadsAssumption DEF PageInv, PageTypeOK, Lists, Get, Upload
<1> DEFINE body == answers[i].body
           c == answers[i].call
<1>1. /\ row' = row /\ work' = work /\ mine' = mine /\ gen' = gen /\ asked' = asked
      /\ heard' = heard /\ telling' = telling /\ send' = send /\ sock' = sock
      /\ answers' = RemoveAt(answers, i) /\ post' = post /\ live' = live
      /\ card' = IF c = gen /\ body # "error" THEN body ELSE card
      /\ astray' = IF c # gen THEN astray
                   ELSE body # Listed(c) /\ (astray \/ heard \/ post = "done" \/ body = "error")
  BY <1>0 DEF Handle, OnListed, hubVars
<1>2. /\ body \in Statuses \cup {"error"} /\ (body \in Final => row = body)
      /\ body \notin {"absent", "error"} => row # "absent"
      /\ ~InView(c) => body \in {"absent", "error"}
  <2>1. answers[i] \in Replies
    BY LenProperties DEF PageInv, PageTypeOK
  <2> QED
    BY <2>1 DEF PageInv, Truth, ListsInv, Replies
<1>3. /\ answers' \in Seq(Replies)
      /\ \A j \in DOMAIN answers' : \E l \in DOMAIN answers : l # i /\ answers'[j] = answers[l]
      /\ \A d : d # c /\ Pending(d) => Pending(d)'
      /\ ListsInv'
  BY <1>1, HandleRest
<1>3a. c = gen => \A l \in DOMAIN answers : l # i => answers[l].call # gen
  BY <1>0 DEF PageInv, ListsInv
<1> HIDE DEF body, c
<1>4. PageTypeOK'
  <2>1. astray' \in BOOLEAN
    BY <1>1 DEF PageInv, PageTypeOK
  <2> QED
    BY <1>1, <1>2, <1>3, <2>1 DEF PageInv, PageTypeOK
<1>5. RowInv' /\ Told'
  BY <1>1, <1>3 DEF PageInv, RowInv, Told
<1>6. Truth'
  BY <1>1, <1>2, <1>3 DEF PageInv, Truth, Unsaved, Final
<1>7. EventComing => EventComing'
  BY <1>1 DEF EventComing
<1>8. CASE c # gen
  <2>1. card' = card /\ astray' = astray /\ (Pending(gen) => Pending(gen)')
    BY <1>1, <1>3, <1>8
  <2>2. Pending(Get) => Pending(Get)'
    BY <1>0, <1>3 DEF c
  <2>3. Placed => Placed'
    BY <1>1, <2>1 DEF Placed, InView
  <2>4. Heard => Heard'
    BY <1>1, <2>1, <2>2 DEF Heard, Shown, InView
  <2>5. Unheard => Unheard'
    BY <1>1, <1>3, <1>7, <2>1 DEF Unheard, Listed, InView
  <2> QED
    BY <1>3, <1>4, <1>5, <1>6, <2>1, <2>3, <2>4, <2>5 DEF PageInv
<1>9. ASSUME c = gen, ~astray' PROVE Placed' /\ Heard' /\ Unheard'
  <2>1. /\ body # "error" /\ card' = body
        /\ body = Listed(gen) \/ ~(astray \/ heard \/ post = "done")
    <3>1. Listed(gen) # "error"
      BY DEF Listed, PageInv, PageTypeOK, Statuses, Final
    <3> QED
      BY <1>1, <1>9, <3>1
  <2>2. Placed'
    <3>1. CASE ~InView(gen)
      BY <1>1, <1>2, <1>9, <2>1, <3>1 DEF Placed, InView
    <3>2. CASE InView(gen) /\ body = Listed(gen)
      BY <1>1, <2>1, <3>2 DEF Placed, Listed, InView, PageInv, RowInv
    <3>3. CASE InView(gen) /\ post # "done"
      BY <1>1, <3>3 DEF Placed, InView
    <3> QED
      BY <2>1, <3>1, <3>2, <3>3
  <2>3. Heard'
    <3> SUFFICES ASSUME heard, row \in Final, InView(gen) PROVE Shown' = row
      BY <1>1 DEF Heard, InView
    <3>1. body = row
      BY <2>1 DEF Listed
    <3> QED
      BY <1>1, <2>1, <3>1 DEF Shown, PageInv, Truth, Unsaved, Final
  <2>4. Unheard'
    <3> SUFFICES ASSUME ~heard, row \in Final, ~EventComing
                 PROVE  InView(gen) => card' = row
      BY <1>1, <1>3, <1>3a, <1>7, <1>9 DEF Unheard, InView
    <3>1. body = Listed(gen)
      <4>1. CASE astray
        BY <2>1, <4>1
      <4>2. CASE ~astray
        <5>1. body \in {Listed(gen), "error"}
          BY <1>9, <4>2 DEF PageInv, Unheard, body, c
        <5> QED
          BY <2>1, <5>1
      <4> QED
        BY <4>1, <4>2 DEF PageInv, PageTypeOK
    <3> QED
      BY <2>1, <3>1 DEF Listed
  <2> QED
    BY <2>2, <2>3, <2>4
<1> QED
  BY <1>3, <1>4, <1>5, <1>6, <1>8, <1>9 DEF PageInv

\* Every step keeps what relates the page to the row.
LEMMA PageStep == PageInv /\ HubTypeOK /\ IndInv /\ [Next]_vars => PageInv'
<1> SUFFICES ASSUME PageInv, HubTypeOK, IndInv, [Next]_vars PROVE PageInv'
  OBVIOUS
<1>1. CASE Save \/ NotifyQueued \/ Answer \/ Begin \/ Build \/ NotifyFinal
  BY <1>1, SavePage, QueuedPage, AnswerPage, BeginPage, BuildPage, FinalPage
<1>2. ASSUME NEW n \in Notifiers, Run(n) PROVE PageInv'
  BY <1>2, SendPage DEF Run
<1>3. ASSUME NEW k \in Conns,
             Connect(k) \/ Deliver(k) \/ ((Pump(k) \/ WriteFails(k) \/ Lose(k)) /\ Page)
      PROVE  PageInv'
  BY <1>3, ConnectPage, DeliverPage, PumpPage
<1>4. CASE Disconnect \/ ChangeView
  BY <1>4, DisconnectPage, ChangeViewPage
<1>5. ASSUME NEW c \in Calls, ServeCall(c) PROVE PageInv'
  BY <1>5, ServeCallPage
<1>6. ASSUME NEW i \in DOMAIN answers, Handle(i) PROVE PageInv'
  BY <1>6, UploadedPage, GotPage, ListedPage DEF Handle
<1>7. CASE UNCHANGED vars
  <2>1. UNCHANGED <<server, mine, page, astray, telling, send, sock>>
    BY <1>7 DEF vars, hubVars
  <2>2. Told' /\ (EventComing => EventComing')
    BY <2>1 DEF PageInv, Told, EventComing, server
  <2> QED
    BY <2>1, <2>2, HubOnly DEF PageInv, PageTypeOK
<1> QED
  BY <1>1, <1>2, <1>3, <1>4, <1>5, <1>6, <1>7 DEF Next

\* The invariants of the hub and of the page hold throughout.
LEMMA Invariance == Spec => [](IndInv /\ HubTypeOK /\ PageInv)
<1>1. Init => IndInv /\ HubTypeOK /\ PageInv
  BY InitInv, HubTypeInit, PageInit DEF Init
<1>2. IndInv /\ HubTypeOK /\ PageInv /\ [Next]_vars => (IndInv /\ HubTypeOK /\ PageInv)'
  BY StepInv, HubTypeStep, PageStep
<1> QED
  BY <1>1, <1>2, PTL DEF Spec

\* LibraryView.TypeOK: no channel takes more than it holds, and the page and
\* the server stay in their states.
THEOREM ViewTypeCorrect == Spec => []TypeOK
<1>1. HubTypeOK /\ PageInv => TypeOK
  <2> SUFFICES ASSUME HubTypeOK, PageInv PROVE TypeOK
    OBVIOUS
  <2>1. ASSUME NEW i \in DOMAIN answers
        PROVE  answers[i] \in [call : Calls, body : Statuses \cup {"error"}]
    <3>1. answers \in Seq(Replies)
      BY DEF PageInv, PageTypeOK
    <3>2. answers[i] \in Replies
      BY <2>1, <3>1, LenProperties
    <3> QED
      BY <3>2 DEF Replies
  <2>2. asked \subseteq Calls
    BY DEF PageInv, PageTypeOK, Calls
  <2> QED
    BY <2>1, <2>2 DEF PageInv, PageTypeOK, TypeOK
<1> QED
  BY <1>1, Invariance, PTL

\* NothingInvented: whatever the page has missed or got late, an item it shows
\* as ready is ready, and one it shows as failed is, or could not be saved.
THEOREM NothingIsInvented == Spec => []NothingInvented
<1>1. PageInv => NothingInvented
  BY DEF PageInv, Truth, NothingInvented, Shown
<1> QED
  BY <1>1, Invariance, PTL

\* ViewConverges: when nothing is on its way any more, a page that is not
\* astray shows the item where it belongs and as it is, or as a failure that
\* could not be saved.
THEOREM ViewAlwaysConverges == Spec => []ViewConverges
<1>1. HubTypeOK /\ PageInv => ViewConverges
  <2> SUFFICES ASSUME HubTypeOK, PageInv, Quiet, ~astray
               PROVE  IF InView(gen) /\ row # "absent"
                      THEN /\ card # "absent"
                           /\ \/ Shown = (IF row \in Final THEN row ELSE "working")
                              \/ Shown = "failed" /\ Unsaved
                      ELSE card = "absent"
    BY DEF ViewConverges
  <2>1. /\ PageTypeOK /\ RowInv /\ Truth /\ Placed /\ Heard /\ Unheard
        /\ post = "done" /\ work # "finish"
    BY DEF PageInv, Quiet
  <2>2. \A c : ~Pending(c)
    <3>1. asked = {} /\ answers = <<>>
      BY DEF Quiet
    <3>2. DOMAIN answers = {}
      BY <3>1
    <3> QED
      BY <3>1, <3>2 DEF Pending
  <2>3. IF InView(gen) /\ row # "absent" THEN card # "absent" ELSE card = "absent"
    BY <2>1, <2>2 DEF Placed, Truth
  <2>4. ~EventComing
    <3>1. \A n \in Notifiers : telling[n].event \notin Ends
      BY DEF Quiet, Unlocked, Silent, Ends
    <3>2. mine # Offline => sock[mine] = "open" /\ send[mine] = <<>> /\ DOMAIN <<>> = {}
      BY DEF Quiet
    <3> QED
      BY <2>1, <3>1, <3>2 DEF EventComing
  <2>5. CASE row \notin Final
    BY <2>1, <2>3, <2>5 DEF Truth, Shown, Final
  <2>6. CASE row \in Final /\ InView(gen)
    <3>1. heard => Shown = row
      BY <2>1, <2>2, <2>6 DEF Heard
    <3>2. ~heard => card = row
      BY <2>1, <2>2, <2>4, <2>6 DEF Unheard
    <3>3. card = row => Shown = row
      BY <2>1, <2>6 DEF Truth, Shown, Unsaved, Final
    <3> QED
      BY <2>1, <2>3, <2>6, <3>1, <3>2, <3>3 DEF PageTypeOK
  <2> QED
    BY <2>3, <2>5, <2>6
<1> QED
  BY <1>1, Invariance, PTL
=============================================================================
