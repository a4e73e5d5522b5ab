------------------------------ MODULE EventHub ------------------------------
(***************************************************************************)
(* The WebSocket hub: internal/delivery/ws/hub.go and client.go.  A        *)
(* connection is registered under the hub's lock and then served by two    *)
(* goroutines, of which each ends through the other: the reader leaves the *)
(* hub and closes the channel the writer waits on; the writer closes the   *)
(* socket the reader reads from.  NotifyMedia sends to the channels under  *)
(* the read lock, and skips one that is full.  LibraryView puts a web page *)
(* at the other end.                                                       *)
(***************************************************************************)
EXTENDS Naturals, Sequences

CONSTANTS
  MaxConns,   \* bound: connections that are opened
  Notifiers,  \* goroutines that call NotifyMedia
  Buffer      \* capacity of a client's channel (64 in the code)

ASSUME HubAssumption == MaxConns \in Nat /\ Buffer \in Nat \ {0}

Conns == 1 .. MaxConns  \* in the order in which they are opened

VARIABLES
  clients,   \* connections in the hub's map
  send,      \* send[k]: events in the client's channel
  closed,    \* connections whose channel is closed
  sock,      \* sock[k]: not there, open, lost (and not noticed), closed
  reader,    \* reader[k]: what its ServeWS, then its readPump, does next
  writer,    \* writer[k]: what its writePump does next
  telling,   \* telling[n]: the NotifyMedia that n is in, or Silent
  panicked   \* whether a send has met a closed channel

hubVars == <<clients, send, closed, sock, reader, writer, telling, panicked>>
pumps == <<reader, writer>>

Events == {"queued", "processing", "completed", "failed"}

\* Not in NotifyMedia, so not holding the read lock.
Silent == [event |-> "none", to |-> {}]
Unlocked == \A n \in Notifiers : telling[n] = Silent

HubTypeOK ==
  /\ clients \subseteq Conns /\ closed \subseteq Conns
  /\ send \in [Conns -> Seq(Events)]
  /\ \A k \in Conns : Len(send[k]) <= Buffer
  /\ sock \in [Conns -> {"none", "open", "lost", "closed"}]
  /\ reader \in [Conns -> {"none", "register", "read", "leave", "close", "done"}]
  /\ writer \in [Conns -> {"none", "wait", "done"}]
  /\ telling \in [Notifiers -> {Silent} \cup [event : Events, to : SUBSET Conns]]
  /\ panicked \in BOOLEAN

HubInit ==
  /\ clients = {} /\ closed = {}
  /\ send = [k \in Conns |-> <<>>]
  /\ sock = [k \in Conns |-> "none"]
  /\ reader = [k \in Conns |-> "none"] /\ writer = [k \in Conns |-> "none"]
  /\ telling = [n \in Notifiers |-> Silent]
  /\ panicked = FALSE
-----------------------------------------------------------------------------
(* NotifyMedia                                                             *)

\* The read lock is held, and the map does not change, until the last send.
Notify(n, event) ==
  /\ telling[n] = Silent
  /\ telling' = [telling EXCEPT ![n] = IF clients = {} THEN Silent
                                       ELSE [event |-> event, to |-> clients]]
  /\ UNCHANGED <<clients, send, closed, sock, pumps, panicked>>

Without(t, k) == IF t.to = {k} THEN Silent ELSE [t EXCEPT !.to = @ \ {k}]
Sent(n, k) ==
  /\ k \in telling[n].to
  /\ telling' = [telling EXCEPT ![n] = Without(telling[n], k)]

Full(k) == Len(send[k]) = Buffer

\* Mutant: a plain send, which waits for a slow client.
SendWaiting(n, k) ==
  /\ Sent(n, k)
  /\ k \in closed \/ ~Full(k)
  /\ panicked' = (panicked \/ k \in closed)
  /\ send' = IF k \in closed THEN send
             ELSE [send EXCEPT ![k] = Append(@, telling[n].event)]
  /\ UNCHANGED <<clients, closed, sock, pumps>>

\* Mutant: every event is kept for the client, however slow it is.
SendUnbounded(n, k) ==
  /\ Sent(n, k)
  /\ panicked' = (panicked \/ k \in closed)
  /\ send' = IF k \in closed THEN send
             ELSE [send EXCEPT ![k] = Append(@, telling[n].event)]
  /\ UNCHANGED <<clients, closed, sock, pumps>>

\* A closed channel panics; one that is full is skipped.
Send(n, k) ==
  /\ Sent(n, k)
  /\ panicked' = (panicked \/ k \in closed)
  /\ send' = IF k \in closed \/ Full(k) THEN send
             ELSE [send EXCEPT ![k] = Append(@, telling[n].event)]
  /\ UNCHANGED <<clients, closed, sock, pumps>>
-----------------------------------------------------------------------------
(* ServeWS and readPump                                                    *)

Upgrade(k) ==
  /\ sock[k] = "none" /\ \A j \in 1 .. k - 1 : sock[j] # "none"
  /\ sock' = [sock EXCEPT ![k] = "open"]
  /\ reader' = [reader EXCEPT ![k] = "register"]
  /\ UNCHANGED <<clients, send, closed, writer, telling, panicked>>

Register(k) ==
  /\ reader[k] = "register" /\ Unlocked
  /\ clients' = clients \cup {k}
  /\ reader' = [reader EXCEPT ![k] = "read"]
  /\ writer' = [writer EXCEPT ![k] = "wait"]
  /\ UNCHANGED <<send, closed, sock, telling, panicked>>

\* Mutant: no read deadline; only a socket closed on this side ends the read.
ReadFailsLate(k) ==
  /\ reader[k] = "read" /\ sock[k] = "closed"
  /\ reader' = [reader EXCEPT ![k] = "leave"]
  /\ UNCHANGED <<clients, send, closed, sock, writer, telling, panicked>>

\* The socket was closed on this side, or no pong came within pongWait.  (A
\* frame that is too large, or a close by the peer, is sock[k] = "lost", too.)
ReadFails(k) ==
  /\ reader[k] = "read" /\ sock[k] # "open"
  /\ reader' = [reader EXCEPT ![k] = "leave"]
  /\ UNCHANGED <<clients, send, closed, sock, writer, telling, panicked>>

\* Mutant: the map and the channel are touched without the lock.
UnregisterUnlocked(k) ==
  /\ reader[k] = "leave"
  /\ clients' = clients \ {k}
  /\ closed' = closed \cup {k}
  /\ reader' = [reader EXCEPT ![k] = "close"]
  /\ UNCHANGED <<send, sock, writer, telling, panicked>>

Unregister(k) ==
  /\ reader[k] = "leave" /\ Unlocked
  /\ clients' = clients \ {k}
  /\ closed' = IF k \in clients THEN closed \cup {k} ELSE closed
  /\ reader' = [reader EXCEPT ![k] = "close"]
  /\ UNCHANGED <<send, sock, writer, telling, panicked>>

CloseByReader(k) ==
  /\ reader[k] = "close"
  /\ sock' = [sock EXCEPT ![k] = "closed"]
  /\ reader' = [reader EXCEPT ![k] = "done"]
  /\ UNCHANGED <<clients, send, closed, writer, telling, panicked>>
-----------------------------------------------------------------------------
(* writePump                                                               *)

\* A write into a socket that is lost may seem to succeed.
Write(k) ==
  /\ writer[k] = "wait" /\ send[k] # <<>> /\ sock[k] # "closed"
  /\ send' = [send EXCEPT ![k] = Tail(@)]
  /\ UNCHANGED <<clients, closed, sock, pumps, telling, panicked>>

\* The deferred Close of a writer that returns.
WriterReturns(k) ==
  /\ writer[k] = "wait"
  /\ writer' = [writer EXCEPT ![k] = "done"]
  /\ sock' = [sock EXCEPT ![k] = "closed"]
  /\ UNCHANGED <<clients, closed, reader, telling, panicked>>

\* A write or a ping fails: the socket is closed or lost, or a peer that is
\* there did not read for writeWait.
WriteFails(k) ==
  /\ WriterReturns(k)
  /\ \/ send[k] # <<>> /\ send' = [send EXCEPT ![k] = Tail(@)]
     \/ UNCHANGED send

\* The channel is closed, and empty.
WriterDismissed(k) ==
  /\ WriterReturns(k)
  /\ k \in closed /\ send[k] = <<>>
  /\ UNCHANGED send

\* The network, or the page, goes away.
Lose(k) ==
  /\ sock[k] = "open"
  /\ sock' = [sock EXCEPT ![k] = "lost"]
  /\ UNCHANGED <<clients, send, closed, pumps, telling, panicked>>

\* What the server does about connection k by itself; a read or a write on a
\* socket it has closed fails at once, one on a lost socket in time.
Pump(k) ==
  \/ Register(k) \/ ReadFails(k) \/ Unregister(k) \/ CloseByReader(k)
  \/ WriterDismissed(k)
  \/ sock[k] = "closed" /\ WriteFails(k)
-----------------------------------------------------------------------------
\* No send ever meets a closed channel, though readers come to close it at any
\* moment of a broadcast: the panic would end the worker's job, or the
\* upload's answer.
NoPanic == ~panicked

\* A connection that broke leaves the hub, and both its goroutines end,
\* whichever of them noticed and whatever is still in its channel.
PumpsEnd == \A k \in Conns : sock[k] \in {"lost", "closed"} ~>
  k \notin clients /\ reader[k] = "done" /\ writer[k] = "done"

\* A broadcast ends, whatever its receivers do: a channel that nobody empties
\* any more must not hold the worker, nor the lock that its own reader needs
\* to leave.
BroadcastEnds == \A n \in Notifiers : telling[n] # Silent ~> telling[n] = Silent
=============================================================================
