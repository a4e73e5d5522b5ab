---------------------------- MODULE LibraryView ----------------------------
(***************************************************************************)
(* What a page of the web client shows of one upload while it is processed:*)
(* App.tsx and use-media-events.ts against the hub and the notifications   *)
(* of media_usecase.go.  The page learns of the item from the upload's     *)
(* answer, from the lists it loads, from events, and from the copy it gets *)
(* after a "completed" event.  Answers come in any order; events come only *)
(* while its socket is up, and nothing is fetched when it is up again.     *)
(***************************************************************************)
EXTENDS EventHub, SequencesExt

CONSTANTS
  MaxLoads,   \* bound: lists loaded after the first
  Library,    \* those of them, and of the first, that have the item in view
  MaxTrouble  \* bound: connections opened and lists loaded together, but one

ASSUME LoadsAssumption == MaxLoads \in Nat /\ MaxTrouble \in Nat
\* The goroutines that announce the upload: its handler and the worker.
ASSUME NotifiersAssumption == {"handler", "worker"} \subseteq Notifiers

VARIABLES
  row,      \* status of the item in the database
  post,     \* what the handler that completes the upload does next
  work,     \* what the worker does next
  mine,     \* the page's connection, or Offline
  live,     \* the page's last event for the item, or "none"
  card,     \* status of the page's copy of the item, or "absent"
  gen,      \* viewGen: number of the list the page is to show
  asked,    \* calls the server has not answered
  answers,  \* answers on their way, in the order they were made
  heard,    \* history: whether the page has had the item's last event
  astray    \* history: the page has missed or overwritten the end (see below)

server == <<row, post, work>>
page == <<live, card, gen, asked, answers, heard>>
vars == <<hubVars, server, mine, page, astray>>

Offline == 0
Final == {"ready", "failed"}
Ends == {"completed", "failed"}  \* last events of an item
Lists == 0 .. MaxLoads

\* A list is of the library, or of a view without the item (a favorites tab, a
\* search).
InView(g) == g \in Library

Get == MaxLoads + 1     \* getMedia, asked for at most once
Upload == MaxLoads + 2  \* POST .../complete
Calls == Lists \cup {Get, Upload}

Statuses == {"absent", "pending", "processing"} \cup Final

TypeOK ==
  /\ HubTypeOK
  /\ row \in Statuses /\ card \in Statuses
  /\ post \in {"save", "notify", "answer", "sent", "done"}
  /\ work \in {"none", "begin", "build", "finish", "done", "gone"}
  /\ mine \in Conns \cup {Offline}
  /\ live \in Events \cup {"none"}
  /\ gen \in Lists /\ asked \subseteq Calls
  /\ \A i \in DOMAIN answers :
       answers[i] \in [call : Calls, body : Statuses \cup {"error"}]
  /\ heard \in BOOLEAN /\ astray \in BOOLEAN

\* The first list is loaded.
Init ==
  /\ HubInit
  /\ row = "absent" /\ post = "save" /\ work = "none"
  /\ mine = Offline
  /\ live = "none" /\ card = "absent" /\ gen = 0
  /\ asked = {} /\ answers = <<>>
  /\ heard = FALSE /\ astray = FALSE
-----------------------------------------------------------------------------
(* The server: persistAndEnqueue and its answer, and Process.              *)

Reply(body) ==
  /\ post' = "sent"
  /\ answers' = Append(answers, [call |-> Upload, body |-> body])

\* The row, and the job; a full queue leaves the item pending.  An INSERT that
\* fails, or that reports an error although it is committed, is the answer.
Save ==
  /\ post = "save"
  /\ \/ /\ row' = "pending" /\ post' = "notify" /\ work' \in {"none", "begin"}
        /\ UNCHANGED answers
     \/ row' \in {"absent", "pending"} /\ Reply("error") /\ UNCHANGED work
  /\ UNCHANGED <<hubVars, mine, live, card, gen, asked, heard, astray>>

NotifyQueued ==
  /\ post = "notify"
  /\ Notify("handler", "queued") /\ post' = "answer"
  /\ UNCHANGED <<row, work, mine, page, astray>>

Answer ==
  /\ post = "answer" /\ telling["handler"] = Silent
  /\ Reply("pending")
  /\ UNCHANGED <<hubVars, row, work, mine, live, card, gen, asked, heard, astray>>

\* A FindByID or an UPDATE that reports an error ends Process without an event.
Begin ==
  /\ work = "begin"
  /\ \/ row' = "processing" /\ work' = "build" /\ Notify("worker", "processing")
     \/ row' \in {row, "processing"} /\ work' = "gone" /\ UNCHANGED hubVars
  /\ UNCHANGED <<post, mine, page, astray>>

\* Mutant: whatever error Process returns is announced as a failure.
BuildAlarming ==
  /\ work = "build" /\ telling["worker"] = Silent
  /\ \/ row' \in Final \cup {row} /\ work' = "finish" /\ UNCHANGED <<hubVars, astray>>
     \/ /\ row' \in {row, "ready"} /\ work' = "done" /\ astray' = TRUE
        /\ Notify("worker", "failed")
  /\ UNCHANGED <<post, mine, page>>

\* The derivatives are built, or not, and the row is saved.  A failure that
\* cannot be saved is announced all the same, and the row stays "processing";
\* when the UPDATE to "ready" reports an error nothing is announced.
Build ==
  /\ work = "build" /\ telling["worker"] = Silent
  /\ \/ row' \in Final \cup {row} /\ work' = "finish" /\ UNCHANGED astray
     \/ /\ row' \in {row, "ready"} /\ work' = "gone"
        /\ astray' = (astray \/ row' = "ready")
  /\ UNCHANGED <<hubVars, post, mine, page>>

\* A page that is not in the hub at this moment will not hear of it.
NotifyFinal ==
  /\ work = "finish"
  /\ Notify("worker", IF row = "ready" THEN "completed" ELSE "failed")
  /\ work' = "done"
  /\ astray' = (astray \/ mine \notin clients)
  /\ UNCHANGED <<row, post, mine, page>>

\* The last event is lost to a page whose channel is full.
SendEvent(n, k) ==
  /\ Send(n, k)
  /\ astray' = (astray \/ (k = mine /\ telling[n].event \in Ends
                           /\ Full(k)))
  /\ UNCHANGED <<server, mine, page>>

-----------------------------------------------------------------------------
(* use-media-events.ts                                                     *)

Calm == gen + Cardinality({k \in Conns : sock[k] # "none"}) <= MaxTrouble

Connect(k) ==
  /\ mine = Offline /\ Calm
  /\ Upgrade(k) /\ mine' = k
  /\ UNCHANGED <<server, page, astray>>

\* onclose.  What the old connection still held does not come any more.
Disconnect ==
  /\ mine # Offline /\ sock[mine] # "open"
  /\ mine' = Offline
  /\ astray' = (astray \/ (work = "done" /\ ~heard))
  /\ UNCHANGED <<hubVars, server, page>>

\* Mutant: the finished item is not fetched, only its event is kept.
OnEventUnfetched(event) ==
  /\ live' = event
  /\ card' = IF event = "failed" /\ card # "absent" THEN "failed" ELSE card
  /\ heard' = (heard \/ event \in Ends)
  /\ astray' = (astray \/ (event \notin Ends /\ heard))
  /\ UNCHANGED <<asked, gen, answers>>

\* onEvent.  An event that comes after the last one ("queued" is sent after
\* the item is in the queue) covers it.
OnEvent(event) ==
  /\ live' = event
  /\ card' = IF event = "failed" /\ card # "absent" THEN "failed" ELSE card
  /\ asked' = IF event = "completed" THEN asked \cup {Get} ELSE asked
  /\ heard' = (heard \/ event \in Ends)
  /\ astray' = (astray \/ (event \notin Ends /\ heard))
  /\ UNCHANGED <<gen, answers>>

Deliver(k) ==
  /\ Write(k)
  /\ IF k = mine /\ sock[k] = "open" THEN OnEvent(Head(send[k]))
     ELSE UNCHANGED <<page, astray>>
  /\ UNCHANGED <<server, mine>>
-----------------------------------------------------------------------------
(* App.tsx: lists, and answers in any order.                               *)

ChangeView ==
  /\ gen < MaxLoads /\ Calm
  /\ gen' = gen + 1 /\ asked' = asked \cup {gen + 1}
  /\ UNCHANGED <<hubVars, server, mine, live, card, answers, heard, astray>>

Listed(c) == IF InView(c) THEN row ELSE "absent"

\* The server answers a call, with what the database says now, or fails.
ServeCall(c) ==
  /\ c \in asked
  /\ asked' = asked \ {c}
  /\ \E body \in {IF c = Get THEN row ELSE Listed(c), "error"} :
       answers' = Append(answers, [call |-> c, body |-> body])
  /\ UNCHANGED <<hubVars, server, mine, live, card, gen, heard, astray>>

\* uploadFile has resolved; or the call failed, or its answer is lost, and the
\* page says that it failed, also when the item is there.
OnUploaded(body) ==
  /\ post' = "done"
  /\ \/ /\ body # "error" /\ live' = "queued"
        /\ card' = IF InView(gen) /\ card = "absent" THEN "pending" ELSE card
        /\ astray' = (astray \/ heard)
     \/ astray' = (astray \/ row # "absent") /\ UNCHANGED <<live, card>>

\* getMedia after "completed": the item is swapped in where it is shown.
OnGot(body) ==
  /\ live' = "none"
  /\ card' = IF body = "error" \/ card = "absent" THEN card ELSE body
  /\ astray' = (astray \/ body = "error")
  /\ UNCHANGED post

\* Mutant: an answer for an earlier view is taken, too.
OnListedAny(c, body) ==
  /\ card' = IF body # "error" THEN body ELSE card
  /\ astray' = IF c # gen THEN astray
               ELSE body # Listed(c) /\ (astray \/ heard \/ post = "done" \/ body = "error")
  /\ UNCHANGED <<live, post>>

\* listMedia for the view that is still the current one.  It sets the page
\* right if it is up to date; an older one may undo what an event, or the
\* upload's answer, has told the page since.
OnListed(c, body) ==
  /\ card' = IF c = gen /\ body # "error" THEN body ELSE card
  /\ astray' = IF c # gen THEN astray
               ELSE body # Listed(c) /\ (astray \/ heard \/ post = "done" \/ body = "error")
  /\ UNCHANGED <<live, post>>

Handle(i) ==
  /\ LET a == answers[i] IN
       \/ a.call = Upload /\ OnUploaded(a.body)
       \/ a.call = Get /\ OnGot(a.body)
       \/ a.call \in Lists /\ OnListed(a.call, a.body)
  /\ answers' = RemoveAt(answers, i)
  /\ UNCHANGED <<hubVars, row, work, mine, gen, asked, heard>>
-----------------------------------------------------------------------------
Page == UNCHANGED <<server, mine, page, astray>>

\* What the server's goroutines do by themselves.
Run(n) == \E k \in Conns : SendEvent(n, k)

Next ==
  \/ Save \/ NotifyQueued \/ Answer
  \/ Begin \/ Build \/ NotifyFinal
  \/ \E n \in Notifiers : Run(n)
  \/ \E k \in Conns : \/ Connect(k) \/ Deliver(k)
                      \/ (Pump(k) \/ WriteFails(k) \/ Lose(k)) /\ Page
  \/ Disconnect
  \/ ChangeView
  \/ \E c \in Calls : ServeCall(c)
  \/ \E i \in DOMAIN answers : Handle(i)

Spec == Init /\ [][Next]_vars

\* Goroutines run, and a read on a socket that is not open ends (pongWait).
\* Nothing is assumed about the network, the page, or a write.
FairSpec ==
  /\ Spec
  /\ \A n \in Notifiers : WF_vars(Run(n))
  /\ \A k \in Conns : WF_vars(Pump(k) /\ Page) /\ WF_vars(Deliver(k))
-----------------------------------------------------------------------------
\* media-card.tsx.
Shown == IF card = "failed" \/ live = "failed" THEN "failed"
         ELSE IF card = "ready" THEN "ready" ELSE "working"

\* The failure that was announced could not be saved (no other row is left
\* "processing" by a worker that announces an end).
Unsaved == work \in {"finish", "done"} /\ row = "processing"

\* The page never shows an end that is not: whatever comes late, twice, in the
\* wrong order or not at all can leave it behind, but what it says of an item
\* that it shows as ready or as failed is so, but for a failure that could not
\* be saved.
NothingInvented == Shown # "working" => Shown = row \/ (Shown = "failed" /\ Unsaved)

\* Nothing is on its way to the page any more.
Quiet ==
  /\ post = "done" /\ asked = {} /\ answers = <<>>
  /\ work \in {"none", "done", "gone"} /\ Unlocked
  /\ mine = Offline \/ (sock[mine] = "open" /\ send[mine] = <<>>)

\* When all is quiet the page shows the item where it belongs and as it is (or
\* as a failure that could not be saved), whatever the order of events, of the
\* upload's answer and of the lists, but for these ways to go astray, which
\* last until an up-to-date list is loaded: the last event finds the page off
\* line or its channel full, or is not sent; "queued" or the upload's answer
\* comes after the last event; a call fails; a list comes late.
ViewConverges == Quiet /\ ~astray =>
  IF InView(gen) /\ row # "absent"
  THEN /\ card # "absent"
       /\ \/ Shown = (IF row \in Final THEN row ELSE "working")
          \/ Shown = "failed" /\ Unsaved
  ELSE card = "absent"
=============================================================================
