--------------------------- MODULE UploadContract ---------------------------
(***************************************************************************)
(* What a resumable upload promises its client, without the stores: the   *)
(* session, the one file behind it, the bytes received and acknowledged.   *)
(* domain/upload.go states the promise (an upload resumes where it stopped)*)
(* and usecase/upload_usecase.go the order that keeps it (file, then row;  *)
(* bytes, then receipt; row, then file on the way out).  UploadSessions    *)
(* implements this specification.                                          *)
(***************************************************************************)
CONSTANTS Sessions, Chunks

VARIABLES
  session,  \* session[s]: not announced, open or closed
  file,     \* file[s]: its one file, from staging to media item or oblivion
  bytes,    \* bytes[s]: chunks whose bytes have been received
  acked     \* acked[s]: chunks whose receipt the client has been told of

vars == <<session, file, bytes, acked>>

Init ==
  /\ session = [s \in Sessions |-> "new"]
  /\ file = [s \in Sessions |-> "none"]
  /\ bytes = [s \in Sessions |-> {}]
  /\ acked = [s \in Sessions |-> {}]

Create(s) ==
  /\ session[s] = "new" /\ file[s] = "none"
  /\ file' = [file EXCEPT ![s] = "staged"]
  /\ UNCHANGED <<session, bytes, acked>>

\* The client learns the ID only of a session that has its file.
Open(s) ==
  /\ session[s] = "new" /\ file[s] = "staged"
  /\ session' = [session EXCEPT ![s] = "open"]
  /\ UNCHANGED <<file, bytes, acked>>

\* Bytes may arrive late, but never before the session is open.
Receive(s) == \E c \in Chunks :
  /\ session[s] # "new"
  /\ bytes' = [bytes EXCEPT ![s] = @ \cup {c}]
  /\ UNCHANGED <<session, file, acked>>

Acknowledge(s) == \E c \in bytes[s] :
  /\ session[s] = "open"
  /\ acked' = [acked EXCEPT ![s] = @ \cup {c}]
  /\ UNCHANGED <<session, file, bytes>>

\* A completion takes the file, once and whole.
Take(s) ==
  /\ session[s] # "new" /\ file[s] = "staged" /\ bytes[s] = Chunks
  /\ file' = [file EXCEPT ![s] = "taken"]
  /\ UNCHANGED <<session, bytes, acked>>

Publish(s) ==
  /\ file[s] = "taken"
  /\ file' = [file EXCEPT ![s] = "published"]
  /\ UNCHANGED <<session, bytes, acked>>

\* While the session is open, only a completion that has failed to publish
\* the file it took may throw it away.
Discard(s) ==
  /\ \/ file[s] = "staged" /\ session[s] # "open"
     \/ file[s] = "taken"
  /\ file' = [file EXCEPT ![s] = "discarded"]
  /\ UNCHANGED <<session, bytes, acked>>

Close(s) ==
  /\ session[s] = "open"
  /\ session' = [session EXCEPT ![s] = "closed"]
  /\ UNCHANGED <<file, bytes, acked>>

Next == \E s \in Sessions :
  \/ Create(s) \/ Open(s) \/ Receive(s) \/ Acknowledge(s)
  \/ Take(s) \/ Publish(s) \/ Discard(s) \/ Close(s)

Spec == Init /\ [][Next]_vars
-----------------------------------------------------------------------------
\* What follows for the client: a file that becomes a media item holds every
\* chunk, and what was acknowledged was received.
Promise == \A s \in Sessions :
  /\ file[s] \in {"taken", "published"} => bytes[s] = Chunks
  /\ acked[s] \subseteq bytes[s]
=============================================================================
