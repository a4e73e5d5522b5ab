---------------------------- MODULE HlsTranscode ----------------------------
(***************************************************************************)
(* The HLS encode of one video: GenerateHLS of pkg/ffmpeg/transcoder.go,   *)
(* as buildDerivatives of usecase/media_usecase.go calls it, with the      *)
(* progress it reports on the way.  Encoders are tried in order, each into *)
(* an empty directory.  The job's context may end at any moment, the disk  *)
(* may refuse a removal, and the process may be killed and the job run     *)
(* again after a restart.  MediaPipeline takes the whole call as two steps.*)
(***************************************************************************)
EXTENDS Naturals, Sequences

CONSTANTS
  Heights,     \* heights ffprobe may report; 0 when it reports none
  Durations,   \* durations it may report, in ticks; 0 when it reports none
  MaxTicks,    \* bound: the last out_time an encode reports
  HWAccels,    \* values of HWACCEL
  MaxCalls,    \* bound: runs of the job
  MaxFaults    \* bound: disk operations that fail

ASSUME TranscodeAssumption ==
  /\ Heights \subseteq Nat /\ Durations \subseteq Nat
  /\ MaxTicks \in Nat /\ MaxCalls \in Nat /\ MaxFaults \in Nat

VARIABLES
  clip,      \* what the probe says: height, and duration
  hw, mac,   \* HWACCEL, and whether the server runs on macOS
  stage,     \* what GenerateHLS does next; "idle" when it is not running
  left,      \* encoders not yet given up on, the current one first
  attempt,   \* number of the current encode, over all calls
  dir,       \* encodes that have left files in the output directory
  whole,     \* the encode whose files are complete (0: none)
  expired,   \* whether the job's context is done
  ticks,     \* out_time reached by the current encode
  sent,      \* progress last told to clients, per mille
  tried,     \* history: encoders run by this call
  outcome,   \* how the last call ended
  calls, faults

vars == <<clip, hw, mac, stage, left, attempt, dir, whole, expired, ticks, sent,
          tried, outcome, calls, faults>>
setting == <<clip, hw, mac>>

\* progressThumbnail: where the encode's share of the progress begins.
Start == 80

TypeOK ==
  /\ clip \in [height : Heights, duration : Durations]
  /\ hw \in HWAccels /\ mac \in BOOLEAN
  /\ stage \in {"idle", "clean", "make", "start", "encode", "remove"}
  /\ left \in Seq({"videotoolbox", "libx264"})
  /\ (stage # "idle") => (left # <<>> \/ stage = "remove")
  /\ attempt \in Nat /\ dir \subseteq 0 .. attempt /\ whole \in 0 .. attempt
  /\ expired \in BOOLEAN
  /\ ticks \in 0 .. MaxTicks /\ sent \in Start .. 1000
  /\ tried \subseteq {"videotoolbox", "libx264"}
  /\ outcome \in {"none", "ok", "failed", "cancelled", "disk", "killed"}
  /\ calls \in 0 .. MaxCalls /\ faults \in 0 .. MaxFaults

Init ==
  /\ clip \in [height : Heights, duration : Durations]
  /\ hw \in HWAccels /\ mac \in BOOLEAN
  /\ stage = "idle" /\ left = <<>> /\ attempt = 0
  /\ dir = {} /\ whole = 0
  /\ expired = FALSE /\ ticks = 0 /\ sent = Start
  /\ tried = {} /\ outcome = "none" /\ calls = 0 /\ faults = 0
-----------------------------------------------------------------------------
(* The ladder of renditions, by height.                                     *)

DefaultLadder == {1080, 720}

\* Mutant: a source below every rung is encoded at the lowest rung.
LowestRung(height) ==
  IF height = 0 THEN DefaultLadder
  ELSE LET kept == {r \in DefaultLadder : r <= height}
       IN IF kept # {} THEN kept ELSE {720}

\* Rungs above the source go; when none is left, one at its height, made even.
buildLadder(height) ==
  IF height = 0 THEN DefaultLadder
  ELSE LET kept == {r \in DefaultLadder : r <= height}
       IN IF kept # {} THEN kept ELSE {height - (height % 2)}

\* What the arguments ask of ffmpeg: one scaled stream per rung, never higher
\* than the picture, in a playlist of the rung's name.
buildHLSArgs(height, picture) ==
  [r \in buildLadder(height) |-> IF r <= picture THEN r ELSE picture]

\* Mutant: "auto" has no candidate off macOS.
NoDefaultEncoder ==
  IF hw = "videotoolbox" \/ (hw = "auto" /\ mac)
  THEN <<"videotoolbox", "libx264">>
  ELSE IF hw = "none" THEN <<"libx264">> ELSE <<>>

encoderCandidates ==
  IF hw = "videotoolbox" \/ (hw = "auto" /\ mac)
  THEN <<"videotoolbox", "libx264">> ELSE <<"libx264">>
-----------------------------------------------------------------------------
(* GenerateHLS                                                              *)

At(s) == stage = s
Fault == faults < MaxFaults /\ faults' = faults + 1
NoFault == UNCHANGED faults

Call ==
  /\ At("idle") /\ calls < MaxCalls
  /\ calls' = calls + 1
  /\ stage' = "clean" /\ left' = encoderCandidates
  /\ expired' = FALSE /\ sent' = Start /\ tried' = {} /\ outcome' = "none"
  /\ UNCHANGED <<setting, attempt, dir, whole, ticks, faults>>

End(how) == stage' = "idle" /\ outcome' = how

\* RemoveAll; one that fails may have removed some of the files.
Clean ==
  /\ At("clean")
  /\ \/ dir' = {} /\ whole' = 0 /\ NoFault /\ stage' = "make" /\ UNCHANGED outcome
     \/ dir' \in SUBSET dir /\ whole' = 0 /\ Fault /\ End("disk")
  /\ UNCHANGED <<setting, left, attempt, expired, ticks, sent, tried, calls>>

MakeDir ==
  /\ At("make")
  /\ \/ NoFault /\ stage' = "start" /\ UNCHANGED outcome
     \/ Fault /\ End("disk")
  /\ UNCHANGED <<setting, left, attempt, dir, whole, expired, ticks, sent, tried, calls>>

\* Mutant: a failed encoder is followed by the next one in the same directory.
NextEncoderUncleaned ==
  IF expired THEN stage' = "remove" /\ UNCHANGED left
  ELSE /\ left' = Tail(left)
       /\ stage' = IF Tail(left) = <<>> THEN "remove" ELSE "start"

\* A run of ffmpeg has failed: the next encoder, unless the context is done.
NextEncoder ==
  IF expired THEN stage' = "remove" /\ UNCHANGED left
  ELSE /\ left' = Tail(left)
       /\ stage' = IF Tail(left) = <<>> THEN "remove" ELSE "clean"

\* exec refuses a context that is done, and ffmpeg may not be there.
StartEncoder ==
  /\ At("start")
  /\ attempt' = attempt + 1 /\ ticks' = 0
  /\ tried' = tried \cup {Head(left)}
  /\ \/ ~expired /\ stage' = "encode" /\ UNCHANGED left
     \/ NextEncoder
  /\ UNCHANGED <<setting, dir, whole, expired, sent, outcome, calls, faults>>

\* Per mille of the encode; 100% is kept for a successful exit.
Percent(t) ==
  LET p == (t * 1000) \div clip.duration IN IF p > 995 THEN 995 ELSE p
Overall(p) == Start + (p * (1000 - Start)) \div 1000

\* Mutant: the throttle's last value is forgotten with every encoder.
TellFromStart(t) ==
  sent' = IF clip.duration > 0 THEN Overall(Percent(t)) ELSE sent

\* OnProgress: nothing is told for less than one percent more than last time.
Tell(t) ==
  sent' = IF clip.duration > 0 /\ Overall(Percent(t)) >= sent + 10
          THEN Overall(Percent(t)) ELSE sent

\* ffmpeg writes files and reports how far it is; it may report more than the
\* probe said there is.
Encode == \E t \in ticks + 1 .. MaxTicks :
  /\ At("encode")
  /\ ticks' = t
  /\ dir' = dir \cup {attempt}
  /\ Tell(t)
  /\ UNCHANGED <<setting, stage, left, attempt, whole, expired, tried, outcome,
                 calls, faults>>

\* It may finish just before a context that ends could kill it.
EncodeSucceeds ==
  /\ At("encode")
  /\ dir' = dir \cup {attempt} /\ whole' = attempt
  /\ sent' = 1000
  /\ End("ok")
  /\ UNCHANGED <<setting, left, attempt, expired, ticks, tried, calls, faults>>

\* It fails, or is killed because the context is done.
EncodeFails ==
  /\ At("encode")
  /\ NextEncoder
  /\ UNCHANGED <<setting, attempt, dir, whole, expired, ticks, sent, tried, outcome,
                 calls, faults>>

\* The directory of a call that failed is removed; a failure of that is ignored.
Remove ==
  /\ At("remove")
  /\ \/ dir' = {} /\ NoFault
     \/ dir' \in SUBSET dir /\ Fault
  /\ whole' = 0
  /\ End(IF left = <<>> THEN "failed" ELSE "cancelled")
  /\ UNCHANGED <<setting, left, attempt, expired, ticks, sent, tried, calls>>

\* The job's deadline, or the server's shutdown.
Expire ==
  /\ ~At("idle") /\ ~expired
  /\ expired' = TRUE
  /\ UNCHANGED <<setting, stage, left, attempt, dir, whole, ticks, sent, tried,
                 outcome, calls, faults>>

Kill ==
  /\ ~At("idle")
  /\ End("killed")
  /\ UNCHANGED <<setting, left, attempt, dir, whole, expired, ticks, sent, tried,
                 calls, faults>>

\* Mutant: ffmpeg is started without the job's context.
RunNotKilled == Clean \/ MakeDir \/ StartEncoder \/ Remove

\* What the goroutine, and an ffmpeg whose context is done, do by themselves.
Run == Clean \/ MakeDir \/ StartEncoder \/ Remove \/ (expired /\ EncodeFails)

Next == Call \/ Run \/ Encode \/ EncodeSucceeds \/ EncodeFails \/ Expire \/ Kill

Spec == Init /\ [][Next]_vars

\* The job has a deadline (PROCESS_TIMEOUT).  An encode need not ever end.
FairSpec == Spec /\ WF_vars(Run) /\ WF_vars(Expire)
-----------------------------------------------------------------------------
\* However a call ends: success leaves exactly the complete files of its last
\* encode, with nothing of an earlier encoder, call or crash among them;
\* failure is told only after the software encoder has been tried, and like
\* cancellation (only of a job whose context is done) leaves nothing, unless
\* the disk refused to remove it.
EndsClean == At("idle") =>
  /\ outcome = "ok" => dir = {attempt} /\ whole = attempt
  /\ outcome = "failed" => "libx264" \in tried
  /\ outcome = "cancelled" => expired
  /\ outcome \in {"failed", "cancelled"} => dir = {} \/ faults > 0

\* Within one call the progress that clients see only rises, also when a
\* second encoder starts over, by steps of a percent; and 100% is told when
\* and only when the set is complete.
ProgressClimbs == [][
  /\ sent' # sent /\ sent' # Start => sent' >= sent + 10 \/ (sent' = 1000 /\ whole' = attempt)
  /\ sent' = Start => sent = Start \/ calls' # calls
  /\ sent' = 1000 /\ sent # 1000 => outcome' = "ok"]_vars

\* Every rendition has an even height, as the encoder needs, is no higher than
\* the source and differs from the others, no default rung that fits is left
\* out, and a rendition of height zero is what a source of height 1 gets, and
\* no other source does.
\* (When the probe gives no height, nothing is known of the picture.)
LadderFits == clip.height > 0 =>
  LET made == buildHLSArgs(clip.height, clip.height)
  IN /\ made # <<>>
     /\ \A r \in DOMAIN made :
          made[r] % 2 = 0 /\ made[r] <= clip.height /\ (made[r] = 0 <=> clip.height = 1)
     /\ \A q, r \in DOMAIN made : made[q] = made[r] => q = r
     /\ \A r \in DefaultLadder : r <= clip.height => r \in DOMAIN made

\* Whatever ffmpeg does, the job's deadline ends the call, and the call ends
\* by itself.
CallsEnd == ~At("idle") ~> At("idle")
=============================================================================
