------------------------- MODULE HlsTranscodeProofs -------------------------
(***************************************************************************)
(* Proofs about HlsTranscode for every height and duration a probe may     *)
(* report, and for any number of calls, encodes and failing removals.      *)
(***************************************************************************)
EXTENDS HlsTranscode, TLAPS

Candidates == {<<"videotoolbox", "libx264">>, <<"libx264">>, <<>>}

\* GenerateHLS works through one of two lists of encoders, which end with the
\* software one; while it tries one of them there is one to try.
EncodersInv == stage # "idle" =>
  /\ left \in Candidates
  /\ left = <<>> => stage = "remove" /\ "libx264" \in tried
  /\ stage = "encode" => Head(left) \in tried
  /\ stage = "remove" => left = <<>> \/ expired

\* An encoder starts on an empty directory, and no other writes there.
FilesInv ==
  /\ stage \in {"make", "start"} => dir = {}
  /\ stage = "encode" => dir \subseteq {attempt}

IndInv == TypeOK /\ EncodersInv /\ FilesInv /\ EndsClean
-----------------------------------------------------------------------------
(* Progress.                                                               *)

\* Before its end an encode is told to be between its start and 99.5%.
LEMMA OverallRange ==
  ASSUME NEW p \in 0 .. 995
  PROVE  Overall(p) \in Start .. 995
BY DEF Overall, Start

\* Percentages, in tenths, stay within 0 .. 995 while an encode runs.
LEMMA PercentRange ==
  ASSUME TypeOK, NEW t \in Nat, clip.duration > 0
  PROVE  Percent(t) \in 0 .. 995
<1>1. clip.duration \in Nat \ {0}
  <2>1. clip.duration \in Durations
    BY DEF TypeOK, Start
  <2>2. clip.duration \in Nat
    BY <2>1, TranscodeAssumption
  <2> QED
    BY <2>2
<1>2. (t * 1000) \div clip.duration \in Nat
  BY <1>1
<1> QED
  BY <1>2 DEF Percent

\* OnProgress either says nothing or at least one percent more than before.
LEMMA TellRises ==
  ASSUME TypeOK, NEW t \in Nat, Tell(t)
  PROVE  \/ sent' = sent
         \/ sent' \in sent + 10 .. 995
<1>1. CASE clip.duration > 0 /\ Overall(Percent(t)) >= sent + 10
  <2>1. Overall(Percent(t)) \in Start .. 995
    BY <1>1, PercentRange, OverallRange
  <2>2. sent' = Overall(Percent(t)) /\ sent \in Nat
    BY <1>1 DEF Tell, TypeOK, Start
  <2> QED
    BY <1>1, <2>1, <2>2 DEF Start
<1>2. CASE ~(clip.duration > 0 /\ Overall(Percent(t)) >= sent + 10)
  BY <1>2 DEF Tell
<1> QED
  BY <1>1, <1>2
-----------------------------------------------------------------------------
(* The inductive invariant.                                                *)

\* What is left of a list of encoders after its first.
LEMMA TailOfCandidates ==
  /\ encoderCandidates \in Candidates \ {<<>>}
  /\ \A l \in Candidates :
       /\ l \in Seq({"videotoolbox", "libx264"})
       /\ l # <<>> => /\ Tail(l) \in Candidates
                      /\ Head(l) \in {"videotoolbox", "libx264"}
                      /\ Tail(l) = <<>> => Head(l) = "libx264"
BY DEF Candidates, encoderCandidates

\* A failed encoder is dropped; when it was the last, or the context is done,
\* the call gives up.
LEMMA NextEncoderStep ==
  ASSUME left \in Candidates \ {<<>>}, NextEncoder
  PROVE  /\ left' \in Candidates
         /\ stage' \in {"clean", "remove"}
         /\ left' = <<>> => stage' = "remove" /\ Head(left) = "libx264"
         /\ stage' = "remove" => left' = <<>> \/ expired
BY TailOfCandidates DEF NextEncoder

\* A step keeps the state within what the program can represent.
LEMMA TypeStep ==
  ASSUME TypeOK, EncodersInv, [Next]_vars
  PROVE  TypeOK'
<1>0. MaxTicks \in Nat /\ MaxCalls \in Nat /\ MaxFaults \in Nat
  BY TranscodeAssumption
<1> USE <1>0 DEF At, Fault, NoFault, End, setting, Start
<1>1. CASE Call
  <2>1. left' \in Seq({"videotoolbox", "libx264"}) /\ left' # <<>>
    BY <1>1, TailOfCandidates DEF Call
  <2>2. /\ calls' \in 0 .. MaxCalls /\ stage' = "clean" /\ expired' = FALSE
        /\ sent' = Start /\ tried' = {} /\ outcome' = "none"
        /\ UNCHANGED <<setting, attempt, dir, whole, ticks, faults>>
    BY <1>1 DEF Call, TypeOK
  <2>3. expired' \in BOOLEAN
    BY <2>2, Zenon
  <2> QED
    BY <2>1, <2>2, <2>3 DEF TypeOK
<1>2. CASE Clean
  <2>1. /\ dir' \subseteq dir /\ whole' = 0
        /\ faults' \in 0 .. MaxFaults
        /\ stage' \in {"make", "idle"} /\ outcome' \in {outcome, "disk"}
        /\ left # <<>>
        /\ UNCHANGED <<setting, left, attempt, expired, ticks, sent, tried, calls>>
    BY <1>2 DEF Clean, TypeOK
  <2> QED
    BY <2>1 DEF TypeOK
<1>3. CASE MakeDir
  BY <1>3 DEF MakeDir, TypeOK
<1>4. CASE Remove
  <2>1. /\ dir' \subseteq dir /\ whole' = 0
        /\ faults' \in 0 .. MaxFaults
        /\ stage' = "idle" /\ outcome' \in {"failed", "cancelled"}
        /\ UNCHANGED <<setting, left, attempt, expired, ticks, sent, tried, calls>>
    BY <1>4 DEF Remove, TypeOK
  <2> QED
    BY <2>1 DEF TypeOK
<1>5. CASE StartEncoder
  <2>1. left \in Candidates /\ left # <<>>
    BY <1>5 DEF StartEncoder, EncodersInv, TypeOK
  <2>2. /\ left' \in Candidates
        /\ stage' \in {"encode", "clean", "remove"} /\ (left' = <<>> => stage' = "remove")
        /\ attempt' = attempt + 1 /\ ticks' = 0
        /\ tried' \subseteq {"videotoolbox", "libx264"}
        /\ UNCHANGED <<setting, dir, whole, expired, sent, outcome, calls, faults>>
    BY <1>5, <2>1, TailOfCandidates DEF StartEncoder, NextEncoder, TypeOK
  <2>3. left' \in Seq({"videotoolbox", "libx264"})
    BY <2>2, TailOfCandidates
  <2> QED
    BY <2>2, <2>3 DEF TypeOK
<1>6. CASE Encode
  <2>1. PICK t \in ticks + 1 .. MaxTicks :
          /\ ticks' = t /\ dir' = dir \cup {attempt} /\ Tell(t)
          /\ UNCHANGED <<setting, stage, left, attempt, whole, expired, tried, outcome,
                         calls, faults>>
    BY <1>6 DEF Encode
  <2>2. t \in 0 .. MaxTicks /\ sent \in Start .. 1000
    BY DEF TypeOK
  <2>3. sent' = sent \/ sent' \in sent + 10 .. 995
    BY <2>1, <2>2, TellRises
  <2>4. sent' \in Start .. 1000
    BY <2>2, <2>3
  <2> QED
    BY <2>1, <2>2, <2>4 DEF TypeOK
<1>7. CASE EncodeSucceeds
  BY <1>7 DEF EncodeSucceeds, TypeOK
<1>8. CASE EncodeFails
  BY <1>8, TailOfCandidates DEF EncodeFails, NextEncoder, TypeOK, EncodersInv
<1>9. CASE Expire
  BY <1>9 DEF Expire, TypeOK
<1>10. CASE Kill
  BY <1>10 DEF Kill, TypeOK
<1>11. CASE UNCHANGED vars
  BY <1>11 DEF vars, TypeOK
<1> QED
  BY <1>1, <1>2, <1>3, <1>4, <1>5, <1>6, <1>7, <1>8, <1>9, <1>10, <1>11 DEF Next, Run

\* The list of encoders is worked through from its head, and given up on only
\* at its end or when the context is done.
LEMMA EncodersStep ==
  ASSUME TypeOK, EncodersInv, [Next]_vars
  PROVE  EncodersInv'
<1> USE DEF At, End
<1>1. CASE Call
  BY <1>1, TailOfCandidates DEF Call, EncodersInv
<1>2. CASE Clean \/ MakeDir \/ Remove \/ Kill
  BY <1>2 DEF Clean, MakeDir, Remove, Kill, EncodersInv
<1>3. CASE StartEncoder
  <2>1. /\ left \in Candidates \ {<<>>}
        /\ tried' = tried \cup {Head(left)} /\ expired' = expired
        /\ (stage' = "encode" /\ left' = left) \/ NextEncoder
    BY <1>3 DEF StartEncoder, TypeOK, EncodersInv
  <2> QED
    BY <2>1, NextEncoderStep DEF EncodersInv
<1>4. CASE Encode \/ Expire
  BY <1>4 DEF Encode, Expire, EncodersInv
<1>5. CASE EncodeSucceeds
  BY <1>5 DEF EncodeSucceeds, EncodersInv
<1>6. CASE EncodeFails
  <2>1. /\ left \in Candidates \ {<<>>} /\ Head(left) \in tried
        /\ UNCHANGED <<tried, expired>> /\ NextEncoder
    BY <1>6 DEF EncodeFails, TypeOK, EncodersInv
  <2> QED
    BY <2>1, NextEncoderStep DEF EncodersInv
<1>7. CASE UNCHANGED vars
  BY <1>7 DEF vars, EncodersInv
<1> QED
  BY <1>1, <1>2, <1>3, <1>4, <1>5, <1>6, <1>7 DEF Next, Run

\* Only a removal that succeeded leads to an encode.
LEMMA FilesStep ==
  ASSUME TypeOK, FilesInv, [Next]_vars
  PROVE  FilesInv'
<1> USE DEF At, End, FilesInv
<1>1. CASE Call \/ Expire \/ Kill
  BY <1>1 DEF Call, Expire, Kill
<1>2. CASE Clean \/ MakeDir \/ Remove
  BY <1>2 DEF Clean, MakeDir, Remove
<1>3. CASE StartEncoder
  BY <1>3 DEF StartEncoder, NextEncoder
<1>4. CASE Encode
  BY <1>4 DEF Encode
<1>5. CASE EncodeSucceeds \/ EncodeFails
  BY <1>5 DEF EncodeSucceeds, EncodeFails, NextEncoder
<1>6. CASE UNCHANGED vars
  BY <1>6 DEF vars
<1> QED
  BY <1>1, <1>2, <1>3, <1>4, <1>5, <1>6 DEF Next, Run

\* A call ends by a success in a directory of its own, or through Remove.
LEMMA EndsStep ==
  ASSUME IndInv, [Next]_vars
  PROVE  EndsClean'
<1> USE DEF At, End, EndsClean
<1>1. CASE Call \/ StartEncoder \/ Encode \/ EncodeFails \/ Expire
  BY <1>1 DEF Call, StartEncoder, NextEncoder, Encode, EncodeFails, Expire
<1>2. CASE Clean \/ MakeDir \/ Kill
  BY <1>2 DEF Clean, MakeDir, Kill
<1>3. CASE Remove
  <2>1. /\ left = <<>> => "libx264" \in tried
        /\ left = <<>> \/ expired
    BY <1>3 DEF Remove, IndInv, EncodersInv
  <2>2. dir' = {} \/ faults' > 0
    BY <1>3 DEF Remove, Fault, IndInv, TypeOK
  <2> QED
    BY <1>3, <2>1, <2>2 DEF Remove
<1>4. CASE EncodeSucceeds
  BY <1>4 DEF EncodeSucceeds, IndInv, FilesInv
<1>5. CASE UNCHANGED vars
  BY <1>5 DEF vars, IndInv
<1> QED
  BY <1>1, <1>2, <1>3, <1>4, <1>5 DEF Next, Run
-----------------------------------------------------------------------------
\* All parts together: the invariant is inductive.
LEMMA IndInvHolds == Spec => []IndInv
<1>1. Init => IndInv
  <2> SUFFICES ASSUME Init PROVE IndInv
    OBVIOUS
  <2>1. TypeOK
    <3>1. expired \in BOOLEAN
      BY Zenon DEF Init
    <3>2. MaxTicks \in Nat /\ MaxCalls \in Nat /\ MaxFaults \in Nat
      BY TranscodeAssumption
    <3> QED
      BY <3>1, <3>2 DEF Init, TypeOK, Start
  <2>2. EncodersInv /\ FilesInv /\ EndsClean
    BY DEF Init, EncodersInv, FilesInv, EndsClean, At
  <2> QED
    BY <2>1, <2>2 DEF IndInv
<1>2. IndInv /\ [Next]_vars => IndInv'
  BY TypeStep, EncodersStep, FilesStep, EndsStep DEF IndInv
<1> QED
  BY <1>1, <1>2, PTL DEF Spec

\* TypeOK: the encode keeps to the states the code has; among them, a progress
\* between its start and 100%, and an encoder whenever one is to be run.
THEOREM TranscodeTypeCorrect == Spec => []TypeOK
BY IndInvHolds, PTL DEF IndInv

\* EndsClean: a call that ends in success leaves the files of one encode, and
\* one that fails has tried the software encoder and cleaned up after itself.
THEOREM CallsEndClean == Spec => []EndsClean
BY IndInvHolds, PTL DEF IndInv

\* ProgressClimbs: what clients are told of one call only rises, by steps of a
\* percent, and reaches 100% only by a complete set.
THEOREM ProgressOnlyClimbs == Spec => ProgressClimbs
<1> DEFINE Climb ==
      /\ sent' # sent /\ sent' # Start => sent' >= sent + 10 \/ (sent' = 1000 /\ whole' = attempt)
      /\ sent' = Start => sent = Start \/ calls' # calls
      /\ sent' = 1000 /\ sent # 1000 => outcome' = "ok"
<1>1. IndInv /\ [Next]_vars => Climb
  <2> SUFFICES ASSUME IndInv, [Next]_vars PROVE Climb
    OBVIOUS
  <2>1. sent \in Start .. 1000 /\ calls \in Nat /\ ticks \in Nat
    BY TranscodeAssumption DEF IndInv, TypeOK
  <2>2. CASE Call
    BY <2>1, <2>2 DEF Call, Start
  <2>3. CASE Encode
    <3>1. PICK t \in ticks + 1 .. MaxTicks : Tell(t)
      BY <2>3 DEF Encode
    <3>2. sent' = sent \/ sent' \in sent + 10 .. 995
      BY <2>1, <3>1, TellRises DEF IndInv
    <3> QED
      BY <2>1, <3>2 DEF Start
  <2>4. CASE EncodeSucceeds
    BY <2>4 DEF EncodeSucceeds, End, Start
  <2>5. CASE \/ Clean \/ MakeDir \/ StartEncoder \/ Remove \/ EncodeFails \/ Expire
             \/ Kill \/ UNCHANGED vars
    BY <2>5 DEF Clean, MakeDir, StartEncoder, Remove, EncodeFails, Expire, Kill, vars
  <2> QED
    BY <2>2, <2>3, <2>4, <2>5 DEF Next, Run
<1>2. Climb => [Climb]_vars
  OBVIOUS
<1> QED
  BY <1>1, IndInvHolds, PTL DEF Spec, ProgressClimbs
-----------------------------------------------------------------------------
(* The ladder.                                                             *)

\* The rungs that a source of any height gets.
LEMMA Rungs ==
  ASSUME NEW h \in Nat, h > 0
  PROVE  buildLadder(h) = IF h >= 1080 THEN {720, 1080}
                          ELSE IF h >= 720 THEN {720} ELSE {h - (h % 2)}
BY DEF buildLadder, DefaultLadder

\* LadderFits: every rendition is even and no higher than the source, all are
\* different, no default rung that fits is missing, and one has height 0 when
\* and only when the source has height 1, for every height.
THEOREM LadderAlwaysFits == Spec => []LadderFits
<1>1. TypeOK => LadderFits
  <2> SUFFICES ASSUME TypeOK, clip.height > 0 PROVE LadderFits
    BY DEF LadderFits
  <2> DEFINE h == clip.height
             made == buildHLSArgs(h, h)
  <2>1. clip.height \in Nat
    BY TranscodeAssumption DEF TypeOK
  <2>2. /\ h - (h % 2) \in 0 .. h
        /\ (h - (h % 2)) % 2 = 0
        /\ h - (h % 2) = 0 <=> h = 1
    BY <2>1
  <2>3. DOMAIN made = buildLadder(h) /\ \A r \in buildLadder(h) : r \in 0 .. h /\ made[r] = r
    BY <2>1, <2>2, Rungs DEF buildHLSArgs
  <2>4. \A r \in buildLadder(h) : r % 2 = 0 /\ (r = 0 <=> h = 1)
    BY <2>1, <2>2, Rungs
  <2>5. \A r \in DefaultLadder : r <= h => r \in buildLadder(h)
    BY <2>1, Rungs DEF DefaultLadder
  <2>6. made # <<>>
    <3>1. buildLadder(h) # {} /\ DOMAIN <<>> = {}
      BY <2>1, Rungs
    <3> QED
      BY <2>3, <3>1
  <2>7. /\ \A r \in DOMAIN made : made[r] % 2 = 0 /\ made[r] <= h /\ (made[r] = 0 <=> h = 1)
        /\ \A q, r \in DOMAIN made : made[q] = made[r] => q = r
    BY <2>1, <2>3, <2>4
  <2> QED
    BY <2>3, <2>5, <2>6, <2>7 DEF LadderFits
<1> QED
  BY <1>1, IndInvHolds, PTL DEF IndInv
=============================================================================
