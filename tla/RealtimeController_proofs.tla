--------------------- MODULE RealtimeController_proofs ---------------------
(***************************************************************************)
(* Theorems about RealtimeController, for every set of inputs, every number *)
(* of streams and every depth of nested calls.  Two invariants are about    *)
(* the audio state; the turns that do not mention it leave it alone, so     *)
(* their proofs first name the ways in which it changes (AudioStep).  The   *)
(* other two are about turns: where the frame that goes through a list      *)
(* stands, who is still to be called, and what that call will repair.       *)
(***************************************************************************)
EXTENDS RealtimeController, SequenceTheorems, TLAPS

Volumes == {"zero", "loud", Unknown}
MuteStates == {"muted", "unmuted", Unknown}

\* The types that the invariants rest on.
AudioTypes ==
  /\ muted \in BOOLEAN
  /\ input \in Inputs \cup {"none"}
  /\ indicator \in [muted : MuteStates, volume : Volumes]

\* The tracks and the indicator, as they go together.
AudioInv == AudioTypes /\ MutedIsMuted /\ IndicatorIsTold

\* What a turn may do to the audio state: nothing, mute or unmute, acquire the
\* input of the session, replace the tracks that are sent, say something of the
\* indicator, or end the session.
Toggles ==
  /\ muted' = ~muted /\ input' = input
  /\ enabled' = SetEnabled(input, muted)
  /\ UpdateVolumeIndicator(muted', input, Unknown, Unknown)
  /\ UNCHANGED sending
TakesInput ==
  /\ input' \in Inputs /\ sent' = input'
  /\ enabled' = IF muted THEN SetEnabled(input, FALSE) \ {input'}
                 ELSE SetEnabled(input, FALSE) \cup {input'}
  /\ UNCHANGED <<muted, indicator, told, restarted>>
Restarts ==
  /\ restarted' = TRUE
  /\ UNCHANGED <<muted, input, indicator, told>>
HearsIndicator ==
  /\ \E m \in MuteStates, v \in Volumes : UpdateVolumeIndicator(muted, input, m, v)
  /\ UNCHANGED <<muted, input, enabled, sending>>
Ends ==
  /\ input' = "none" /\ sent' = "none"
  /\ UNCHANGED <<muted, indicator, told>>

AudioStep ==
  \/ UNCHANGED <<muted, input, enabled, indicator, told, sending>>
  \/ Toggles \/ TakesInput \/ Restarts \/ HearsIndicator \/ Ends

-----------------------------------------------------------------------------
(* Every step is one of these.                                              *)

LEMMA TogglesWhenHeard == muted \in BOOLEAN /\ AppHearsMute => AudioStep
<1> SUFFICES ASSUME muted \in BOOLEAN, AppHearsMute PROVE AudioStep
  OBVIOUS
<1>1. CASE UNCHANGED <<muted, enabled, indicator, told>>
  BY <1>1 DEF AppHearsMute, AudioStep
<1>2. CASE /\ \/ ~muted /\ muted' = TRUE
              \/ muted /\ canUnmute /\ muted' = FALSE
           /\ enabled' = SetEnabled(input, muted)
           /\ UpdateVolumeIndicator(muted', input, Unknown, Unknown)
  <2>1. muted' = ~muted
    BY <1>2
  <2> QED BY <1>2, <2>1 DEF AppHearsMute, AudioStep, Toggles
<1> QED BY <1>1, <1>2 DEF AppHearsMute

LEMMA CallIsAudioStep == muted \in BOOLEAN /\ Call => AudioStep
<1> SUFFICES ASSUME muted \in BOOLEAN, Call PROVE AudioStep
  OBVIOUS
<1>1. CASE AppHearsMute
  BY <1>1, TogglesWhenHeard
<1>2. ASSUME NEW c, Hear(c) PROVE AudioStep
  BY <1>2 DEF Hear, AudioStep, audio
<1>3. CASE Wait
  BY <1>3 DEF Wait, AudioStep, audio
<1>4. CASE SendMute
  BY <1>4 DEF SendMute, AudioStep, audio
<1> QED BY <1>1, <1>2, <1>3, <1>4 DEF Call

LEMMA MuteIsAudioStep == muted \in BOOLEAN /\ MuteOrUnmute => AudioStep
<1> SUFFICES ASSUME muted \in BOOLEAN, MuteOrUnmute PROVE AudioStep
  OBVIOUS
<1>1. CASE Mute
  <2>1. muted = FALSE /\ muted' = TRUE
    BY <1>1 DEF Mute
  <2> QED BY <1>1, <2>1 DEF Mute, MuteOrUnmute, AudioStep, Toggles
<1>2. CASE Unmute
  <2>1. muted = TRUE /\ muted' = FALSE
    BY <1>2 DEF Unmute
  <2> QED BY <1>2, <2>1 DEF Unmute, MuteOrUnmute, AudioStep, Toggles
<1> QED BY <1>1, <1>2 DEF MuteOrUnmute

LEMMA StepIsAudioStep == muted \in BOOLEAN /\ [Next]_vars => AudioStep
<1> SUFFICES ASSUME muted \in BOOLEAN, [Next]_vars PROVE AudioStep
  OBVIOUS
<1>1. CASE MuteOrUnmute
  BY <1>1, MuteIsAudioStep
<1>2. CASE ReceiveAudioInput
  BY <1>2 DEF ReceiveAudioInput, SetLocalAudioInput, AudioStep, TakesInput
<1>3. CASE RestartLocalAudio
  BY <1>3 DEF RestartLocalAudio, AudioStep, Restarts
<1>4. CASE IndicatorFrame
  BY <1>4 DEF IndicatorFrame, AudioStep, HearsIndicator, MuteStates, Volumes
<1>5. CASE Call
  BY <1>5, CallIsAudioStep
<1>6. CASE Stop \/ SendDataMessage
  BY <1>6 DEF Stop, SendDataMessage, Ending, AudioStep, Ends
<1>7. CASE SetCanUnmute \/ StreamJoins \/ StreamLeaves \/ Return
  BY <1>7 DEF SetCanUnmute, StreamJoins, StreamLeaves, Return, AudioStep, audio
<1>8. CASE Subscribe \/ Unsubscribe
  BY <1>8 DEF Subscribe, Unsubscribe, AudioStep, audio
<1>9. CASE Start \/ Opened \/ Subscribed \/ Reconnect
  BY <1>9 DEF Start, Opened, Subscribed, Reconnect, AudioStep, audio
<1>10. CASE UNCHANGED vars
  BY <1>10 DEF vars, audio, AudioStep
<1> QED BY <1>1, <1>2, <1>3, <1>4, <1>5, <1>6, <1>7, <1>8, <1>9, <1>10 DEF Next

-----------------------------------------------------------------------------
(* The indicator.                                                           *)

\* Whatever the server or the controller says of the local attendee, its
\* subscriber can put the indicator together, and a muted one has no volume
\* (realtimeUpdateVolumeIndicator).
LEMMA IndicatorStaysTold ==
  ASSUME indicator \in [muted : MuteStates, volume : Volumes], IndicatorIsTold,
         NEW l, NEW in, NEW m \in MuteStates, NEW v \in Volumes,
         UpdateVolumeIndicator(l, in, m, v)
  PROVE  indicator' \in [muted : MuteStates, volume : Volumes] /\ IndicatorIsTold'
<1> DEFINE mute == IF in = "none" THEN m ELSE Said(l)
           s == IF mute \in {Unknown, indicator.muted} THEN indicator
                ELSE [muted |-> mute, volume |-> IF mute = "muted" THEN "zero" ELSE indicator.volume]
           t == IF s.muted # "muted" /\ v # Unknown THEN [muted |-> "unmuted", volume |-> v] ELSE s
<1>1. mute \in MuteStates
  BY DEF Said, MuteStates
<1>2. /\ s \in [muted : MuteStates, volume : Volumes]
      /\ s.muted = "muted" => s.volume = "zero"
  <2> HIDE DEF mute
  <2> QED BY <1>1 DEF IndicatorIsTold, MuteStates, Volumes, Unknown
<1>3. /\ t \in [muted : MuteStates, volume : Volumes]
      /\ t.muted = "muted" => t.volume = "zero"
  <2> HIDE DEF s
  <2> QED BY <1>2 DEF MuteStates, Volumes, Unknown
<1>4. indicator' = t /\ told' = [f \in DOMAIN t |-> IF t[f] # indicator[f] THEN t[f] ELSE told[f]]
  BY DEF UpdateVolumeIndicator
<1>5. told' = t
  <2> HIDE DEF t
  <2>1. t = [f \in DOMAIN t |-> t[f]] /\ told = indicator
    BY <1>3 DEF IndicatorIsTold
  <2> QED BY <1>4, <2>1
<1> HIDE DEF t
<1> QED BY <1>3, <1>4, <1>5 DEF IndicatorIsTold

-----------------------------------------------------------------------------
(* The invariant.                                                           *)

LEMMA InitialAudio == Init => AudioInv
<1> SUFFICES ASSUME Init PROVE AudioInv
  OBVIOUS
<1>1. MutedIsMuted
  BY DEF Init, MutedIsMuted
<1>2. IndicatorIsTold
  BY DEF Init, IndicatorIsTold, NewIndicator, Unknown
<1>3. muted \in BOOLEAN /\ input \in Inputs \cup {"none"}
  BY DEF Init
<1>4. indicator \in [muted : MuteStates, volume : Volumes]
  BY DEF Init, NewIndicator, MuteStates, Volumes
<1> QED BY <1>1, <1>2, <1>3, <1>4 DEF AudioInv, AudioTypes

LEMMA AudioStepKeepsInv == AudioInv /\ AudioStep => AudioInv'
<1> SUFFICES ASSUME AudioInv, AudioStep PROVE AudioInv'
  OBVIOUS
<1> USE DEF AudioInv
<1>0. "none" \notin Inputs
  BY RealtimeBounds DEF RealtimeBounds
<1>1. CASE UNCHANGED <<muted, input, enabled, indicator, told, sending>>
  BY <1>1 DEF AudioTypes, MutedIsMuted, IndicatorIsTold, sending
<1>2. CASE Toggles
  <2>1. Unknown \in MuteStates /\ Unknown \in Volumes
    BY DEF MuteStates, Volumes
  <2>2. indicator' \in [muted : MuteStates, volume : Volumes] /\ IndicatorIsTold'
    BY <1>2, <2>1, IndicatorStaysTold DEF Toggles, AudioTypes
  <2>3. MutedIsMuted' /\ muted' \in BOOLEAN /\ input' = input
    BY <1>2 DEF Toggles, AudioTypes, MutedIsMuted, SetEnabled, sending
  <2> QED BY <2>2, <2>3 DEF AudioTypes
<1>3. CASE TakesInput
  <2>1. MutedIsMuted'
    BY <1>3 DEF TakesInput, AudioTypes, MutedIsMuted
  <2> QED BY <1>3, <2>1 DEF TakesInput, AudioTypes, IndicatorIsTold
<1>4. CASE Restarts
  BY <1>4 DEF Restarts, AudioTypes, MutedIsMuted, IndicatorIsTold
<1>5. CASE HearsIndicator
  <2>1. PICK m \in MuteStates, v \in Volumes : UpdateVolumeIndicator(muted, input, m, v)
    BY <1>5 DEF HearsIndicator
  <2>2. indicator' \in [muted : MuteStates, volume : Volumes] /\ IndicatorIsTold'
    BY <2>1, IndicatorStaysTold DEF AudioTypes
  <2> QED BY <1>5, <2>2 DEF HearsIndicator, AudioTypes, MutedIsMuted, sending
<1>6. CASE Ends
  BY <1>6 DEF Ends, AudioTypes, MutedIsMuted, IndicatorIsTold
<1> QED BY <1>1, <1>2, <1>3, <1>4, <1>5, <1>6 DEF AudioStep

LEMMA AudioInvariant == Spec => []AudioInv
<1>1. AudioInv /\ [Next]_vars => AudioInv'
  BY StepIsAudioStep, AudioStepKeepsInv DEF AudioInv, AudioTypes
<1> QED BY InitialAudio, <1>1, PTL DEF Spec

\* A muted attendee sends nothing: as long as restartLocalAudio has not replaced
\* the tracks of the session, the stream that it sends is the controller's input,
\* in every state, also in the middle of a turn in which callbacks mute and unmute
\* again, and its tracks are disabled exactly when the controller says it is muted.
THEOREM MutedSendsNothing == Spec => []MutedIsMuted
<1>1. AudioInv => MutedIsMuted
  BY DEF AudioInv
<1> QED BY AudioInvariant, <1>1, PTL

\* The subscriber of the local attendee's indicator can put it together from the
\* changes that it was told, and a muted attendee is shown with no volume.
THEOREM IndicatorIsExact == Spec => []IndicatorIsTold
<1>1. AudioInv => IndicatorIsTold
  BY DEF AudioInv
<1> QED BY AudioInvariant, <1>1, PTL

-----------------------------------------------------------------------------
(* Leaving a list.                                                          *)

Has(list, c) == \E i \in DOMAIN list : list[i] = c
Once(list)   == \A i, j \in DOMAIN list : list[i] = list[j] => i = j

\* The list without its position k.
Closed(list, k, r) ==
  /\ Len(r) = Len(list) - 1
  /\ \A i \in 1 .. Len(list) - 1 : r[i] = IF i < k THEN list[i] ELSE list[i + 1]

LEMMA RemoveAtCloses ==
  ASSUME NEW S, NEW list \in Seq(S), NEW k \in 1 .. Len(list)
  PROVE  RemoveAt(list, k) \in Seq(S) /\ Closed(list, k, RemoveAt(list, k))
<1> DEFINE n == Len(list)  a == SubSeq(list, 1, k - 1)  b == SubSeq(list, k + 1, n)
<1>1. n \in Nat /\ k \in Nat /\ 1 <= k /\ k <= n
  BY LenProperties
<1>2. a \in Seq(S) /\ Len(a) = k - 1 /\ \A i \in 1 .. k - 1 : a[i] = list[i]
  <2>1. \A i \in 1 .. k - 1 : i \in 1 .. n
    BY <1>1
  <2>2. 1 .. k - 1 \subseteq 1 .. n /\ 1 \in 1 .. n + 1 /\ k - 1 \in 0 .. n
    BY <1>1
  <2> QED BY <1>1, <2>1, <2>2, SubSeqProperties
<1>3. b \in Seq(S) /\ Len(b) = n - k /\ \A i \in 1 .. n - k : b[i] = list[k + i]
  <2>1. k + 1 \in Int /\ n \in Int /\ n - (k + 1) + 1 = n - k /\ \A i \in k + 1 .. n : list[i] \in S
    BY <1>1, ElementOfSeq
  <2>2. /\ b \in Seq(S) /\ Len(b) = IF k + 1 <= n THEN n - (k + 1) + 1 ELSE 0
        /\ \A i \in 1 .. n - (k + 1) + 1 : b[i] = list[(k + 1) + i - 1]
    BY <2>1, SubSeqProperties
  <2>3. Len(b) = n - k
    BY <1>1, <2>2
  <2>4. ASSUME NEW i \in 1 .. n - k PROVE b[i] = list[k + i]
    <3>1. i \in 1 .. n - (k + 1) + 1 /\ (k + 1) + i - 1 = k + i
      BY <1>1
    <3> QED BY <2>2, <3>1
  <2> QED BY <2>2, <2>3, <2>4
<1> HIDE DEF a, b, n
<1>4. /\ a \o b \in Seq(S) /\ Len(a \o b) = n - 1
      /\ \A i \in 1 .. n - 1 : (a \o b)[i] = IF i <= k - 1 THEN a[i] ELSE b[i - (k - 1)]
  <2>1. Len(a) + Len(b) = n - 1
    BY <1>1, <1>2, <1>3
  <2>2. /\ a \o b \in Seq(S) /\ Len(a \o b) = Len(a) + Len(b)
        /\ \A i \in 1 .. Len(a) + Len(b) : (a \o b)[i] = IF i <= Len(a) THEN a[i] ELSE b[i - Len(a)]
    BY <1>2, <1>3, ConcatProperties
  <2> QED BY <1>2, <2>1, <2>2
<1>5. ASSUME NEW i \in 1 .. n - 1 PROVE (a \o b)[i] = IF i < k THEN list[i] ELSE list[i + 1]
  <2>1. CASE i < k
    <3>1. i \in 1 .. k - 1 /\ i <= k - 1
      BY <1>1, <2>1
    <3> QED BY <1>2, <1>4, <2>1, <3>1
  <2>2. CASE ~(i < k)
    <3>1. i - (k - 1) \in 1 .. n - k /\ k + (i - (k - 1)) = i + 1 /\ ~(i <= k - 1)
      BY <1>1, <2>2
    <3> QED BY <1>3, <1>4, <2>2, <3>1
  <2> QED BY <2>1, <2>2
<1> QED BY <1>4, <1>5 DEF RemoveAt, Closed, a, b, n

\* A list in which nobody stands twice.
LEMMA WithoutCloses ==
  ASSUME NEW S, NEW list \in Seq(S), Once(list), NEW c
  PROVE  /\ Without(list, c) \in Seq(S)
         /\ ~Has(list, c) => Without(list, c) = list
         /\ \A k \in 1 .. Len(list) : list[k] = c => Closed(list, k, Without(list, c))
<1>1. DOMAIN list = 1 .. Len(list) /\ Len(list) \in Nat
  BY LenProperties
<1>2. Contains(list, c) <=> Has(list, c)
  BY <1>1 DEF Contains, Has
<1>3. CASE ~Has(list, c)
  BY <1>1, <1>2, <1>3 DEF Without, Has
<1>4. ASSUME NEW k \in 1 .. Len(list), list[k] = c
      PROVE  Without(list, c) = RemoveAt(list, k)
  <2>1. \A j \in 1 .. k - 1 : j \in 1 .. Len(list) /\ j # k
    BY <1>1
  <2>2. \A j \in 1 .. k - 1 : list[j] # c
    BY <1>1, <1>4, <2>1 DEF Once
  <2>3. \A i \in 1 .. Len(list) : list[i] = c => i = k
    BY <1>1, <1>4 DEF Once
  <2>4. IndexOf(list, c) = k
    BY <1>4, <2>2, <2>3 DEF IndexOf
  <2> QED BY <1>1, <1>2, <1>4, <2>4 DEF Without, Has
<1> QED BY <1>1, <1>3, <1>4, RemoveAtCloses DEF Has

\* Nobody with name a stands behind one with name b.
Before(list, a, b) == \A i, j \in DOMAIN list : list[i] = a /\ list[j] = b => i < j

\* Who is left, and in which order; who stands before c keeps the place.
LEMMA WithoutIs ==
  ASSUME NEW S, NEW list \in Seq(S), Once(list), NEW c
  PROVE  LET r == Without(list, c)
         IN  /\ r \in Seq(S) /\ Once(r)
             /\ \A d : Has(r, d) <=> Has(list, d) /\ d # c
             /\ \A a, b : Before(list, a, b) => Before(r, a, b)
             /\ \A i, k \in DOMAIN list : i < k /\ list[k] = c => i \in DOMAIN r /\ r[i] = list[i]
<1> DEFINE r == Without(list, c)  n == Len(list)
<1>1. DOMAIN list = 1 .. n /\ n \in Nat /\ r \in Seq(S)
  BY LenProperties, WithoutCloses
<1>2. DOMAIN r = 1 .. Len(r) /\ Len(r) \in Nat
  BY <1>1, LenProperties
<1>3. CASE ~Has(list, c)
  <2>1. r = list
    BY <1>3, WithoutCloses
  <2> QED BY <1>1, <1>3, <2>1 DEF Has
<1>4. CASE Has(list, c)
  <2>1. PICK k \in 1 .. n : list[k] = c
    BY <1>1, <1>4 DEF Has
  <2>2. Closed(list, k, r)
    BY <2>1, WithoutCloses
  <2> HIDE DEF r, n
  <2> DEFINE at(i) == IF i < k THEN i ELSE i + 1
  <2>3. \A i \in DOMAIN r : at(i) \in DOMAIN list /\ at(i) # k /\ r[i] = list[at(i)]
    BY <1>1, <1>2, <2>2 DEF Closed, n
  <2>4. \A i, j \in DOMAIN r : (at(i) < at(j) => i < j) /\ (at(i) = at(j) => i = j)
    BY <1>2
  <2>5. \A j \in DOMAIN list : j # k => \E i \in DOMAIN r : at(i) = j
    <3>1. ASSUME NEW j \in DOMAIN list, j # k PROVE \E i \in DOMAIN r : at(i) = j
      <4>1. CASE j < k
        <5>1. j \in DOMAIN r
          BY <1>1, <1>2, <2>2, <4>1 DEF Closed, n
        <5> QED BY <4>1, <5>1
      <4>2. CASE ~(j < k)
        <5>1. j - 1 \in DOMAIN r /\ ~(j - 1 < k) /\ (j - 1) + 1 = j
          BY <1>1, <1>2, <2>2, <3>1, <4>2 DEF Closed, n
        <5> QED BY <5>1
      <4> QED BY <4>1, <4>2
    <3> QED BY <3>1
  <2> HIDE DEF at
  <2>6. Once(r)
    BY <2>3, <2>4 DEF Once
  <2>7. \A i \in DOMAIN list : list[i] = c => i = k
    BY <1>1, <2>1 DEF Once
  <2>8. \A d : Has(r, d) <=> Has(list, d) /\ d # c
    BY <2>1, <2>3, <2>5, <2>7 DEF Has
  <2>9. \A a, b : Before(list, a, b) => Before(r, a, b)
    BY <2>3, <2>4 DEF Before
  <2>10. ASSUME NEW i \in DOMAIN list, i < k PROVE i \in DOMAIN r /\ r[i] = list[i]
    BY <1>1, <1>2, <2>1, <2>2, <2>10 DEF Closed, n
  <2> QED BY <1>1, <2>6, <2>7, <2>8, <2>9, <2>10 DEF r
<1> QED BY <1>3, <1>4

LEMMA AppendedIs ==
  ASSUME NEW S, NEW list \in Seq(S), Once(list), NEW c \in S, ~Has(list, c)
  PROVE  LET r == Append(list, c)
         IN  /\ r \in Seq(S) /\ Once(r)
             /\ \A d : Has(r, d) <=> Has(list, d) \/ d = c
             /\ \A a, b : Before(list, a, b) /\ a # c => Before(r, a, b)
<1> DEFINE r == Append(list, c)  n == Len(list)
<1>1. /\ DOMAIN list = 1 .. n /\ n \in Nat /\ r \in Seq(S) /\ Len(r) = n + 1
      /\ r[n + 1] = c /\ \A i \in 1 .. n : r[i] = list[i]
  BY LenProperties, AppendProperties
<1>2. DOMAIN r = 1 .. n + 1
  BY <1>1, LenProperties
<1> HIDE DEF r, n
<1>3. \A i \in DOMAIN r : i = n + 1 \/ (i \in DOMAIN list /\ i < n + 1)
  BY <1>1, <1>2
<1>4. \A i \in DOMAIN list : i \in DOMAIN r /\ r[i] = list[i] /\ r[i] # c
  BY <1>1, <1>2 DEF Has
<1>5. n + 1 \in DOMAIN r /\ r[n + 1] = c
  BY <1>1, <1>2
<1>6. Once(r)
  BY <1>3, <1>4, <1>5 DEF Once
<1>7. \A d : Has(r, d) <=> Has(list, d) \/ d = c
  BY <1>3, <1>4, <1>5 DEF Has
<1>8. \A a, b : Before(list, a, b) /\ a # c => Before(r, a, b)
  BY <1>3, <1>4, <1>5 DEF Before
<1> QED BY <1>1, <1>6, <1>7, <1>8 DEF r

-----------------------------------------------------------------------------
(* Who is in the lists.                                                     *)

Sessions == {"down", "connecting", "open", "subscribed", "up", "reconnecting", "reopened"}
Present == {"early", "late", "wait"}
Muting  == {"app", "task"}

ListInv ==
  /\ presence \in Seq(Present) /\ Once(presence)
  /\ mutes \in Seq(Muting) /\ Once(mutes)
  /\ session \in Sessions
  /\ Has(presence, "wait") => session = "subscribed"
  /\ Has(mutes, "task") <=> session \notin {"down", "connecting"}
  /\ Before(presence, "early", "wait")

\* A turn goes through the presence list, or through the mutes one, more than
\* once only when a callback has called the controller again.
PresenceFrames == [on : {"presence"}, at : Nat \ {0}, who : Attendees, value : BOOLEAN]
MuteFrames     == [on : {"mutes"}, at : Nat \ {0}, value : BOOLEAN]
StackInv ==
  /\ \/ stack \in Seq(MuteFrames)
     \/ stack \in Seq(PresenceFrames) /\ Len(stack) = 1 /\ session \in {"subscribed", "up"}
  /\ ~disturbed => Len(stack) <= 1

LEMMA TopIs ==
  ASSUME StackInv, stack # <<>>
  PROVE  /\ Top \in PresenceFrames \cup MuteFrames /\ Top.at \in Nat \ {0}
         /\ Top.on = "presence" => /\ Top \in PresenceFrames /\ stack = <<Top>>
                                   /\ session \in {"subscribed", "up"}
         /\ Top.on # "presence" => Top \in MuteFrames /\ Top.on = "mutes" /\ stack \in Seq(MuteFrames)
<1>1. CASE stack \in Seq(MuteFrames)
  <2>1. Len(stack) \in Nat \ {0} /\ 1 \in 1 .. Len(stack)
    BY <1>1, LenProperties, EmptySeq
  <2>2. Top \in MuteFrames
    BY <1>1, <2>1, ElementOfSeq DEF Top
  <2> QED BY <1>1, <2>2 DEF MuteFrames
<1>2. CASE stack \in Seq(PresenceFrames) /\ Len(stack) = 1 /\ session \in {"subscribed", "up"}
  <2>1. Top \in PresenceFrames /\ stack = <<Top>>
    BY <1>2, ElementOfSeq DEF Top
  <2> QED BY <1>2, <2>1 DEF PresenceFrames
<1> QED BY <1>1, <1>2 DEF StackInv

\* A call that is made is the one at the frame's position in its list.
LEMMA CallIs ==
  ASSUME ListInv, StackInv, Call
  PROVE  /\ stack # <<>>
         /\ \/ /\ Top.on = "presence" /\ Top.at \in DOMAIN presence
               /\ \/ presence[Top.at] = "wait" /\ Wait
                  \/ presence[Top.at] \in Subscribers /\ Hear(presence[Top.at])
            \/ /\ Top.on = "mutes" /\ Top.at \in DOMAIN mutes
               /\ \/ mutes[Top.at] = "task" /\ SendMute
                  \/ mutes[Top.at] = "app" /\ AppHearsMute
<1>1. stack # <<>> /\ Top.at <= Len(Listeners)
  BY DEF Call, Quiet
<1>2. Top.at \in Nat \ {0} /\ (Top.on = "presence" \/ Top.on = "mutes")
  BY <1>1, TopIs
<1>3. CASE Top.on = "presence"
  <2>1. Listeners = presence /\ Len(presence) \in Nat /\ DOMAIN presence = 1 .. Len(presence)
    BY <1>3, LenProperties DEF Listeners, ListInv
  <2>2. Top.at \in DOMAIN presence
    BY <1>1, <1>2, <2>1
  <2>3. presence[Top.at] \in Present
    BY <2>1, <2>2, ElementOfSeq DEF ListInv
  <2> QED BY <1>1, <1>3, <2>1, <2>2, <2>3 DEF Call, Present, Subscribers
<1>4. CASE Top.on = "mutes"
  <2>1. Listeners = mutes /\ Len(mutes) \in Nat /\ DOMAIN mutes = 1 .. Len(mutes)
    BY <1>4, LenProperties DEF Listeners, ListInv
  <2>2. Top.at \in DOMAIN mutes
    BY <1>1, <1>2, <2>1
  <2>3. mutes[Top.at] \in Muting
    BY <2>1, <2>2, ElementOfSeq DEF ListInv
  <2> QED BY <1>1, <1>4, <2>1, <2>2, <2>3 DEF Call, Muting
<1> QED BY <1>2, <1>3, <1>4

LEMMA ContainsIs ==
  ASSUME NEW S, NEW list \in Seq(S), NEW c
  PROVE  Contains(list, c) <=> Has(list, c)
<1>1. DOMAIN list = 1 .. Len(list)
  BY LenProperties
<1> QED BY <1>1 DEF Contains, Has

LEMMA PresenceWithout ==
  ASSUME ListInv, NEW c
  PROVE  LET r == Without(presence, c)
         IN  /\ r \in Seq(Present) /\ Once(r) /\ Before(r, "early", "wait")
             /\ \A d : Has(r, d) <=> Has(presence, d) /\ d # c
BY WithoutIs DEF ListInv

LEMMA MutesWithout ==
  ASSUME ListInv, NEW c
  PROVE  LET r == Without(mutes, c)
         IN  r \in Seq(Muting) /\ Once(r) /\ \A d : Has(r, d) <=> Has(mutes, d) /\ d # c
BY WithoutIs DEF ListInv

LEMMA EndingEmptiesLists ==
  ASSUME ListInv, Ending
  PROVE  /\ ListInv' /\ ~Has(presence', "wait") /\ ~Has(presence', "late")
<1>1. /\ Without(presence, "wait") \in Seq(Present) /\ Once(Without(presence, "wait"))
      /\ Before(Without(presence, "wait"), "early", "wait")
      /\ ~Has(Without(presence, "wait"), "wait")
  BY PresenceWithout
<1>2. /\ presence' \in Seq(Present) /\ Once(presence') /\ Before(presence', "early", "wait")
      /\ ~Has(presence', "wait") /\ ~Has(presence', "late")
  BY <1>1, WithoutIs DEF Ending
<1>3. mutes' \in Seq(Muting) /\ Once(mutes') /\ ~Has(mutes', "task")
  BY MutesWithout DEF Ending
<1>4. session' = "down"
  BY DEF Ending
<1> QED BY <1>2, <1>3, <1>4 DEF ListInv, Sessions

LEMMA StepKeepsLists == ListInv /\ StackInv /\ [Next]_vars => ListInv'
<1> SUFFICES ASSUME ListInv, StackInv, [Next]_vars PROVE ListInv'
  OBVIOUS
<1>1. CASE UNCHANGED <<presence, mutes, session>>
  BY <1>1 DEF ListInv
<1>2. CASE MuteOrUnmute \/ SetCanUnmute \/ ReceiveAudioInput \/ RestartLocalAudio \/ IndicatorFrame
  BY <1>1, <1>2 DEF MuteOrUnmute, SetCanUnmute, ReceiveAudioInput, RestartLocalAudio,
      IndicatorFrame, lists
<1>3. CASE StreamJoins \/ StreamLeaves \/ Return
  BY <1>1, <1>3 DEF StreamJoins, StreamLeaves, Return, lists
<1>4. CASE Call /\ Has(presence, "wait") /\ Wait
  <2>1. CASE UNCHANGED <<presence, session>>
    BY <1>1, <1>4, <2>1 DEF Wait
  <2>2. CASE presence' = Without(presence, "wait") /\ session' = "up"
    <3>1. session = "subscribed" /\ mutes' = mutes
      BY <1>4, <2>2 DEF Wait, ListInv
    <3>2. /\ presence' \in Seq(Present) /\ Once(presence') /\ Before(presence', "early", "wait")
          /\ ~Has(presence', "wait")
      BY <2>2, PresenceWithout
    <3> QED BY <2>2, <3>1, <3>2 DEF ListInv, Sessions
  <2> QED BY <1>4, <2>1, <2>2 DEF Wait
<1>5. CASE Call /\ ~(Has(presence, "wait") /\ Wait)
  <2>1. SendMute \/ AppHearsMute \/ \E c \in Subscribers : Hear(c)
    BY <1>5, CallIs DEF Has
  <2> QED BY <1>1, <2>1 DEF Hear, SendMute, AppHearsMute, lists
<1>6. CASE Subscribe
  <2>1. session' = session
    BY <1>6 DEF Subscribe
  <2>2. ASSUME NEW c \in {"early", "late"}, c = IF session = "down" THEN "early" ELSE "late",
               ~Contains(presence, c), presence' = Append(presence, c), mutes' = mutes
        PROVE  ListInv'
    <3>1. ~Has(presence, c) /\ c \in Present
      BY <2>2, ContainsIs DEF ListInv, Present
    <3>2. /\ presence' \in Seq(Present) /\ Once(presence')
          /\ \A d : Has(presence', d) <=> Has(presence, d) \/ d = c
          /\ c # "early" => Before(presence', "early", "wait")
      BY <2>2, <3>1, AppendedIs DEF ListInv
    <3>3. c = "early" => Before(presence', "early", "wait")
      <4>1. c = "early" => ~Has(presence', "wait")
        BY <2>2, <3>2 DEF ListInv
      <4> QED BY <4>1 DEF Before, Has
    <3> QED BY <2>1, <2>2, <3>2, <3>3 DEF ListInv
  <2>3. ASSUME ~Contains(mutes, "app"), mutes' = Append(mutes, "app"), presence' = presence
        PROVE  ListInv'
    <3>1. ~Has(mutes, "app") /\ "app" \in Muting
      BY <2>3, ContainsIs DEF ListInv, Muting
    <3>2. /\ mutes' \in Seq(Muting) /\ Once(mutes')
          /\ \A d : Has(mutes', d) <=> Has(mutes, d) \/ d = "app"
      BY <2>3, <3>1, AppendedIs DEF ListInv
    <3> QED BY <2>1, <2>3, <3>2 DEF ListInv
  <2> QED BY <1>6, <2>2, <2>3 DEF Subscribe, Subscribers
<1>7. CASE Unsubscribe
  <2>1. session' = session
    BY <1>7 DEF Unsubscribe
  <2>2. ASSUME NEW c \in Subscribers, presence' = Without(presence, c), mutes' = mutes
        PROVE  ListInv'
    <3>1. /\ presence' \in Seq(Present) /\ Once(presence') /\ Before(presence', "early", "wait")
          /\ \A d : Has(presence', d) <=> Has(presence, d) /\ d # c
      BY <2>2, PresenceWithout
    <3> QED BY <2>1, <2>2, <3>1 DEF ListInv
  <2>3. ASSUME mutes' = Without(mutes, "app"), presence' = presence
        PROVE  ListInv'
    <3>1. /\ mutes' \in Seq(Muting) /\ Once(mutes')
          /\ \A d : Has(mutes', d) <=> Has(mutes, d) /\ d # "app"
      BY <2>3, MutesWithout
    <3> QED BY <2>1, <2>3, <3>1 DEF ListInv
  <2> QED BY <1>7, <2>2, <2>3 DEF Unsubscribe
<1>8. CASE Start
  <2>1. session = "down" /\ session' = "connecting" /\ UNCHANGED <<presence, mutes>>
    BY <1>8 DEF Start, lists
  <2> QED BY <2>1 DEF ListInv, Sessions
<1>9. CASE Opened
  <2>1. CASE session = "connecting" /\ session' = "open" /\ mutes' = Append(mutes, "task")
    <3>1. ~Has(mutes, "task") /\ "task" \in Muting
      BY <2>1 DEF ListInv, Muting
    <3>2. mutes' \in Seq(Muting) /\ Once(mutes') /\ Has(mutes', "task")
      BY <2>1, <3>1, AppendedIs DEF ListInv
    <3>3. presence' = presence /\ ~Has(presence, "wait")
      BY <1>9, <2>1 DEF Opened, ListInv
    <3> QED BY <2>1, <3>2, <3>3 DEF ListInv, Sessions
  <2>2. CASE session = "reconnecting" /\ session' = "reopened" /\ UNCHANGED mutes
    <3>1. presence' = presence
      BY <1>9 DEF Opened
    <3> QED BY <2>2, <3>1 DEF ListInv, Sessions
  <2> QED BY <1>9, <2>1, <2>2 DEF Opened
<1>10. CASE Subscribed
  <2>1. mutes' = mutes
    BY <1>10 DEF Subscribed
  <2>2. CASE session = "open" /\ session' = "subscribed" /\ presence' = Append(presence, "wait")
    <3>1. ~Has(presence, "wait") /\ "wait" \in Present
      BY <2>2 DEF ListInv, Present
    <3>2. presence' \in Seq(Present) /\ Once(presence') /\ Before(presence', "early", "wait")
      BY <2>2, <3>1, AppendedIs DEF ListInv
    <3> QED BY <2>1, <2>2, <3>2 DEF ListInv, Sessions
  <2>3. CASE session = "reopened" /\ session' = "up" /\ UNCHANGED presence
    BY <2>1, <2>3 DEF ListInv, Sessions
  <2> QED BY <1>10, <2>2, <2>3 DEF Subscribed
<1>11. CASE Reconnect
  <2>1. session = "up" /\ session' = "reconnecting" /\ UNCHANGED <<presence, mutes>>
    BY <1>11 DEF Reconnect, lists
  <2> QED BY <2>1 DEF ListInv, Sessions
<1>12. CASE Stop \/ SendDataMessage
  BY <1>12, EndingEmptiesLists DEF Stop, SendDataMessage
<1>13. CASE UNCHANGED vars
  BY <1>1, <1>13 DEF vars, lists
<1> QED BY <1>2, <1>3, <1>4, <1>5, <1>6, <1>7, <1>8, <1>9, <1>10, <1>11, <1>12, <1>13 DEF Next

-----------------------------------------------------------------------------
(* The stack.                                                               *)

LEMMA FramePushed ==
  ASSUME NEW S, NEW f \in S, NEW rest \in Seq(S)
  PROVE  /\ <<f>> \o rest \in Seq(S) /\ Len(<<f>> \o rest) = Len(rest) + 1 /\ Len(rest) \in Nat
         /\ <<f>> \o rest # <<>> /\ (<<f>> \o rest)[1] = f
<1>1. <<f>> \in Seq(S) /\ Len(<<f>>) = 1 /\ <<f>>[1] = f /\ Len(rest) \in Nat
  BY LenProperties
<1>2. /\ <<f>> \o rest \in Seq(S) /\ Len(<<f>> \o rest) = Len(<<f>>) + Len(rest)
      /\ \A i \in 1 .. Len(<<f>>) + Len(rest) :
           (<<f>> \o rest)[i] = IF i <= Len(<<f>>) THEN <<f>>[i] ELSE rest[i - Len(<<f>>)]
  BY <1>1, ConcatProperties
<1>3. 1 \in 1 .. Len(<<f>>) + Len(rest) /\ 1 <= Len(<<f>>)
  BY <1>1
<1>4. Len(<<f>> \o rest) # 0
  BY <1>1, <1>2
<1> QED BY <1>1, <1>2, <1>3, <1>4, EmptySeq

\* The turn begins to go through a list.
LEMMA PushIs ==
  ASSUME Quiet, NEW f, stack' = Push(f)
  PROVE  stack' = <<f>> /\ Top' = f /\ stack' # <<>> /\ Len(stack') = 1
<1>1. <<f>> \o <<>> = <<f>>
  OBVIOUS
<1> QED BY <1>1 DEF Quiet, Push, Top

\* The loop goes on behind the call that was made.
LEMMA NextIs ==
  ASSUME StackInv, stack # <<>>, stack' = Next1
  PROVE  /\ Len(stack') = Len(stack) /\ stack' # <<>>
         /\ Top' = [Top EXCEPT !.at = @ + 1]
         /\ stack \in Seq(MuteFrames) => stack' \in Seq(MuteFrames)
         /\ Top.on = "presence" => stack' \in Seq(PresenceFrames)
<1> DEFINE g == [Top EXCEPT !.at = @ + 1]
<1>1. ASSUME NEW S, stack \in Seq(S), g \in S
      PROVE  stack' \in Seq(S) /\ Len(stack') = Len(stack) /\ stack' # <<>> /\ stack'[1] = g
  <2>1. Pop \in Seq(S) /\ Len(Pop) = Len(stack) - 1 /\ Len(stack) \in Nat
    BY <1>1, HeadTailProperties, LenProperties DEF Pop
  <2>2. stack' = <<g>> \o Pop
    BY DEF Next1
  <2> HIDE DEF g
  <2> QED BY <1>1, <2>1, <2>2, FramePushed
<1>2. CASE Top.on = "presence"
  <2>1. Top \in PresenceFrames /\ stack = <<Top>>
    BY <1>2, TopIs
  <2>2. g \in PresenceFrames /\ stack \in Seq(PresenceFrames) /\ stack \notin Seq(MuteFrames)
    <3>1. g \in PresenceFrames
      BY <2>1 DEF PresenceFrames
    <3>2. stack \in Seq(PresenceFrames)
      BY <2>1
    <3>3. stack \in Seq(MuteFrames) => Top \in MuteFrames
      BY ElementOfSeq, EmptySeq, LenProperties DEF Top
    <3> QED BY <1>2, <3>1, <3>2, <3>3 DEF MuteFrames
  <2> QED BY <1>1, <2>2 DEF Top
<1>3. CASE Top.on # "presence"
  <2>1. Top \in MuteFrames /\ stack \in Seq(MuteFrames)
    BY <1>3, TopIs
  <2>2. g \in MuteFrames
    BY <2>1 DEF MuteFrames
  <2> QED BY <1>1, <1>3, <2>1, <2>2 DEF Top
<1> QED BY <1>2, <1>3

LEMMA NextKeepsStack ==
  ASSUME StackInv, stack # <<>>, stack' = Next1, UNCHANGED disturbed,
         Top.on = "presence" => session' \in {"subscribed", "up"}
  PROVE  StackInv'
<1>1. CASE Top.on = "presence"
  <2>1. Len(stack) = 1
    BY <1>1, TopIs
  <2> QED BY <1>1, <2>1, NextIs DEF StackInv
<1>2. CASE Top.on # "presence"
  <2>1. stack \in Seq(MuteFrames)
    BY <1>2, TopIs
  <2> QED BY <2>1, NextIs DEF StackInv
<1> QED BY <1>1, <1>2

LEMMA MuteCallsStack ==
  ASSUME StackInv, stack # <<>>, Top.on = "mutes", SendMute \/ AppHearsMute
  PROVE  stack' \in Seq(MuteFrames)
<1>1. stack \in Seq(MuteFrames) /\ Top \in MuteFrames
  BY TopIs
<1>2. CASE stack' = Next1
  BY <1>1, <1>2, NextIs
<1>3. CASE stack' = <<[on |-> "mutes", at |-> 1, value |-> muted']>> \o Next1 /\ muted' \in BOOLEAN
  <2> DEFINE f == [on |-> "mutes", at |-> 1, value |-> muted']
             g == [Top EXCEPT !.at = @ + 1]
  <2>1. f \in MuteFrames
    BY <1>3 DEF MuteFrames
  <2>2. Pop \in Seq(MuteFrames) /\ g \in MuteFrames /\ Next1 = <<g>> \o Pop
    BY <1>1, HeadTailProperties DEF Pop, Next1, MuteFrames
  <2>3. stack' = <<f>> \o Next1
    BY <1>3
  <2> HIDE DEF f, g
  <2>4. Next1 \in Seq(MuteFrames)
    BY <2>2, FramePushed
  <2> QED BY <2>1, <2>3, <2>4, FramePushed
<1> QED BY <1>2, <1>3 DEF SendMute, AppHearsMute

LEMMA CallKeepsStack == ListInv /\ StackInv /\ Call => StackInv'
<1> SUFFICES ASSUME ListInv, StackInv, Call PROVE StackInv'
  OBVIOUS
<1>1. stack # <<>>
  BY CallIs
<1>2. CASE Top.on = "presence" /\ \E c \in Subscribers : Hear(c)
  <2>1. stack' = Next1 /\ UNCHANGED <<disturbed, session>>
    BY <1>2 DEF Hear
  <2> QED BY <1>1, <1>2, <2>1, TopIs, NextKeepsStack
<1>3. CASE Top.on = "presence" /\ Wait
  <2>1. stack' = Next1 /\ UNCHANGED disturbed /\ session' \in {session, "up"}
    BY <1>3 DEF Wait
  <2> QED BY <1>1, <1>3, <2>1, TopIs, NextKeepsStack
<1>4. CASE Top.on = "mutes" /\ SendMute
  <2>1. stack' = Next1 /\ UNCHANGED <<disturbed, session>>
    BY <1>4 DEF SendMute
  <2> QED BY <1>1, <1>4, <2>1, NextKeepsStack
<1>5. CASE Top.on = "mutes" /\ AppHearsMute
  <2>1. CASE stack' = Next1 /\ UNCHANGED disturbed
    BY <1>1, <1>5, <2>1, NextKeepsStack
  <2>2. CASE disturbed' = TRUE
    BY <1>1, <1>5, <2>2, MuteCallsStack DEF StackInv
  <2> QED BY <1>5, <2>1, <2>2 DEF AppHearsMute
<1> QED BY <1>2, <1>3, <1>4, <1>5, CallIs

StreamTypes == streams \in [Streams -> Attendees \cup {"none"}] /\ given \in Nat

LEMMA StepKeepsStreamTypes == StreamTypes /\ [Next]_vars => StreamTypes'
<1> SUFFICES ASSUME StreamTypes, [Next]_vars PROVE StreamTypes'
  OBVIOUS
<1>1. CASE UNCHANGED remote
  BY <1>1 DEF StreamTypes, remote
<1>2. CASE StreamJoins
  <2>1. PICK a \in Attendees : streams' = [streams EXCEPT ![given + 1] = a]
    BY <1>2 DEF StreamJoins
  <2>2. given' \in Nat
    BY <1>2 DEF StreamJoins, StreamTypes
  <2> QED BY <2>1, <2>2 DEF StreamTypes
<1>3. CASE StreamLeaves
  <2>1. given' = given /\ \E s \in Streams : streams' = [streams EXCEPT ![s] = "none"]
    BY <1>3 DEF StreamLeaves
  <2> QED BY <2>1 DEF StreamTypes
<1>4. CASE Start
  BY <1>4 DEF Start, StreamTypes
<1>5. CASE MuteOrUnmute \/ SetCanUnmute \/ ReceiveAudioInput \/ RestartLocalAudio \/ IndicatorFrame
  BY <1>1, <1>5 DEF MuteOrUnmute, SetCanUnmute, ReceiveAudioInput, RestartLocalAudio,
      IndicatorFrame
<1>6. CASE Return \/ Call \/ Subscribe \/ Unsubscribe
  BY <1>1, <1>6 DEF Return, Call, Subscribe, Unsubscribe
<1>7. CASE Opened \/ Subscribed \/ Reconnect \/ Stop \/ SendDataMessage
  BY <1>1, <1>7 DEF Opened, Subscribed, Reconnect, Stop, SendDataMessage
<1>8. CASE UNCHANGED vars
  BY <1>1, <1>8 DEF vars
<1> QED BY <1>2, <1>3, <1>4, <1>5, <1>6, <1>7, <1>8 DEF Next

LEMMA StepKeepsStack ==
  muted \in BOOLEAN /\ StreamTypes /\ ListInv /\ StackInv /\ [Next]_vars => StackInv'
<1> SUFFICES ASSUME muted \in BOOLEAN, StreamTypes, ListInv, StackInv, [Next]_vars PROVE StackInv'
  OBVIOUS
<1>1. CASE MuteOrUnmute
  <2>1. PICK v \in BOOLEAN : stack' = Push([on |-> "mutes", at |-> 1, value |-> v])
    BY <1>1 DEF MuteOrUnmute, Mute, Unmute
  <2>2. stack' = <<[on |-> "mutes", at |-> 1, value |-> v]>> /\ Len(stack') = 1
    BY <1>1, <2>1, PushIs DEF MuteOrUnmute
  <2>3. [on |-> "mutes", at |-> 1, value |-> v] \in MuteFrames
    BY DEF MuteFrames
  <2> QED BY <2>2, <2>3 DEF StackInv
<1>2. CASE StreamJoins \/ (StreamLeaves /\ stack' # stack)
  <2>1. PICK a \in Attendees, v \in BOOLEAN :
          stack' = Push([on |-> "presence", at |-> 1, who |-> a, value |-> v])
    <3>1. CASE StreamJoins
      BY <3>1 DEF StreamJoins
    <3>2. CASE StreamLeaves /\ stack' # stack
      <4>1. PICK s \in Streams :
              /\ streams[s] # "none"
              /\ stack' = Push([on |-> "presence", at |-> 1, who |-> streams[s], value |-> FALSE])
        BY <3>2 DEF StreamLeaves
      <4>2. streams[s] \in Attendees
        BY <4>1 DEF StreamTypes
      <4> QED BY <4>1, <4>2
    <3> QED BY <1>2, <3>1, <3>2
  <2>2. Quiet /\ UNCHANGED session /\ session \in {"subscribed", "up"}
    BY <1>2 DEF StreamJoins, StreamLeaves
  <2> DEFINE f == [on |-> "presence", at |-> 1, who |-> a, value |-> v]
  <2>3. f \in PresenceFrames
    BY DEF PresenceFrames
  <2> HIDE DEF f
  <2>4. stack' = <<f>> /\ Len(stack') = 1
    BY <2>1, <2>2, PushIs DEF f
  <2>5. stack' \in Seq(PresenceFrames)
    BY <2>3, <2>4
  <2> QED BY <2>2, <2>4, <2>5 DEF StackInv
<1>3. CASE stack' = stack /\ (Quiet \/ UNCHANGED <<disturbed, session>>)
  BY <1>3, EmptySeq DEF StackInv, Quiet
<1>4. CASE SetCanUnmute \/ ReceiveAudioInput \/ RestartLocalAudio \/ IndicatorFrame
  BY <1>3, <1>4 DEF SetCanUnmute, ReceiveAudioInput, RestartLocalAudio,
      IndicatorFrame
<1>5. CASE Return
  <2>1. stack # <<>> /\ stack' = Tail(stack) /\ UNCHANGED <<disturbed, session>>
    BY <1>5 DEF Return, Quiet, Pop
  <2>2. CASE Top.on = "presence"
    <3>1. stack = <<Top>>
      BY <2>1, <2>2, TopIs
    <3>2. stack' = <<>>
      BY <2>1, <3>1
    <3>3. stack' \in Seq(MuteFrames) /\ Len(stack') = 0
      BY <3>2
    <3> QED BY <3>3 DEF StackInv
  <2>3. CASE Top.on # "presence"
    <3>1. stack \in Seq(MuteFrames)
      BY <2>1, <2>3, TopIs
    <3>2. stack' \in Seq(MuteFrames) /\ Len(stack') = Len(stack) - 1 /\ Len(stack) \in Nat
      BY <2>1, <3>1, HeadTailProperties, LenProperties
    <3> QED BY <2>1, <3>2 DEF StackInv
  <2> QED BY <2>2, <2>3
<1>6. CASE Call
  BY <1>6, CallKeepsStack
<1>7. CASE Subscribe \/ Unsubscribe \/ Start \/ Opened \/ Subscribed \/ Reconnect
  BY <1>3, <1>7 DEF Subscribe, Unsubscribe, Start, Opened, Subscribed, Reconnect
<1>8. CASE Stop \/ SendDataMessage
  BY <1>3, <1>8 DEF Stop, SendDataMessage
<1>9. CASE UNCHANGED vars
  BY <1>3, <1>9 DEF vars
<1> QED BY <1>1, <1>2, <1>3, <1>4, <1>5, <1>6, <1>7, <1>8, <1>9 DEF Next, StreamLeaves

-----------------------------------------------------------------------------
(* What the server knows.                                                   *)

Within(kind) == stack # <<>> /\ Top.on = kind

\* The task that tells the server is still to be called in this turn.
ToBeSent == Within("mutes") /\ \E j \in DOMAIN mutes : mutes[j] = "task" /\ j >= Top.at

ServerInv ==
  ~disturbed =>
    /\ Within("mutes") => Top.value = muted
    /\ session \in {"subscribed", "up"} => server = muted \/ ToBeSent

\* Whatever happens between turns and is not about muting.
LEMMA ServerUntouched ==
  ASSUME ServerInv, Quiet, stack' = stack \/ Within("presence")', UNCHANGED <<muted, server>>,
         session' \in {"subscribed", "up"} => session \in {"subscribed", "up"},
         disturbed' = disturbed \/ session' \notin {"subscribed", "up"}
  PROVE  ServerInv'
<1>1. ~Within("mutes") /\ ~Within("mutes")'
  BY DEF Within, Quiet
<1> QED BY <1>1 DEF ServerInv, ToBeSent

LEMMA CallKeepsServer ==
  ASSUME ListInv, StackInv, ServerInv, Call
  PROVE  ServerInv'
<1>1. stack # <<>> /\ Top.at \in Nat \ {0}
  BY CallIs, TopIs
<1>2. CASE Top.on = "presence" /\ (Wait \/ \E c \in Subscribers : Hear(c))
  <2>1. stack' = Next1 /\ UNCHANGED <<muted, server, disturbed>>
    BY <1>2 DEF Wait, Hear, audio
  <2>2. Top'.on = "presence" /\ session \in {"subscribed", "up"} /\ ~Within("mutes") /\ ~Within("mutes")'
    <3>1. Top \in PresenceFrames /\ session \in {"subscribed", "up"} /\ Top' = [Top EXCEPT !.at = @ + 1]
      BY <1>1, <1>2, <2>1, TopIs, NextIs
    <3>2. Top'.on = "presence"
      BY <1>2, <3>1 DEF PresenceFrames
    <3> QED BY <1>2, <3>1, <3>2 DEF Within
  <2> QED BY <2>1, <2>2 DEF ServerInv, ToBeSent
<1>3. CASE Top.on = "mutes" /\ mutes[Top.at] = "task" /\ SendMute
  <2>1. /\ stack' = Next1 /\ UNCHANGED <<muted, disturbed, session>>
        /\ session \in {"subscribed", "up"} => server' = Top.value
    BY <1>3 DEF SendMute, audio, Ready
  <2>2. Top'.on = "mutes" /\ Top'.value = Top.value
    <3>1. Top \in MuteFrames /\ Top' = [Top EXCEPT !.at = @ + 1]
      BY <1>1, <1>3, <2>1, TopIs, NextIs
    <3> QED BY <1>3, <3>1 DEF MuteFrames
  <2>3. ~disturbed => Top.value = muted
    BY <1>1, <1>3 DEF ServerInv, Within
  <2> QED BY <2>1, <2>2, <2>3 DEF ServerInv, Within
<1>4. CASE Top.on = "mutes" /\ mutes[Top.at] = "app" /\ AppHearsMute
  <2>1. CASE disturbed' = TRUE
    BY <2>1 DEF ServerInv
  <2>2. CASE stack' = Next1 /\ UNCHANGED <<muted, disturbed>>
    <3>1. Top \in MuteFrames /\ Top' = [Top EXCEPT !.at = @ + 1] /\ stack' # <<>>
      BY <1>1, <1>4, <2>2, TopIs, NextIs
    <3>2. Top'.on = "mutes" /\ Top'.value = Top.value /\ Top'.at = Top.at + 1
      BY <1>4, <3>1 DEF MuteFrames
    <3>3. UNCHANGED <<mutes, session, server>>
      BY <1>4 DEF AppHearsMute, lists
    <3>4. ToBeSent => ToBeSent'
      <4>1. ASSUME NEW j \in DOMAIN mutes, mutes[j] = "task", j >= Top.at PROVE j >= Top.at + 1
        <5>1. j \in Nat
          BY LenProperties DEF ListInv
        <5>2. j # Top.at
          BY <1>4, <4>1
        <5> QED BY <1>1, <4>1, <5>1, <5>2
      <4> QED BY <3>1, <3>2, <3>3, <4>1 DEF ToBeSent, Within
    <3> QED BY <1>1, <1>4, <2>2, <3>2, <3>3, <3>4 DEF ServerInv, Within
  <2> QED BY <1>4, <2>1, <2>2 DEF AppHearsMute
<1> QED BY <1>2, <1>3, <1>4, CallIs

LEMMA StepKeepsServer ==
  muted \in BOOLEAN /\ ListInv /\ StackInv /\ ServerInv /\ [Next]_vars => ServerInv'
<1> SUFFICES ASSUME muted \in BOOLEAN, ListInv, StackInv, ServerInv, [Next]_vars PROVE ServerInv'
  OBVIOUS
<1>1. CASE MuteOrUnmute
  <2>1. /\ Quiet /\ stack' = Push([on |-> "mutes", at |-> 1, value |-> muted'])
        /\ UNCHANGED <<mutes, session, server, disturbed>>
    BY <1>1 DEF MuteOrUnmute, Mute, Unmute, lists
  <2>2. Top' = [on |-> "mutes", at |-> 1, value |-> muted'] /\ stack' # <<>>
    BY <2>1, PushIs
  <2>3. Top'.on = "mutes" /\ Top'.at = 1 /\ Top'.value = muted'
    BY <2>2
  <2>4. session \in {"subscribed", "up"} => \E j \in DOMAIN mutes : mutes[j] = "task" /\ j >= 1
    <3>1. \A j \in DOMAIN mutes : j >= 1
      BY LenProperties DEF ListInv
    <3> QED BY <3>1 DEF ListInv, Has
  <2> QED BY <2>1, <2>2, <2>3, <2>4 DEF ServerInv, ToBeSent, Within
<1>2. CASE SetCanUnmute \/ ReceiveAudioInput \/ RestartLocalAudio \/ IndicatorFrame
  <2>1. Quiet /\ UNCHANGED <<stack, muted, server, session, disturbed>>
    BY <1>2 DEF SetCanUnmute, ReceiveAudioInput, RestartLocalAudio,
      IndicatorFrame
  <2> QED BY <2>1, ServerUntouched
<1>3. CASE StreamJoins \/ StreamLeaves
  <2>1. Quiet /\ UNCHANGED <<muted, server, session, disturbed>>
    BY <1>3 DEF StreamJoins, StreamLeaves, audio
  <2>2. stack' = stack \/ \E a, v : stack' = Push([on |-> "presence", at |-> 1, who |-> a, value |-> v])
    BY <1>3 DEF StreamJoins, StreamLeaves
  <2>3. stack' = stack \/ Within("presence")'
    <3>1. ASSUME NEW a, NEW v, stack' = Push([on |-> "presence", at |-> 1, who |-> a, value |-> v])
          PROVE  Within("presence")'
      <4>1. Top' = [on |-> "presence", at |-> 1, who |-> a, value |-> v] /\ stack' # <<>>
        BY <2>1, <3>1, PushIs
      <4>2. Top'.on = "presence"
        BY <4>1
      <4> QED BY <4>1, <4>2 DEF Within
    <3> QED BY <2>2, <3>1
  <2> QED BY <2>1, <2>3, ServerUntouched
<1>4. CASE Return
  <2>1. /\ stack # <<>> /\ stack' = Tail(stack) /\ Top.at > Len(Listeners)
        /\ UNCHANGED <<muted, mutes, server, session, disturbed>>
    BY <1>4 DEF Return, Quiet, Pop, audio, lists
  <2>2. ~ToBeSent
    <3>1. SUFFICES ASSUME Within("mutes"), NEW j \in DOMAIN mutes, j >= Top.at PROVE FALSE
      BY DEF ToBeSent
    <3>2. Listeners = mutes /\ Len(mutes) \in Nat /\ j \in 1 .. Len(mutes)
      BY <3>1, LenProperties DEF Listeners, Within, ListInv
    <3>3. Top.at \in Nat
      BY <2>1, TopIs
    <3> QED BY <2>1, <3>1, <3>2, <3>3
  <2>3. ~disturbed => stack' = <<>>
    <3>1. PICK S : stack \in Seq(S)
      BY DEF StackInv
    <3>2. Len(stack) \in Nat /\ Len(stack) # 0 /\ Tail(stack) \in Seq(S) /\ Len(Tail(stack)) = Len(stack) - 1
      BY <2>1, <3>1, LenProperties, EmptySeq, HeadTailProperties
    <3>3. ~disturbed => Len(Tail(stack)) = 0
      BY <3>2 DEF StackInv
    <3> QED BY <2>1, <3>2, <3>3, EmptySeq
  <2> QED BY <2>1, <2>2, <2>3 DEF ServerInv, Within
<1>5. CASE Call
  BY <1>5, CallKeepsServer
<1>6. CASE Subscribe \/ Unsubscribe
  <2>1. Quiet /\ UNCHANGED <<stack, muted, server, session, disturbed>>
    BY <1>6 DEF Subscribe, Unsubscribe, audio
  <2> QED BY <2>1, ServerUntouched
<1>7. CASE Start \/ Opened \/ Reconnect \/ Stop \/ SendDataMessage
  <2>1. Quiet /\ UNCHANGED <<stack, muted, server>> /\ session' \notin {"subscribed", "up"}
    BY <1>7 DEF Start, Opened, Reconnect, Stop, SendDataMessage, Ending, audio
  <2> QED BY <2>1, ServerUntouched
<1>8. CASE Subscribed
  <2>1. Quiet /\ UNCHANGED <<stack, muted, disturbed>> /\ server' = muted
    BY <1>8 DEF Subscribed, audio
  <2> QED BY <2>1 DEF ServerInv, Within, Quiet
<1>9. CASE UNCHANGED vars
  BY <1>9 DEF vars, audio, lists, ServerInv, ToBeSent, Within, Top
<1> QED BY <1>1, <1>2, <1>3, <1>4, <1>5, <1>6, <1>7, <1>8, <1>9 DEF Next

-----------------------------------------------------------------------------
(* The roster.                                                              *)

\* Who is present, and what a subscriber that is still to be called in this turn
\* makes of its roster.
Here == {streams[s] : s \in Streams} \ {"none"}
Changed(r) == IF Top.value THEN r \cup {Top.who} ELSE r \ {Top.who}

RosterInv ==
  /\ \A s \in Streams : s > given => streams[s] = "none"
  /\ roster \in [Subscribers -> SUBSET Attendees]
  /\ session = "down" => roster["early"] = {}
  /\ session # "down" => \A i \in DOMAIN presence : presence[i] = "early" =>
       Here = IF Within("presence") /\ i >= Top.at THEN Changed(roster["early"])
              ELSE roster["early"]

\* Nothing that the early subscriber's roster is about changes.
LEMMA RosterUntouched ==
  ASSUME RosterInv, UNCHANGED <<streams, given, roster>>, session = "down" <=> session' = "down",
         \/ presence' = presence
         \/ Quiet /\ (Has(presence', "early") => Has(presence, "early") \/ session = "down"),
         \/ stack' = stack
         \/ ~Within("presence") /\ ~Within("presence")'
  PROVE  RosterInv'
<1>1. ASSUME session' # "down", NEW i \in DOMAIN presence', presence'[i] = "early"
      PROVE  Here' = IF Within("presence")' /\ i >= Top'.at THEN Changed(roster["early"])'
                     ELSE roster'["early"]
  <2>1. Here' = Here
    BY DEF Here
  <2>2. CASE presence' = presence /\ stack' = stack
    BY <1>1, <2>1, <2>2 DEF RosterInv, Within, Top, Changed
  <2>3. CASE ~Within("presence") /\ ~Within("presence")'
    <3>1. PICK j \in DOMAIN presence : presence[j] = "early"
      BY <1>1 DEF Has
    <3> QED BY <1>1, <2>1, <2>3, <3>1 DEF RosterInv
  <2>4. Quiet /\ stack' = stack => ~Within("presence") /\ ~Within("presence")'
    BY DEF Within, Quiet
  <2> QED BY <2>2, <2>3, <2>4
<1> QED BY <1>1 DEF RosterInv

\* One call of the presence list: c is called.
LEMMA PresenceCall ==
  ASSUME ListInv, StackInv, RosterInv, stack # <<>>, Top.on = "presence", stack' = Next1,
         UNCHANGED <<streams, given>>, session' # "down",
         roster' \in [Subscribers -> SUBSET Attendees],
         roster'["early"] = IF presence[Top.at] = "early" THEN Changed(roster["early"])
                            ELSE roster["early"],
         \A i \in DOMAIN presence' : presence'[i] = "early" =>
           i \in DOMAIN presence /\ presence[i] = "early" /\ (presence' # presence => i < Top.at),
         Top.at \in DOMAIN presence
  PROVE  RosterInv'
<1>1. /\ Top \in PresenceFrames /\ Top.at \in Nat /\ session # "down"
      /\ Top' = [Top EXCEPT !.at = @ + 1] /\ stack' # <<>>
  BY TopIs, NextIs
<1>2. Top'.on = "presence" /\ Top'.at = Top.at + 1 /\ Top'.who = Top.who /\ Top'.value = Top.value
  BY <1>1 DEF PresenceFrames
<1>3. Here' = Here /\ \A r : Changed(r) = IF Top.value THEN r \cup {Top.who} ELSE r \ {Top.who}
  BY DEF Here, Changed
<1>4. Within("presence") /\ Within("presence")'
  BY <1>1, <1>2 DEF Within
<1>5. ASSUME NEW i \in DOMAIN presence', presence'[i] = "early"
      PROVE  Here' = IF Within("presence")' /\ i >= Top'.at THEN Changed(roster["early"])'
                     ELSE roster'["early"]
  <2>1. i \in DOMAIN presence /\ presence[i] = "early" /\ i \in Nat
    BY <1>5, LenProperties DEF ListInv
  <2>2. Here = IF i >= Top.at THEN Changed(roster["early"]) ELSE roster["early"]
    BY <1>1, <1>4, <2>1 DEF RosterInv
  <2>3. CASE presence[Top.at] = "early"
    <3>1. i = Top.at
      BY <2>1, <2>3 DEF ListInv, Once
    <3>2. Here = Changed(roster["early"]) /\ ~(i >= Top'.at)
      BY <1>1, <1>2, <2>2, <3>1
    <3> QED BY <1>3, <2>3, <3>2
  <2>4. CASE presence[Top.at] # "early"
    <3>1. i >= Top.at <=> i >= Top'.at
      BY <1>1, <1>2, <2>1, <2>4
    <3>2. roster'["early"] = roster["early"]
      BY <2>4
    <3>3. Changed(roster["early"])' = Changed(roster["early"])
      BY <1>2, <3>2 DEF Changed
    <3> QED BY <1>3, <1>4, <2>2, <3>1, <3>2, <3>3
  <2> QED BY <2>3, <2>4
<1> QED BY <1>5 DEF RosterInv

LEMMA CallKeepsRoster ==
  ASSUME ListInv, StackInv, RosterInv, Call
  PROVE  RosterInv'
<1>1. stack # <<>> /\ UNCHANGED <<streams, given>>
  BY CallIs DEF Call, remote
<1>2. CASE Top.on = "presence" /\ Top.at \in DOMAIN presence
           /\ presence[Top.at] \in Subscribers /\ Hear(presence[Top.at])
  <2>1. /\ stack' = Next1 /\ UNCHANGED <<presence, session>>
        /\ roster' = [roster EXCEPT ![presence[Top.at]] = Changed(@)]
    BY <1>2 DEF Hear, lists, Changed
  <2>2. Top.who \in Attendees /\ session # "down"
    BY <1>1, <1>2, TopIs DEF PresenceFrames
  <2>3. /\ roster' \in [Subscribers -> SUBSET Attendees]
        /\ roster'["early"] = IF presence[Top.at] = "early" THEN Changed(roster["early"])
                               ELSE roster["early"]
    BY <1>2, <2>1, <2>2 DEF RosterInv, Changed, Subscribers
  <2> QED BY <1>1, <1>2, <2>1, <2>2, <2>3, PresenceCall
<1>3. CASE Top.on = "presence" /\ Top.at \in DOMAIN presence /\ presence[Top.at] = "wait" /\ Wait
  <2>1. stack' = Next1 /\ UNCHANGED roster
    BY <1>3 DEF Wait
  <2>2. session # "down" /\ session' # "down"
    BY <1>1, <1>3, TopIs DEF Wait
  <2>3. ASSUME NEW i \in DOMAIN presence', presence'[i] = "early"
        PROVE  i \in DOMAIN presence /\ presence[i] = "early" /\ (presence' # presence => i < Top.at)
    <3>1. CASE presence' = presence
      BY <2>3, <3>1
    <3>2. CASE presence' = Without(presence, "wait")
      <4>1. Has(presence, "early") /\ Once(presence')
        BY <2>3, <3>2, PresenceWithout DEF Has
      <4>2. PICK j \in DOMAIN presence : presence[j] = "early"
        BY <4>1 DEF Has
      <4>3. j < Top.at
        BY <1>3, <4>2 DEF ListInv, Before
      <4>4. j \in DOMAIN presence' /\ presence'[j] = "early"
        BY <1>3, <3>2, <4>2, <4>3, WithoutIs DEF ListInv
      <4>5. i = j
        BY <2>3, <4>1, <4>4 DEF Once
      <4> QED BY <4>2, <4>3, <4>5
    <3> QED BY <1>3, <3>1, <3>2 DEF Wait
  <2> QED BY <1>1, <1>3, <2>1, <2>2, <2>3, PresenceCall DEF RosterInv
<1>4. CASE Top.on = "mutes" /\ (SendMute \/ AppHearsMute)
  <2>1. UNCHANGED <<presence, session, roster>>
    BY <1>4 DEF SendMute, AppHearsMute, lists
  <2>2. stack' \in Seq(MuteFrames)
    BY <1>1, <1>4, MuteCallsStack
  <2>3. ~Within("presence") /\ ~Within("presence")'
    <3>1. stack' # <<>> => Top' \in MuteFrames
      BY <2>2, LenProperties, EmptySeq, ElementOfSeq DEF Top
    <3> QED BY <1>4, <3>1 DEF Within, MuteFrames
  <2> QED BY <1>1, <2>1, <2>3, RosterUntouched
<1> QED BY <1>2, <1>3, <1>4, CallIs

LEMMA StreamTurnKeepsRoster ==
  ASSUME ListInv, StreamTypes, RosterInv, StreamJoins \/ StreamLeaves
  PROVE  RosterInv'
<1>1. /\ Quiet /\ session # "down" /\ UNCHANGED <<presence, session, roster>>
  BY DEF StreamJoins, StreamLeaves, lists
<1>2. \A i \in DOMAIN presence : i >= 1
  BY LenProperties DEF ListInv
<1>3. \A i \in DOMAIN presence : presence[i] = "early" => roster["early"] = Here
  BY <1>1 DEF RosterInv, Within, Quiet
\* A frame of presence begins, and its calls make the roster what it should be.
<1>4. ASSUME NEW a, NEW v \in BOOLEAN,
             stack' = Push([on |-> "presence", at |-> 1, who |-> a, value |-> v]),
             Here' = IF v THEN Here \cup {a} ELSE Here \ {a},
             \A s \in Streams : s > given' => streams'[s] = "none"
      PROVE  RosterInv'
  <2>1. Top' = [on |-> "presence", at |-> 1, who |-> a, value |-> v] /\ stack' # <<>>
    BY <1>1, <1>4, PushIs
  <2>2. Top'.on = "presence" /\ Top'.at = 1 /\ Top'.who = a /\ Top'.value = v
    BY <2>1
  <2>3. Within("presence")'
    BY <2>1, <2>2 DEF Within
  <2>4. Changed(roster["early"])' = IF v THEN roster["early"] \cup {a} ELSE roster["early"] \ {a}
    BY <1>1, <2>2 DEF Changed
  <2>5. \A i \in DOMAIN presence' : presence'[i] = "early" =>
          i >= Top'.at /\ Here' = Changed(roster["early"])'
    BY <1>1, <1>2, <1>3, <1>4, <2>2, <2>4
  <2> QED BY <1>1, <1>4, <2>3, <2>5 DEF RosterInv
<1>5. CASE StreamJoins
  <2>1. PICK a \in Attendees :
          /\ streams' = [streams EXCEPT ![given + 1] = a]
          /\ stack' = Push([on |-> "presence", at |-> 1, who |-> a, value |-> TRUE])
    BY <1>5 DEF StreamJoins
  <2>2. given < MaxStreams /\ given' = given + 1 /\ given \in Nat /\ given + 1 \in Streams
    BY <1>5, RealtimeBounds DEF StreamJoins, StreamTypes, Streams
  <2>3. DOMAIN streams = Streams /\ streams[given + 1] = "none" /\ Streams \subseteq Nat
    BY <2>2 DEF RosterInv, StreamTypes, Streams
  <2>4. Here' = Here \cup {a}
    <3>1. a # "none"
      BY DEF Attendees
    <3>2. DOMAIN streams' = Streams /\ streams'[given + 1] = a
          /\ \A s \in Streams : s # given + 1 => streams'[s] = streams[s]
      BY <2>1, <2>2, <2>3
    <3> QED BY <2>2, <2>3, <3>1, <3>2 DEF Here
  <2>5. \A s \in Streams : s > given' => streams'[s] = "none"
    <3>1. \A s \in Streams : s > given + 1 => s > given /\ s # given + 1
      BY <2>2, <2>3
    <3> QED BY <2>1, <2>2, <2>3, <3>1 DEF RosterInv
  <2> QED BY <1>4, <2>1, <2>4, <2>5
<1>6. CASE StreamLeaves
  <2>1. PICK s \in Streams :
          /\ streams[s] # "none" /\ \A t \in 1 .. s - 1 : streams[t] # streams[s]
          /\ streams' = [streams EXCEPT ![s] = "none"]
          /\ stack' = IF NewerStream(s) THEN stack
                      ELSE Push([on |-> "presence", at |-> 1, who |-> streams[s], value |-> FALSE])
    BY <1>6 DEF StreamLeaves
  <2>2. /\ DOMAIN streams = Streams /\ given' = given
        /\ streams'[s] = "none" /\ \A t \in Streams : t # s => streams'[t] = streams[t]
    BY <1>6, <2>1 DEF StreamLeaves, StreamTypes
  <2>3. \A t \in Streams : t > given' => streams'[t] = "none"
    BY <2>2 DEF RosterInv
  <2>4. CASE NewerStream(s)
    <3>1. PICK n \in Streams : n # s /\ streams[n] = streams[s]
      BY <2>4 DEF NewerStream, Streams
    <3>2. Here' = Here
      BY <2>2, <3>1 DEF Here
    <3>3. stack' = stack
      BY <2>1, <2>4
    <3>4. ~Within("presence") /\ ~Within("presence")'
      BY <1>1, <3>3 DEF Within, Quiet
    <3> QED BY <1>1, <1>3, <2>3, <3>2, <3>4 DEF RosterInv
  <2>5. CASE ~NewerStream(s)
    <3>1. \A t \in Streams : t # s => streams[t] # streams[s]
      <4>1. \A t \in Streams : t # s => t > s \/ t \in 1 .. s - 1
        BY RealtimeBounds DEF Streams
      <4> QED BY <2>1, <2>5, <4>1 DEF NewerStream
    <3>2. Here' = Here \ {streams[s]}
      BY <2>1, <2>2, <3>1 DEF Here
    <3> QED BY <1>4, <2>1, <2>3, <2>5, <3>2
  <2> QED BY <2>4, <2>5
<1> QED BY <1>5, <1>6

LEMMA StepKeepsRoster ==
  StreamTypes /\ ListInv /\ StackInv /\ RosterInv /\ [Next]_vars => RosterInv'
<1> SUFFICES ASSUME StreamTypes, ListInv, StackInv, RosterInv, [Next]_vars PROVE RosterInv'
  OBVIOUS
<1>1. CASE MuteOrUnmute
  <2>1. /\ Quiet /\ UNCHANGED <<streams, given, roster, session, presence>>
        /\ stack' = Push([on |-> "mutes", at |-> 1, value |-> muted'])
    BY <1>1 DEF MuteOrUnmute, Mute, Unmute, remote, lists
  <2>2. Top' = [on |-> "mutes", at |-> 1, value |-> muted']
    BY <2>1, PushIs
  <2>3. ~Within("presence") /\ ~Within("presence")'
    <3>1. Top'.on = "mutes"
      BY <2>2
    <3> QED BY <2>1, <3>1 DEF Within, Quiet
  <2> QED BY <2>1, <2>3, RosterUntouched
<1>2. CASE SetCanUnmute \/ ReceiveAudioInput \/ RestartLocalAudio \/ IndicatorFrame
  <2>1. UNCHANGED <<streams, given, roster, session, presence, stack>>
    BY <1>2 DEF SetCanUnmute, ReceiveAudioInput, RestartLocalAudio,
      IndicatorFrame, remote, lists
  <2> QED BY <2>1, RosterUntouched
<1>3. CASE StreamJoins \/ StreamLeaves
  BY <1>3, StreamTurnKeepsRoster
<1>4. CASE Return
  <2>1. /\ stack # <<>> /\ stack' = Tail(stack) /\ Top.at > Len(Listeners)
        /\ UNCHANGED <<streams, given, roster, session, presence>>
    BY <1>4 DEF Return, Quiet, Pop, remote, lists
  <2>2. CASE Top.on = "presence"
    <3>1. stack = <<Top>> /\ Top.at \in Nat /\ session # "down"
      BY <2>1, <2>2, TopIs
    <3>2. stack' = <<>>
      BY <2>1, <3>1
    <3>3. \A i \in DOMAIN presence : ~(i >= Top.at)
      <4>1. Listeners = presence /\ Len(presence) \in Nat /\ DOMAIN presence = 1 .. Len(presence)
        BY <2>2, LenProperties DEF Listeners, ListInv
      <4> QED BY <2>1, <3>1, <4>1
    <3>4. \A i \in DOMAIN presence : presence[i] = "early" => Here = roster["early"]
      BY <3>1, <3>3 DEF RosterInv
    <3>5. ~Within("presence")' /\ Here' = Here
      BY <2>1, <3>2 DEF Within, Here
    <3> QED BY <2>1, <3>1, <3>4, <3>5 DEF RosterInv
  <2>3. CASE Top.on # "presence"
    <3>1. stack \in Seq(MuteFrames)
      BY <2>1, <2>3, TopIs
    <3>2. stack' \in Seq(MuteFrames)
      BY <2>1, <3>1, HeadTailProperties
    <3>3. stack' # <<>> => Top' \in MuteFrames
      BY <3>2, LenProperties, EmptySeq, ElementOfSeq DEF Top
    <3>4. ~Within("presence") /\ ~Within("presence")'
      BY <2>3, <3>3 DEF Within, MuteFrames
    <3> QED BY <2>1, <3>4, RosterUntouched
  <2> QED BY <2>2, <2>3
<1>5. CASE Call
  BY <1>5, CallKeepsRoster
<1>6. CASE Subscribe
  <2>1. Quiet /\ UNCHANGED <<streams, given, roster, session, stack>>
    BY <1>6 DEF Subscribe, remote
  <2>2. ASSUME NEW c \in Subscribers, c = IF session = "down" THEN "early" ELSE "late",
               ~Contains(presence, c), presence' = Append(presence, c)
        PROVE  Has(presence', "early") => Has(presence, "early") \/ session = "down"
    <3>1. ~Has(presence, c) /\ c \in Present
      BY <2>2, ContainsIs DEF ListInv, Present, Subscribers
    <3>2. \A d : Has(presence', d) <=> Has(presence, d) \/ d = c
      BY <2>2, <3>1, AppendedIs DEF ListInv
    <3> QED BY <2>2, <3>2
  <2>3. presence' = presence \/ (Has(presence', "early") => Has(presence, "early") \/ session = "down")
    BY <1>6, <2>2 DEF Subscribe
  <2> QED BY <2>1, <2>3, RosterUntouched
<1>7. CASE Unsubscribe
  <2>1. Quiet /\ UNCHANGED <<streams, given, roster, session, stack>>
    BY <1>7 DEF Unsubscribe, remote
  <2>2. presence' = presence \/ \E c \in Subscribers : presence' = Without(presence, c)
    BY <1>7 DEF Unsubscribe
  <2>3. presence' = presence \/ (Has(presence', "early") => Has(presence, "early"))
    BY <2>2, PresenceWithout
  <2> QED BY <2>1, <2>3, RosterUntouched
<1>8. CASE Start
  <2>1. /\ Quiet /\ session = "down" /\ session' # "down" /\ UNCHANGED <<presence, stack, roster>>
        /\ streams' = [s \in Streams |-> "none"]
    BY <1>8 DEF Start, lists
  <2>2. Here' = {} /\ roster["early"] = {} /\ ~Within("presence")'
    BY <2>1 DEF Here, RosterInv, Within, Quiet
  <2> QED BY <2>1, <2>2 DEF RosterInv
<1>9. CASE Opened \/ Subscribed \/ Reconnect
  <2>1. /\ Quiet /\ session # "down" /\ session' # "down"
        /\ UNCHANGED <<streams, given, roster, stack>>
    BY <1>9 DEF Opened, Subscribed, Reconnect, remote
  <2>2. presence' = presence \/ (session = "open" /\ presence' = Append(presence, "wait"))
    BY <1>9 DEF Opened, Subscribed, Reconnect, lists
  <2>3. presence' = presence \/ (Has(presence', "early") => Has(presence, "early"))
    <3>1. CASE session = "open" /\ presence' = Append(presence, "wait")
      <4>1. ~Has(presence, "wait") /\ "wait" \in Present
        BY <3>1 DEF ListInv, Present
      <4>2. \A d : Has(presence', d) <=> Has(presence, d) \/ d = "wait"
        BY <3>1, <4>1, AppendedIs DEF ListInv
      <4> QED BY <4>2
    <3> QED BY <2>2, <3>1
  <2> QED BY <2>1, <2>3, RosterUntouched
<1>10. CASE Stop \/ SendDataMessage
  <2>1. /\ session' = "down" /\ UNCHANGED <<streams, given>>
        /\ roster' = [c \in Subscribers |-> {}]
    BY <1>10 DEF Stop, SendDataMessage, Ending, remote
  <2> QED BY <2>1 DEF RosterInv, Subscribers
<1>11. CASE UNCHANGED vars
  <2>1. UNCHANGED <<streams, given, roster, session, presence, stack>>
    BY <1>11 DEF vars, remote, lists
  <2> QED BY <2>1, RosterUntouched
<1> QED BY <1>1, <1>2, <1>3, <1>4, <1>5, <1>6, <1>7, <1>8, <1>9, <1>10, <1>11 DEF Next

-----------------------------------------------------------------------------
(* The lists and their turns, all together.                                 *)

TurnInv == muted \in BOOLEAN /\ StreamTypes /\ ListInv /\ StackInv /\ ServerInv /\ RosterInv

LEMMA InitialTurns == Init => TurnInv
<1> SUFFICES ASSUME Init PROVE TurnInv
  OBVIOUS
<1>1. presence = <<>> /\ mutes = <<>> /\ stack = <<>> /\ session = "down" /\ muted = FALSE
  BY DEF Init
<1>2. \A c : ~Has(<<>>, c)
  BY DEF Has
<1>3. ListInv
  BY <1>1, <1>2 DEF ListInv, Sessions, Once, Before
<1>4. StackInv
  BY <1>1 DEF StackInv
<1>5. ServerInv
  BY <1>1 DEF ServerInv, Within
<1>6. StreamTypes
  BY DEF Init, StreamTypes
<1>7. RosterInv
  BY <1>1 DEF Init, RosterInv, Subscribers
<1> QED BY <1>1, <1>3, <1>4, <1>5, <1>6, <1>7 DEF TurnInv

LEMMA TurnInvariant == Spec => []TurnInv
<1>1. AudioInv /\ AudioInv' /\ TurnInv /\ [Next]_vars => TurnInv'
  <2> SUFFICES ASSUME AudioInv, AudioInv', TurnInv, [Next]_vars PROVE TurnInv'
    OBVIOUS
  <2>1. muted' \in BOOLEAN
    BY DEF AudioInv, AudioTypes
  <2> QED BY <2>1, StepKeepsStreamTypes, StepKeepsLists, StepKeepsStack, StepKeepsServer,
             StepKeepsRoster DEF TurnInv
<1> QED BY InitialTurns, AudioInvariant, <1>1, PTL DEF Spec

\* Once the session has subscribed, the server knows the mute state after every
\* turn in which no callback mutes or unmutes again: it was told by the callback
\* of ListenForVolumeIndicatorsTask, or by the frame that subscribes when the
\* connection had been away.
THEOREM ServerKnows == Spec => []ServerKnowsMute
<1>1. TurnInv => ServerKnowsMute
  BY DEF TurnInv, ServerKnowsMute, ServerInv, ToBeSent, Within, Quiet
<1> QED BY <1>1, TurnInvariant, PTL

\* A subscriber that came before the session started knows after every turn who
\* is present, whatever streams the server gives out and takes away, and although
\* WaitForAttendeePresenceTask leaves the list while it is gone through: that
\* task stands behind it in the list.
THEOREM EarlySubscriberIsUpToDate == Spec => []EarlySubscriberKnowsRoster
<1>1. TurnInv => EarlySubscriberKnowsRoster
  <2>1. ASSUME TurnInv, Quiet, session \in {"subscribed", "up"}, Contains(presence, "early")
        PROVE  roster["early"] = Here
    <3>1. PICK i \in DOMAIN presence : presence[i] = "early"
      BY <2>1, ContainsIs DEF TurnInv, ListInv, Has
    <3> QED BY <2>1, <3>1 DEF TurnInv, RosterInv, Within, Quiet
  <2> QED BY <2>1 DEF EarlySubscriberKnowsRoster, Here
<1> QED BY <1>1, TurnInvariant, PTL

=============================================================================
