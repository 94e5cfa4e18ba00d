---------------------------- MODULE DevicesProofs ----------------------------
(***************************************************************************)
(* Proofs about what is behind the outputs, for any callers, volumes,      *)
(* requests, clocks and bounds: the listeners hear what is so, the device  *)
(* has the volume that the plugin says it has, a source that is free is    *)
(* said to be free once, and a stream plays what is due.  The parts never  *)
(* run together, so each keeps its own invariant while the others rest.    *)
(***************************************************************************)
EXTENDS MCDevices, ListLemmas

-----------------------------------------------------------------------------
(***************************************************************************)
(* What the volume plugins share                                           *)
(***************************************************************************)

States == [level : Volumes, muted : BOOLEAN]

VolumeTypes ==
    /\ level \in Volumes /\ muted \in BOOLEAN
    /\ device \in States /\ told \in States
    /\ say \in [Threads -> States \union {Nothing}]
    /\ raced \in BOOLEAN

\* As long as no two threads changed the state at a time, one has something to tell at most,
\* and it is what the state is.
OneSpeaks ==
    ~raced => /\ \A t, u \in Threads : say[t] # Nothing /\ say[u] # Nothing => t = u
              /\ \A t \in Threads : say[t] # Nothing => say[t] = State

HearInv == OneSpeaks /\ ToldIsCurrent

\* A snapshot is never what says that there is none.
LEMMA SnapshotIsSome ==
    ASSUME NEW s \in States
    PROVE  s # Nothing /\ s.level \in Volumes /\ s.muted \in BOOLEAN
BY DEF States, Nothing, Volumes

\* A thread that has changed the state, and had the plugin for itself, is the one to tell.
LEMMA ChangeSpeaks ==
    ASSUME VolumeTypes, NEW t \in Threads, NEW l \in Volumes, NEW m \in BOOLEAN,
           Change(t, l, m), raced' \in BOOLEAN, ~raced' => ~raced /\ Quiet,
           told' \in States, device' \in States
    PROVE  VolumeTypes' /\ OneSpeaks' /\ ~Quiet'
<1>1. Snapshot(l, m) \in States /\ level' = l /\ muted' = m /\ State' = Snapshot(l, m)
  BY DEF Change, Snapshot, State, States
<1>2. say' = [say EXCEPT ![t] = Snapshot(l, m)]
  BY DEF Change
<1>3. Snapshot(l, m) # Nothing
  BY <1>1, SnapshotIsSome
<1>4. VolumeTypes'
  BY <1>1, <1>2 DEF VolumeTypes
<1> DEFINE s == Snapshot(l, m)
<1>5. say'[t] = s /\ \A u \in Threads \ {t} : say'[u] = say[u]
  BY <1>2 DEF VolumeTypes
<1> HIDE DEF s
<1>6. ASSUME ~raced' PROVE \A u \in Threads \ {t} : say'[u] = Nothing
  BY <1>5, <1>6 DEF Quiet
<1>7. OneSpeaks'
  BY <1>1, <1>5, <1>6 DEF OneSpeaks, s
<1>8. ~Quiet'
  BY <1>3, <1>5 DEF Quiet, s
<1> QED  BY <1>4, <1>7, <1>8

\* So the listeners are not behind: they will be told.
LEMMA ChangeHears ==
    ASSUME VolumeTypes, HearInv, NEW t \in Threads, NEW l \in Volumes, NEW m \in BOOLEAN,
           Change(t, l, m), raced' \in BOOLEAN, ~raced' => ~raced /\ Quiet,
           told' = told, device' \in States
    PROVE  VolumeTypes' /\ HearInv'
<1>1. told' \in States
  BY DEF VolumeTypes
<1> QED  BY <1>1, ChangeSpeaks DEF HearInv, ToldIsCurrent

\* A step that leaves the state and the snapshots alone changes nothing of it.
LEMMA KeepHears ==
    ASSUME VolumeTypes, HearInv, Keep, raced' \in BOOLEAN, ~raced' => ~raced,
           told' = told, device' \in States
    PROVE  VolumeTypes' /\ HearInv'
BY DEF VolumeTypes, HearInv, Keep, OneSpeaks, ToldIsCurrent, Quiet, State

\* What is told last is what the state is.
LEMMA TellSpeaks ==
    ASSUME VolumeTypes, OneSpeaks, NEW t \in Threads, Tell(t)
    PROVE  /\ VolumeTypes' /\ OneSpeaks' /\ State' = State /\ ~Quiet
           /\ ~raced' => told' = State'
<1>1. /\ say[t] # Nothing /\ told' = say[t] /\ say' = [say EXCEPT ![t] = Nothing]
      /\ UNCHANGED <<level, muted, device, raced, sets, turns>>
  BY DEF Tell
<1>2. say[t] \in States
  BY <1>1 DEF VolumeTypes
<1>3. VolumeTypes'
  BY <1>1, <1>2 DEF VolumeTypes
<1>4. say'[t] = Nothing /\ \A u \in Threads \ {t} : say'[u] = say[u]
  BY <1>1 DEF VolumeTypes
<1>5. State' = State
  BY <1>1 DEF State
<1>6. OneSpeaks'
  BY <1>1, <1>4, <1>5 DEF OneSpeaks
<1>7. ~Quiet /\ (~raced' => told' = State')
  BY <1>1, <1>5 DEF OneSpeaks, Quiet
<1> QED  BY <1>3, <1>5, <1>6, <1>7

\* The last one that had something to tell has told it.
LEMMA TellHears ==
    ASSUME VolumeTypes, HearInv, NEW t \in Threads, Tell(t)
    PROVE  VolumeTypes' /\ HearInv'
BY TellSpeaks DEF HearInv, ToldIsCurrent

\* A call of a plugin whose mixer is not asked: the state changes, or the call is not one.
LEMMA CallRaces ==
    ASSUME VolumeTypes, NEW t, NEW busy \in BOOLEAN, Called(t, busy)
    PROVE  raced' \in BOOLEAN /\ (~raced' => ~raced /\ Quiet /\ ~busy)
BY DEF Called, VolumeTypes

-----------------------------------------------------------------------------
(***************************************************************************)
(* Software volume, and the device on a serial line                        *)
(***************************************************************************)

\* The gain is applied when a period is; the listeners are told by the callers.
LEMMA SoftKeeps ==
    ASSUME VolumeTypes, HearInv, SoftNext
    PROVE  VolumeTypes' /\ HearInv'
<1>1. ASSUME NEW t \in Callers, NEW l \in Volumes, NEW m \in BOOLEAN, SoftSet(t, l, m)
      PROVE  VolumeTypes' /\ HearInv'
  <2>1. t \in Threads /\ Called(t, FALSE) /\ told' = told /\ device' \in States
    BY <1>1 DEF SoftSet, Threads, VolumeTypes
  <2>2. raced' \in BOOLEAN /\ (~raced' => ~raced /\ Quiet)
    BY <2>1, CallRaces
  <2>3. Change(t, l, m) \/ Keep
    BY <1>1 DEF SoftSet
  <2> QED  BY <2>1, <2>2, <2>3, ChangeHears, KeepHears
<1>2. CASE SoftProcess
  <2>1. Keep /\ told' = told /\ raced' = raced /\ device' \in States
    BY <1>2 DEF SoftProcess, Keep, State, States, VolumeTypes
  <2> QED  BY <2>1, KeepHears DEF VolumeTypes
<1>3. level \in Volumes /\ (~muted) \in BOOLEAN
  BY DEF VolumeTypes
<1>4. muted \in BOOLEAN /\ \A l \in Levels : l \in Volumes
  BY LevelsAssumption DEF VolumeTypes
<1> QED  BY <1>1, <1>2, <1>3, <1>4, TellHears DEF SoftNext

SentBytes ==
    [is : {"volume"}, to : Volumes] \union [is : {"mute"}, to : BOOLEAN]
        \union [is : {"other"}, to : {0}]

SerialTypes == line \in Seq(SentBytes) /\ skipped \in BOOLEAN

\* Behind i there is no byte of the kind k.
NoneBehind(k, i) == \A j \in i + 1..Len(line) : line[j].is # k

\* The device has what the last volume and the last code for mute on the line say, or what the
\* plugin has.
LastSays ==
    ~raced /\ ~skipped =>
        /\ NoneBehind("volume", 0) => device.level = level
        /\ NoneBehind("mute", 0) => device.muted = muted
        /\ \A i \in 1..Len(line) :
              /\ line[i].is = "volume" /\ NoneBehind("volume", i) => device.level = line[i].to
              /\ line[i].is = "mute" /\ NoneBehind("mute", i) => device.muted = line[i].to

SerialInv == SerialTypes /\ LastSays

\* What a byte is, and says.
LEMMA SentBytesAre ==
    ASSUME NEW b \in SentBytes
    PROVE  /\ b.is \in {"volume", "mute", "other"}
           /\ b.is = "volume" => b.to \in Volumes
           /\ b.is = "mute" => b.to \in BOOLEAN
BY DEF SentBytes

\* A byte behind the others: it is the last one of its kind, and of the others nothing changes.
LEMMA ByteArrives ==
    ASSUME SerialTypes, NEW b \in SentBytes, line' = Append(line, b), skipped' = skipped
    PROVE  /\ SerialTypes' /\ Len(line') = Len(line) + 1 /\ Len(line) \in Nat
           /\ line'[Len(line) + 1] = b /\ \A i \in 1..Len(line) : line'[i] = line[i]
<1>1. line \in Seq(SentBytes) /\ skipped \in BOOLEAN
  BY DEF SerialTypes
<1> QED  BY <1>1, AppendProperties, LenProperties DEF SerialTypes

\* The device sends a byte: a volume, a code for mute, or another one.
LEMMA DeviceSends ==
    ASSUME VolumeTypes, HearInv, SerialInv, NEW b \in SentBytes,
           line' = Append(line, b), UNCHANGED <<level, muted, say, told, sets, skipped>>,
           device' \in States, raced' \in BOOLEAN, ~raced' => ~raced,
           device'.level = IF b.is = "volume" THEN b.to ELSE device.level,
           device'.muted = IF b.is = "mute" THEN b.to ELSE device.muted
    PROVE  VolumeTypes' /\ HearInv' /\ SerialInv'
<1>1. VolumeTypes' /\ HearInv'
  <2>1. Keep
    BY DEF Keep
  <2> QED  BY <2>1, KeepHears
<1>2. /\ SerialTypes' /\ Len(line') = Len(line) + 1 /\ Len(line) \in Nat
      /\ line'[Len(line) + 1] = b /\ \A i \in 1..Len(line) : line'[i] = line[i]
  <2>1. skipped' = skipped /\ SerialTypes
    BY DEF SerialInv
  <2> QED  BY <2>1, ByteArrives
<1>3. ASSUME NEW k, NEW i \in 0..Len(line), NoneBehind(k, i)' PROVE b.is # k /\ NoneBehind(k, i)
  <2>1. \A j \in i + 1..Len(line) + 1 : line'[j].is # k
    BY <1>2, <1>3 DEF NoneBehind
  <2>2. Len(line) + 1 \in i + 1..Len(line) + 1
    BY <1>2
  <2>3. \A j \in i + 1..Len(line) : j \in i + 1..Len(line) + 1 /\ j \in 1..Len(line)
    BY <1>2
  <2> QED  BY <1>2, <2>1, <2>2, <2>3 DEF NoneBehind
<1>4. ASSUME ~raced', ~skipped' PROVE LastSays'
  <2>1. /\ NoneBehind("volume", 0) => device.level = level
        /\ NoneBehind("mute", 0) => device.muted = muted
        /\ \A i \in 1..Len(line) :
              /\ line[i].is = "volume" /\ NoneBehind("volume", i) => device.level = line[i].to
              /\ line[i].is = "mute" /\ NoneBehind("mute", i) => device.muted = line[i].to
    BY <1>4 DEF SerialInv, LastSays
  <2>2. 0 \in 0..Len(line)
    BY <1>2
  <2>3. NoneBehind("volume", 0)' => device'.level = level'
    BY <1>3, <2>1, <2>2
  <2>4. NoneBehind("mute", 0)' => device'.muted = muted'
    BY <1>3, <2>1, <2>2
  <2>5. ASSUME NEW i \in 1..Len(line')
        PROVE  /\ line'[i].is = "volume" /\ NoneBehind("volume", i)' => device'.level = line'[i].to
               /\ line'[i].is = "mute" /\ NoneBehind("mute", i)' => device'.muted = line'[i].to
    <3>1. i = Len(line) + 1 \/ i \in 1..Len(line)
      BY <1>2
    <3>2. CASE i = Len(line) + 1
      BY <1>2, <3>2
    <3>3. CASE i \in 1..Len(line)
      <4>1. i \in 0..Len(line) /\ line'[i] = line[i]
        BY <1>2, <3>3
      <4> QED  BY <1>3, <2>1, <3>3, <4>1
    <3> QED  BY <3>1, <3>2, <3>3
  <2> QED  BY <2>3, <2>4, <2>5 DEF LastSays
<1> QED  BY <1>1, <1>2, <1>4 DEF SerialInv, LastSays

\* What a read takes from the line, and what it leaves.
LEMMA ReadBytes ==
    ASSUME NEW bytes \in Seq(SentBytes), NEW n \in 1..Len(bytes)
    PROVE  /\ Used(SubSeq(bytes, 1, n)) = bytes[n]
           /\ SubSeq(bytes, n + 1, Len(bytes)) \in Seq(SentBytes)
           /\ Len(SubSeq(bytes, n + 1, Len(bytes))) = Len(bytes) - n
           /\ \A j \in 1..Len(bytes) - n : SubSeq(bytes, n + 1, Len(bytes))[j] = bytes[n + j]
<1>1. Len(bytes) \in Nat /\ \A j \in 1..Len(bytes) : bytes[j] \in SentBytes
  BY LenProperties, ElementOfSeq
<1>2. Len(SubSeq(bytes, 1, n)) = n /\ SubSeq(bytes, 1, n)[n] = bytes[n]
  BY <1>1, SubSeqProperties
<1>3. Used(SubSeq(bytes, 1, n)) = bytes[n]
  BY <1>2 DEF Used, Last
<1>4. \A j \in n + 1..Len(bytes) : bytes[j] \in SentBytes
  BY <1>1
<1>5. /\ SubSeq(bytes, n + 1, Len(bytes)) \in Seq(SentBytes)
      /\ Len(SubSeq(bytes, n + 1, Len(bytes))) = IF n + 1 <= Len(bytes) THEN Len(bytes) - (n + 1) + 1 ELSE 0
      /\ \A j \in 1..(Len(bytes) - (n + 1) + 1) :
            SubSeq(bytes, n + 1, Len(bytes))[j] = bytes[(n + 1) + j - 1]
  BY <1>1, <1>4, SubSeqProperties
<1> QED  BY <1>1, <1>3, <1>5

\* A caller sets the volume or the mute, and has the device set what has changed.
LEMMA SerialSetKeeps ==
    ASSUME VolumeTypes, HearInv, SerialInv, NEW t \in Callers, NEW l \in Volumes, NEW m \in BOOLEAN,
           l = level \/ m = muted, SerialSet(t, l, m)
    PROVE  VolumeTypes' /\ HearInv' /\ SerialInv'
<1>1. /\ t \in Threads /\ Called(t, line # <<>>) /\ told' = told
      /\ line' = line /\ skipped' = skipped
  BY DEF SerialSet, Threads, serialVars
<1>2. raced' \in BOOLEAN /\ (~raced' => ~raced /\ Quiet /\ line = <<>>)
  BY <1>1, CallRaces
<1>3. CASE Keep /\ UNCHANGED device
  <2>1. VolumeTypes' /\ HearInv'
    BY <1>1, <1>2, <1>3, KeepHears DEF VolumeTypes
  <2>2. SerialInv'
    BY <1>1, <1>2, <1>3 DEF Keep, SerialInv, SerialTypes, LastSays, NoneBehind
  <2> QED  BY <2>1, <2>2
<1>4. CASE /\ Change(t, l, m)
           /\ device' = IF l # level THEN [device EXCEPT !.level = l] ELSE [device EXCEPT !.muted = m]
  <2>1. /\ device' \in States /\ level' = l /\ muted' = m
        /\ device'.level = IF l # level THEN l ELSE device.level
        /\ device'.muted = IF l # level THEN device.muted ELSE m
    BY <1>4 DEF VolumeTypes, States, Change
  <2>2. VolumeTypes' /\ HearInv'
    BY <1>1, <1>2, <1>4, <2>1, ChangeHears
  <2>3. ASSUME ~raced', ~skipped' PROVE LastSays'
    <3>1. line = <<>> /\ Len(line) = 0 /\ line' = line /\ ~raced /\ ~skipped
      BY <1>1, <1>2, <2>3
    <3>2. NoneBehind("volume", 0) /\ NoneBehind("mute", 0)
      BY <3>1 DEF NoneBehind
    <3>3. device.level = level /\ device.muted = muted
      BY <3>1, <3>2 DEF SerialInv, LastSays
    <3>4. device'.level = level' /\ device'.muted = muted'
      BY <2>1, <3>3
    <3> QED  BY <3>1, <3>4 DEF LastSays
  <2> QED  BY <1>1, <2>2, <2>3 DEF SerialInv, SerialTypes, LastSays
<1> QED  BY <1>3, <1>4 DEF SerialSet

\* What was read is used but for what was skipped, and what is left says what it said.
LEMMA SerialReadKeeps ==
    ASSUME VolumeTypes, HearInv, SerialInv, SerialRead
    PROVE  VolumeTypes' /\ HearInv' /\ SerialInv'
<1>1. PICK n \in 1..Len(line) :
         LET byte == Used(SubSeq(line, 1, n)) IN
         /\ n <= ReadSize
         /\ Reports(IF byte.is = "volume" THEN byte.to ELSE level,
                    IF byte.is = "mute" THEN byte.to ELSE muted)
         /\ line' = SubSeq(line, n + 1, Len(line))
         /\ skipped' = (skipped \/ \E i \in 1..n - 1 : line[i].is \notin {byte.is, "other"})
  BY DEF SerialRead
<1>2. say["device"] = Nothing /\ UNCHANGED <<device, told, sets, turns>>
  BY DEF SerialRead
<1>3. line \in Seq(SentBytes) /\ Len(line) \in Nat /\ n \in Nat /\ skipped \in BOOLEAN
  BY <1>1, LenProperties DEF SerialInv, SerialTypes
<1>4. PICK b \in SentBytes : b = line[n]
  BY <1>1, <1>3, ElementOfSeq
<1>5. /\ Used(SubSeq(line, 1, n)) = b
      /\ line' = SubSeq(line, n + 1, Len(line)) /\ line' \in Seq(SentBytes)
      /\ Len(line') = Len(line) - n /\ \A j \in 1..Len(line) - n : line'[j] = line[n + j]
  BY <1>1, <1>3, <1>4, ReadBytes
<1> DEFINE l == IF b.is = "volume" THEN b.to ELSE level
           m == IF b.is = "mute" THEN b.to ELSE muted
<1>6. Reports(l, m) /\ skipped' = (skipped \/ \E i \in 1..n - 1 : line[i].is \notin {b.is, "other"})
  BY <1>1, <1>5
<1>7. /\ b.is \in {"volume", "mute", "other"}
      /\ (b.is = "volume" => b.to \in Volumes) /\ (b.is = "mute" => b.to \in BOOLEAN)
  BY SentBytesAre
<1>8. l \in Volumes
  BY <1>7 DEF VolumeTypes
<1>9. m \in BOOLEAN
  BY <1>7 DEF VolumeTypes
<1>10. VolumeTypes' /\ HearInv' /\ level' = l /\ muted' = m /\ (~raced' => ~raced)
  <2> HIDE DEF l, m
  <2>1. Change("device", l, m) /\ raced' = (raced \/ ~Quiet) /\ "device" \in Threads
    BY <1>6 DEF Reports, Threads
  <2>2. raced' \in BOOLEAN /\ (~raced' => ~raced /\ Quiet) /\ device' \in States /\ told' = told
    BY <1>2, <2>1 DEF VolumeTypes
  <2>3. VolumeTypes' /\ HearInv'
    BY <1>8, <1>9, <2>1, <2>2, ChangeHears
  <2> QED  BY <2>1, <2>2, <2>3 DEF Change
<1>11. skipped' \in BOOLEAN
  BY <1>3, <1>6
<1>12. ASSUME ~raced', ~skipped' PROVE LastSays'
  <2>1. /\ NoneBehind("volume", 0) => device.level = level
        /\ NoneBehind("mute", 0) => device.muted = muted
        /\ \A i \in 1..Len(line) :
              /\ line[i].is = "volume" /\ NoneBehind("volume", i) => device.level = line[i].to
              /\ line[i].is = "mute" /\ NoneBehind("mute", i) => device.muted = line[i].to
    BY <1>6, <1>10, <1>12 DEF SerialInv, LastSays
  <2>2. \A i \in 1..n - 1 : line[i].is \in {b.is, "other"}
    BY <1>6, <1>12
  <2>3. ASSUME NEW k, NEW i \in 0..Len(line'), NoneBehind(k, i)' PROVE NoneBehind(k, n + i)
    <3>1. \A j \in i + 1..Len(line) - n : line[n + j].is # k
      BY <1>1, <1>3, <1>5, <2>3 DEF NoneBehind
    <3>2. \A j \in (n + i) + 1..Len(line) : j - n \in i + 1..Len(line) - n /\ n + (j - n) = j
      BY <1>1, <1>3, <1>5
    <3> QED  BY <3>1, <3>2 DEF NoneBehind
  <2>4. ASSUME NEW k \in {"volume", "mute"}, NoneBehind(k, n), b.is # k PROVE NoneBehind(k, 0)
    <3>1. ASSUME NEW j \in 0 + 1..Len(line) PROVE line[j].is # k
      <4>1. j \in 1..n - 1 \/ j = n \/ j \in n + 1..Len(line)
        BY <1>1, <1>3
      <4> QED  BY <1>4, <2>2, <2>4, <4>1 DEF NoneBehind
    <3> QED  BY <3>1 DEF NoneBehind
  <2>5. 0 \in 0..Len(line') /\ n + 0 = n
    BY <1>1, <1>3, <1>5
  <2>6. NoneBehind("volume", 0)' => device'.level = level'
    BY <1>1, <1>2, <1>4, <1>10, <2>1, <2>3, <2>4, <2>5
  <2>7. NoneBehind("mute", 0)' => device'.muted = muted'
    BY <1>1, <1>2, <1>4, <1>10, <2>1, <2>3, <2>4, <2>5
  <2>8. ASSUME NEW i \in 1..Len(line')
        PROVE  /\ line'[i].is = "volume" /\ NoneBehind("volume", i)' => device'.level = line'[i].to
               /\ line'[i].is = "mute" /\ NoneBehind("mute", i)' => device'.muted = line'[i].to
    <3>1. i \in 0..Len(line') /\ n + i \in 1..Len(line) /\ line'[i] = line[n + i]
      BY <1>1, <1>3, <1>5
    <3> QED  BY <1>2, <2>1, <2>3, <3>1
  <2> QED  BY <2>6, <2>7, <2>8 DEF LastSays
<1> QED  BY <1>5, <1>10, <1>11, <1>12 DEF SerialInv, SerialTypes, LastSays

\* Every step of the plugin for the serial line.
LEMMA SerialKeeps ==
    ASSUME VolumeTypes, HearInv, SerialInv, SerialNext
    PROVE  VolumeTypes' /\ HearInv' /\ SerialInv'
<1>1. level \in Volumes /\ (~muted) \in BOOLEAN /\ (~device.muted) \in BOOLEAN
  BY DEF VolumeTypes
<1>2. muted \in BOOLEAN /\ (\A l \in Levels : l \in Volumes) /\ raced \in BOOLEAN
  BY LevelsAssumption DEF VolumeTypes
<1>3. ASSUME NEW t \in Callers, NEW l \in Levels, SerialSet(t, l, muted)
      PROVE  VolumeTypes' /\ HearInv' /\ SerialInv'
  BY <1>2, <1>3, SerialSetKeeps
<1>4. ASSUME NEW t \in Callers, SerialSet(t, level, ~muted)
      PROVE  VolumeTypes' /\ HearInv' /\ SerialInv'
  BY <1>1, <1>4, SerialSetKeeps
<1>5. CASE /\ (\E l \in Levels : SendsVolume(l)) \/ SendsMute(~device.muted) \/ SendsOther
           /\ UNCHANGED <<level, muted, say, told, sets, skipped>>
  <2>1. ASSUME NEW l \in Volumes, NEW m \in BOOLEAN, Turned(l, m, FALSE)
        PROVE  /\ device' \in States /\ device'.level = l /\ device'.muted = m
               /\ raced' \in BOOLEAN /\ (~raced' => ~raced)
    BY <1>2, <2>1 DEF Turned, States
  <2>2. device.level \in Volumes /\ device.muted \in BOOLEAN /\ device \in States
    BY DEF VolumeTypes, States
  <2>3. CASE \E l \in Levels : SendsVolume(l)
    <3>1. PICK l \in Levels : SendsVolume(l)
      BY <2>3
    <3> DEFINE b == [is |-> "volume", to |-> l]
    <3>2. b \in SentBytes /\ b.is = "volume" /\ b.to = l
      BY <1>2 DEF SentBytes
    <3>3. Turned(l, device.muted, FALSE) /\ line' = Append(line, b)
      BY <3>1 DEF SendsVolume
    <3> HIDE DEF b
    <3> QED  BY <1>2, <1>5, <2>1, <2>2, <3>2, <3>3, DeviceSends
  <2>4. CASE SendsMute(~device.muted)
    <3> DEFINE m == ~device.muted
               b == [is |-> "mute", to |-> m]
    <3>1. m \in BOOLEAN
      BY <1>1
    <3>2. Turned(device.level, m, FALSE) /\ line' = Append(line, b)
      BY <2>4 DEF SendsMute
    <3> HIDE DEF m
    <3>3. b \in SentBytes /\ b.is = "mute" /\ b.to = m
      BY <3>1 DEF SentBytes
    <3> HIDE DEF b
    <3> QED  BY <1>2, <1>5, <2>1, <2>2, <3>1, <3>2, <3>3, DeviceSends
  <2>5. CASE SendsOther
    <3> DEFINE b == [is |-> "other", to |-> 0]
    <3>1. b \in SentBytes /\ b.is = "other"
      BY DEF SentBytes
    <3>2. line' = Append(line, b) /\ device' = device /\ raced' = raced
      BY <2>5 DEF SendsOther
    <3> HIDE DEF b
    <3> QED  BY <1>2, <1>5, <2>2, <3>1, <3>2, DeviceSends
  <2> QED  BY <1>5, <2>3, <2>4, <2>5
<1>6. ASSUME NEW t \in Threads, Tell(t), UNCHANGED serialVars
      PROVE  VolumeTypes' /\ HearInv' /\ SerialInv'
  <2>1. VolumeTypes' /\ HearInv'
    BY <1>6, TellHears
  <2>2. UNCHANGED <<level, muted, device, raced, line, skipped>>
    BY <1>6 DEF Tell, serialVars
  <2>3. SerialInv'
    BY <2>2 DEF SerialInv, SerialTypes, LastSays, NoneBehind
  <2> QED  BY <2>1, <2>3
<1> QED  BY <1>3, <1>4, <1>5, <1>6, SerialReadKeeps DEF SerialNext

-----------------------------------------------------------------------------
(***************************************************************************)
(* The volume of a CoreAudio device                                        *)
(***************************************************************************)

\* What was made of the volume is in memory and in the file, also while calls and news overlap,
\* unless something failed or the device is muted; it is what the device has, unless there is
\* news.
CoreInv ==
    /\ actual \in Volumes /\ news \in BOOLEAN /\ apart \in BOOLEAN
    /\ ~news /\ ~blind => device.muted = muted
    /\ ~news /\ ~apart => actual = device.level
    /\ ~apart => /\ actual \in {Rounded(level), level}
                 /\ cache.level = level /\ cache.actual = actual
    /\ cache \in [level : Volumes, actual : Volumes, muted : BOOLEAN]

\* A caller sets the volume or the mute: the device rounds it, is muted without it, or refuses.
LEMMA CoreSetKeeps ==
    ASSUME VolumeTypes, HearInv, CoreInv, NEW t \in Callers, NEW l \in Volumes,
           NEW m \in BOOLEAN, NEW fails, CoreSet(t, l, m, fails)
    PROVE  VolumeTypes' /\ HearInv' /\ CoreInv'
<1>1. t \in Threads /\ Called(t, news) /\ told' = told
  BY DEF CoreSet, Threads
<1>2. raced' \in BOOLEAN /\ (~raced' => ~raced /\ Quiet)
  BY <1>1, CallRaces DEF CoreInv
<1>3. CASE Keep /\ UNCHANGED <<device, actual, cache, news, apart, blind>>
  <2>1. VolumeTypes' /\ HearInv'
    BY <1>1, <1>2, <1>3, KeepHears DEF VolumeTypes
  <2>2. CoreInv'
    BY <1>3 DEF Keep, CoreInv
  <2> QED  BY <2>1, <2>2
<1> DEFINE dl == IF m \/ "setVolume" \in fails THEN device.level ELSE Rounded(l)
           dm == IF "setMute" \in fails THEN device.muted ELSE m
           now == IF "getMute" \in fails THEN m ELSE device'.muted
           aside == m \/ fails \intersect {"setVolume", "getVolume"} # {}
<1>4. CASE /\ device' = [level |-> dl, muted |-> dm]
           /\ Change(t, l, now)
           /\ actual' = IF aside THEN actual ELSE ActualOf(l)
           /\ cache' = IF m \/ "save" \in fails THEN cache
                       ELSE [level |-> l, actual |-> actual', muted |-> muted']
           /\ news' = (news \/ device' # device)
           /\ apart' = (m \/ fails \intersect {"setVolume", "getVolume", "save"} # {})
           /\ blind' = ({"setMute", "getMute"} \subseteq fails)
  <2>1. dl \in Volumes /\ dm \in BOOLEAN /\ Rounded(l) \in Volumes
    BY RoundedAssumption DEF VolumeTypes, States
  <2>2. device'.level = dl /\ device'.muted = dm /\ device' \in States
    BY <1>4, <2>1 DEF States
  <2>3. now \in BOOLEAN /\ level' = l /\ muted' = now
    BY <1>4, <2>1, <2>2 DEF Change
  <2>4. VolumeTypes' /\ HearInv'
    BY <1>1, <1>2, <1>4, <2>2, <2>3, ChangeHears
  <2>5. actual' \in Volumes
    BY <1>4, <2>1 DEF CoreInv, ActualOf
  <2>6. /\ cache' \in [level : Volumes, actual : Volumes, muted : BOOLEAN]
        /\ ~m /\ "save" \notin fails => cache'.level = l /\ cache'.actual = actual'
    BY <1>4, <2>3, <2>5 DEF CoreInv
  <2>7. ASSUME ~blind' PROVE device'.muted = muted'
    <3>1. CASE "getMute" \in fails
      <4>1. "setMute" \notin fails
        BY <1>4, <2>7, <3>1
      <4> QED  BY <2>2, <2>3, <3>1, <4>1
    <3>2. CASE "getMute" \notin fails
      BY <2>3, <3>2
    <3> QED  BY <3>1, <3>2
  <2>8. ASSUME ~apart'
        PROVE  /\ actual' = device'.level /\ actual' = Rounded(level')
               /\ cache'.level = level' /\ cache'.actual = actual'
    <3>1. ~m /\ "setVolume" \notin fails /\ "getVolume" \notin fails /\ "save" \notin fails
      BY <1>4, <2>8
    <3>2. ~aside
      BY <3>1
    <3>3. actual' = Rounded(l) /\ dl = Rounded(l)
      BY <1>4, <3>1, <3>2 DEF ActualOf
    <3> QED  BY <2>2, <2>3, <2>6, <3>1, <3>3
  <2>9. news' \in BOOLEAN /\ apart' \in BOOLEAN
    BY <1>4 DEF CoreInv
  <2> HIDE DEF dl, dm, now, aside
  <2> QED  BY <2>4, <2>5, <2>6, <2>7, <2>8, <2>9 DEF CoreInv
<1> QED  BY <1>3, <1>4 DEF CoreSet

\* What is read: the device's volume unless it is the one that was made, and the device's mute.
LEMMA LoadedIs ==
    ASSUME VolumeTypes, NEW was \in [level : Volumes, actual : Int, muted : BOOLEAN], NEW fails,
           NEW now, now = Loaded(was, fails)
    PROVE  /\ now \in [level : Volumes, actual : Int, muted : BOOLEAN]
           /\ "getVolume" \notin fails => now.actual = device.level
           /\ "getVolume" \notin fails /\ device.level # was.actual => now.level = device.level /\ now # was
           /\ device.level = was.actual => now.level = was.level /\ now.actual = was.actual
           /\ "getVolume" \in fails => now.actual = was.actual
           /\ "getMute" \notin fails => now.muted = device.muted
<1>1. device.level \in Int /\ device.level \in Volumes /\ device.muted \in BOOLEAN
  BY DEF VolumeTypes, States, Volumes
<1> DEFINE other == "getVolume" \notin fails /\ device.level # was.actual
<1>2. now = [level |-> IF other THEN device.level ELSE was.level,
             actual |-> IF other THEN device.level ELSE was.actual,
             muted |-> IF "getMute" \in fails THEN was.muted ELSE device.muted]
  BY DEF Loaded
<1>3. was.level \in Volumes /\ was.actual \in Int /\ was.muted \in BOOLEAN
  OBVIOUS
<1>4. /\ now.level = (IF other THEN device.level ELSE was.level)
      /\ now.actual = (IF other THEN device.level ELSE was.actual)
      /\ "getMute" \notin fails => now.muted = device.muted
  BY <1>2
<1>5. /\ (IF other THEN device.level ELSE was.level) \in Volumes
      /\ (IF other THEN device.level ELSE was.actual) \in Int
      /\ (IF "getMute" \in fails THEN was.muted ELSE device.muted) \in BOOLEAN
  BY <1>1, <1>3
<1>6. now \in [level : Volumes, actual : Int, muted : BOOLEAN]
  BY <1>2, <1>5
<1> QED  BY <1>4, <1>6

\* What the device says is taken over, but for the volume that the plugin made, and for what
\* cannot be read.
LEMMA CoreNewsKeeps ==
    ASSUME VolumeTypes, HearInv, CoreInv, NEW fails, CoreNews(fails)
    PROVE  VolumeTypes' /\ HearInv' /\ CoreInv'
<1>1. PICK now : now = Loaded(Memory, fails)
  OBVIOUS
<1>2. PICK was : was = Memory
  OBVIOUS
<1>3. /\ was \in [level : Volumes, actual : Int, muted : BOOLEAN]
      /\ was.level = level /\ was.actual = actual /\ was.muted = muted
      /\ was = [level |-> level, actual |-> actual, muted |-> muted]
  BY <1>2 DEF Memory, VolumeTypes, CoreInv, Volumes
<1>4. /\ now \in [level : Volumes, actual : Int, muted : BOOLEAN]
      /\ "getVolume" \notin fails => now.actual = device.level
      /\ "getVolume" \notin fails /\ device.level # actual => now.level = device.level /\ now # was
      /\ device.level = actual => now.level = level /\ now.actual = actual
      /\ "getVolume" \in fails => now.actual = actual
      /\ "getMute" \notin fails => now.muted = device.muted
  <2>1. now = Loaded(was, fails)
    BY <1>1, <1>2
  <2>2. /\ now \in [level : Volumes, actual : Int, muted : BOOLEAN]
        /\ "getVolume" \notin fails => now.actual = device.level
        /\ "getVolume" \notin fails /\ device.level # was.actual => now.level = device.level /\ now # was
        /\ device.level = was.actual => now.level = was.level /\ now.actual = was.actual
        /\ "getVolume" \in fails => now.actual = was.actual
        /\ "getMute" \notin fails => now.muted = device.muted
    BY <1>3, <2>1, LoadedIs
  <2> QED  BY <1>3, <2>2
<1>5. /\ news' = FALSE /\ actual' = now.actual /\ device' = device /\ told' = told
      /\ cache' = Saved(now, was, fails)
      /\ apart' = \/ "getVolume" \in fails
                  \/ now # was /\ "save" \in fails
                  \/ apart /\ device.level = actual
      /\ blind' = ("getMute" \in fails)
      /\ IF now = was THEN Keep /\ UNCHANGED raced ELSE Reports(now.level, now.muted)
  BY <1>1, <1>2 DEF CoreNews
<1>6. device \in States /\ device.level \in Volumes /\ device.muted \in BOOLEAN /\ raced \in BOOLEAN
  BY DEF VolumeTypes, States
<1>7. VolumeTypes' /\ HearInv' /\ level' = now.level /\ muted' = now.muted
  <2>1. CASE now = was /\ Keep /\ UNCHANGED raced
    BY <1>3, <1>5, <1>6, <2>1, KeepHears DEF Keep
  <2>2. CASE Reports(now.level, now.muted)
    <3>1. now.level \in Volumes /\ now.muted \in BOOLEAN /\ "device" \in Threads
      BY <1>4 DEF Threads
    <3>2. Change("device", now.level, now.muted) /\ raced' = (raced \/ ~Quiet)
      BY <2>2 DEF Reports
    <3>3. raced' \in BOOLEAN /\ (~raced' => ~raced /\ Quiet)
      BY <1>6, <3>2
    <3>4. level' = now.level /\ muted' = now.muted
      BY <3>2 DEF Change
    <3>5. VolumeTypes' /\ HearInv'
      BY <1>5, <1>6, <3>1, <3>2, <3>3, ChangeHears
    <3> QED  BY <3>4, <3>5
  <2> QED  BY <1>5, <2>1, <2>2
<1>8. actual' \in Volumes
  <2>1. CASE "getVolume" \in fails
    BY <1>4, <1>5, <2>1 DEF CoreInv
  <2>2. CASE "getVolume" \notin fails
    BY <1>4, <1>5, <1>6, <2>2
  <2> QED  BY <2>1, <2>2
<1>9. now \in [level : Volumes, actual : Volumes, muted : BOOLEAN]
  BY <1>4, <1>5, <1>8
<1>10. cache' = cache \/ cache' = now
  BY <1>5 DEF Saved
<1>11. cache' \in [level : Volumes, actual : Volumes, muted : BOOLEAN]
  BY <1>9, <1>10 DEF CoreInv
<1>12. ASSUME ~apart'
       PROVE  /\ actual' = device'.level /\ actual' \in {Rounded(level'), level'}
              /\ cache'.level = level' /\ cache'.actual = actual'
  <2>1. "getVolume" \notin fails /\ (now = was \/ "save" \notin fails)
    BY <1>5, <1>12
  <2>2. actual' = device'.level
    BY <1>4, <1>5, <2>1
  <2>3. CASE device.level # actual
    <3>1. now.level = device.level /\ now # was
      BY <1>4, <2>1, <2>3
    <3>2. cache' = now
      BY <1>5, <2>1, <3>1 DEF Saved
    <3> QED  BY <1>5, <1>7, <2>2, <3>1, <3>2
  <2>4. CASE device.level = actual
    <3>1. ~apart /\ now.level = level /\ now.actual = actual
      BY <1>4, <1>5, <1>12, <2>4 DEF CoreInv
    <3>2. cache.level = level /\ cache.actual = actual /\ actual \in {Rounded(level), level}
      BY <3>1 DEF CoreInv
    <3> QED  BY <1>5, <1>7, <1>10, <2>2, <3>1, <3>2
  <2> QED  BY <2>3, <2>4
<1>13. ~blind' => device'.muted = muted'
  BY <1>4, <1>5, <1>7
<1>14. news' \in BOOLEAN /\ apart' \in BOOLEAN
  <2>1. apart' = TRUE \/ apart' = FALSE
    BY <1>5, Zenon
  <2> QED  BY <1>5, <2>1
<1> QED  BY <1>7, <1>8, <1>11, <1>12, <1>13, <1>14 DEF CoreInv

\* What the device and the file have is the state after a restart, and the listeners have it.
LEMMA CoreRestartKeeps ==
    ASSUME VolumeTypes, HearInv, CoreInv, NEW fails, "getVolume" \notin fails, CoreRestart(fails)
    PROVE  VolumeTypes' /\ HearInv' /\ CoreInv'
<1>1. /\ device.level \in Volumes /\ device.muted \in BOOLEAN
      /\ cache \in [level : Volumes, actual : Volumes, muted : BOOLEAN]
  BY DEF VolumeTypes, States, CoreInv
<1>2. PICK was : was = Cached(fails)
  OBVIOUS
<1>3. PICK now : now = Loaded(was, fails)
  OBVIOUS
<1>4. was \in [level : Volumes, actual : Int, muted : BOOLEAN]
  <2>1. Unset \in [level : Volumes, actual : Int, muted : BOOLEAN]
    <3>1. 99 \in Int /\ -1 \in Int /\ 100 \in Volumes
      BY DEF Volumes
    <3>2. (IF scale = "dB" THEN 99 ELSE -1) \in Int
      BY <3>1
    <3> QED  BY <3>1, <3>2 DEF Unset
  <2>2. [Unset EXCEPT !.muted = cache.muted] \in [level : Volumes, actual : Int, muted : BOOLEAN]
    BY <1>1, <2>1
  <2>3. cache \in [level : Volumes, actual : Int, muted : BOOLEAN]
    <3>1. \A v \in Volumes : v \in Int
      BY DEF Volumes
    <3> QED  BY <1>1, <3>1
  <2> QED  BY <1>2, <2>1, <2>2, <2>3 DEF Cached
<1>5. /\ now \in [level : Volumes, actual : Int, muted : BOOLEAN]
      /\ now.actual = device.level
      /\ device.level # was.actual => now.level = device.level /\ now # was
      /\ device.level = was.actual => now.level = was.level /\ now.actual = was.actual
      /\ "getMute" \notin fails => now.muted = device.muted
  <2>1. /\ now \in [level : Volumes, actual : Int, muted : BOOLEAN]
        /\ "getVolume" \notin fails => now.actual = device.level
        /\ "getVolume" \notin fails /\ device.level # was.actual => now.level = device.level /\ now # was
        /\ device.level = was.actual => now.level = was.level /\ now.actual = was.actual
        /\ "getMute" \notin fails => now.muted = device.muted
    BY <1>3, <1>4, LoadedIs
  <2> QED  BY <2>1
<1>6. /\ level' = now.level /\ muted' = now.muted /\ actual' = now.actual
      /\ told' = [level |-> now.level, muted |-> now.muted]
      /\ cache' = Saved(now, was, fails)
      /\ apart' = \/ now # was /\ "save" \in fails
                  \/ (apart \/ was # cache) /\ device.level = was.actual
      /\ blind' = ("getMute" \in fails)
      /\ say' = [t \in Threads |-> Nothing]
      /\ news' = FALSE /\ raced' = FALSE /\ device' = device
  BY <1>2, <1>3 DEF CoreRestart
<1>7. now \in [level : Volumes, actual : Volumes, muted : BOOLEAN]
  BY <1>1, <1>5
<1>8. told' \in States /\ told' = State'
  BY <1>6, <1>7 DEF States, State
<1>9. VolumeTypes'
  BY <1>6, <1>7, <1>8 DEF VolumeTypes
<1>10. HearInv'
  BY <1>6, <1>8 DEF HearInv, OneSpeaks, ToldIsCurrent
<1>11. cache' = cache \/ cache' = now
  BY <1>6 DEF Saved
<1>12. cache' \in [level : Volumes, actual : Volumes, muted : BOOLEAN]
  BY <1>1, <1>7, <1>11
<1>13. ASSUME ~apart'
       PROVE  /\ actual' \in {Rounded(level'), level'}
              /\ cache'.level = level' /\ cache'.actual = actual'
  <2>1. CASE device.level # was.actual
    <3>1. now # was /\ "save" \notin fails /\ now.level = device.level
      BY <1>5, <1>6, <1>13, <2>1
    <3>2. cache' = now
      BY <1>6, <3>1 DEF Saved
    <3> QED  BY <1>5, <1>6, <3>1, <3>2
  <2>2. CASE device.level = was.actual
    <3>1. ~apart /\ was = cache
      BY <1>6, <1>13, <2>2 DEF CoreInv
    <3>2. now.level = cache.level /\ now.actual = cache.actual
      BY <1>5, <2>2, <3>1
    <3>3. cache.actual \in {Rounded(cache.level), cache.level}
      BY <3>1 DEF CoreInv
    <3> QED  BY <1>6, <1>11, <3>2, <3>3
  <2> QED  BY <2>1, <2>2
<1>14. ~blind' => device'.muted = muted'
  BY <1>5, <1>6
<1>15. news' \in BOOLEAN /\ apart' \in BOOLEAN /\ actual' = device'.level
  <2>1. apart' = TRUE \/ apart' = FALSE
    BY <1>6, Zenon
  <2> QED  BY <1>5, <1>6, <2>1
<1> QED  BY <1>1, <1>6, <1>9, <1>10, <1>12, <1>13, <1>14, <1>15 DEF CoreInv

\* Every step of the plugin for CoreAudio.
LEMMA CoreKeeps ==
    ASSUME VolumeTypes, HearInv, CoreInv, CoreVolumeNext
    PROVE  VolumeTypes' /\ HearInv' /\ CoreInv'
<1>1. level \in Volumes /\ (~muted) \in BOOLEAN /\ (~device.muted) \in BOOLEAN
  BY DEF VolumeTypes
<1>2. /\ muted \in BOOLEAN /\ device.muted \in BOOLEAN /\ device.level \in Volumes
      /\ \A l \in Levels : l \in Volumes /\ Rounded(l) \in Volumes
  BY LevelsAssumption, RoundedAssumption DEF VolumeTypes, States
<1>3. ASSUME NEW l \in Volumes, NEW m \in BOOLEAN, CoreTurned(l, m)
      PROVE  VolumeTypes' /\ HearInv' /\ CoreInv'
  <2>1. /\ Keep /\ told' = told /\ device' \in States /\ raced' \in BOOLEAN /\ (~raced' => ~raced)
    BY <1>3 DEF CoreTurned, Turned, Keep, States, VolumeTypes
  <2>2. VolumeTypes' /\ HearInv'
    BY <2>1, KeepHears
  <2>3. news' = TRUE /\ UNCHANGED <<level, muted, actual, cache, apart, blind>>
    BY <1>3 DEF CoreTurned
  <2> QED  BY <2>2, <2>3 DEF CoreInv
<1>4. ASSUME NEW t \in Threads, Tell(t), UNCHANGED coreVars
      PROVE  VolumeTypes' /\ HearInv' /\ CoreInv'
  <2>1. VolumeTypes' /\ HearInv'
    BY <1>4, TellHears
  <2>2. UNCHANGED <<level, muted, device, actual, cache, news, apart, blind>>
    BY <1>4 DEF Tell, coreVars
  <2> QED  BY <2>1, <2>2 DEF CoreInv
<1>5. ASSUME NEW t \in Callers, NEW l \in Levels, NEW fails, CoreSet(t, l, muted, fails)
      PROVE  VolumeTypes' /\ HearInv' /\ CoreInv'
  BY <1>2, <1>5, CoreSetKeeps
<1>6. ASSUME NEW t \in Callers, NEW fails, CoreSet(t, level, ~muted, fails)
      PROVE  VolumeTypes' /\ HearInv' /\ CoreInv'
  BY <1>1, <1>6, CoreSetKeeps
<1>7. ASSUME NEW l \in Levels, CoreTurned(Rounded(l), device.muted)
      PROVE  VolumeTypes' /\ HearInv' /\ CoreInv'
  BY <1>2, <1>3, <1>7
<1>8. ASSUME CoreTurned(device.level, ~device.muted)
      PROVE  VolumeTypes' /\ HearInv' /\ CoreInv'
  BY <1>1, <1>2, <1>3, <1>8
<1>9. ASSUME NEW fails \in SUBSET {"load", "getMute", "save"}, CoreRestart(fails)
      PROVE  VolumeTypes' /\ HearInv' /\ CoreInv'
  <2>1. "getVolume" \notin fails
    BY <1>9
  <2> QED  BY <1>9, <2>1, CoreRestartKeeps
<1> QED  BY <1>4, <1>5, <1>6, <1>7, <1>8, <1>9, CoreNewsKeeps DEF CoreVolumeNext

-----------------------------------------------------------------------------
(***************************************************************************)
(* The volume of a WASAPI endpoint                                         *)
(***************************************************************************)

WasapiTypes ==
    /\ dirty \in [level : BOOLEAN, muted : BOOLEAN]
    /\ wake \in BOOLEAN /\ moved \in BOOLEAN /\ unset \in BOOLEAN /\ echo \in Seq(States)

\* What is between the plugin and the endpoint, as long as nothing overlapped: one value that
\* the thread has yet to apply, or news of the endpoint, of which the last is what it has.
UnderWay ==
    /\ ~(dirty.level /\ dirty.muted)
    /\ at = "wait" /\ ~wake => ~dirty.level /\ ~dirty.muted
    /\ at = "open" => moved
    /\ moved => /\ at = "open" \/ (at = "wait" /\ wake)
                /\ ~dirty.level /\ ~dirty.muted /\ echo = <<>>
    /\ at \in {"muted", "muted done"} => ~dirty.level
    /\ dirty.level /\ at # "level done" => echo = <<>>
    /\ dirty.muted /\ at # "muted done" => echo = <<>>
    /\ at = "wait" /\ ~wake /\ echo # <<>> => echo[Len(echo)] = device
    /\ unset /\ (at # "wait" \/ wake) => \A i \in 1..Len(echo) : echo[i] = device

\* If the endpoint also took each value, it is as the plugin says, but for that value or news.
Agreed ==
    /\ ~moved /\ (at # "wait" \/ wake) =>
          /\ dirty.level \/ device.level = level
          /\ dirty.muted \/ device.muted = muted
          /\ \A i \in 1..Len(echo) : echo[i] = State
    /\ at = "level done" => device.level = level
    /\ at = "muted done" => device.muted = muted
    /\ at = "wait" /\ ~wake /\ ~moved /\ echo = <<>> => device = State

WasapiOrder == ~raced => UnderWay /\ (~unset => Agreed)

\* A thread that has ended promises nothing.
WasapiInv == WasapiTypes /\ (at # "ended" => HearInv /\ WasapiOrder)

\* Two states are the same if their parts are.
LEMMA SameState ==
    ASSUME NEW s \in States, NEW u \in States
    PROVE  s = u <=> s.level = u.level /\ s.muted = u.muted
BY DEF States

\* A value for the thread, which nothing was under way to.
LEMMA WasapiCallKeeps ==
    ASSUME VolumeTypes, WasapiInv, NEW t \in Callers, NEW l \in Volumes, NEW m \in BOOLEAN,
           Called(t, Busy), wake' = TRUE, UNCHANGED <<device, told, turns, at, echo, moved, unset>>,
           \/ Keep /\ UNCHANGED dirty
           \/ Change(t, l, m) /\ m = muted /\ dirty' = [dirty EXCEPT !.level = TRUE]
           \/ Change(t, l, m) /\ l = level /\ dirty' = [dirty EXCEPT !.muted = TRUE]
    PROVE  VolumeTypes' /\ WasapiInv'
<1>1. t \in Threads /\ Busy \in BOOLEAN
  BY DEF Threads, Busy
<1>2. raced' \in BOOLEAN /\ (~raced' => ~raced /\ Quiet /\ ~Busy)
  BY <1>1, CallRaces
<1>3. VolumeTypes' /\ (HearInv => HearInv')
  <2>1. device' \in States /\ told' \in States
    BY DEF VolumeTypes
  <2>2. CASE Keep
    BY <1>2, <2>1, <2>2, KeepHears DEF VolumeTypes, Keep
  <2>3. CASE Change(t, l, m)
    BY <1>1, <1>2, <2>1, <2>3, ChangeHears, ChangeSpeaks
  <2> QED  BY <2>2, <2>3
<1>4. /\ WasapiTypes'
      /\ dirty'.level \in BOOLEAN /\ dirty'.muted \in BOOLEAN
      /\ \/ dirty' = dirty /\ level' = level /\ muted' = muted
         \/ dirty'.level /\ (dirty'.muted <=> dirty.muted) /\ muted' = muted
         \/ dirty'.muted /\ (dirty'.level <=> dirty.level) /\ level' = level
  BY DEF WasapiInv, WasapiTypes, Change, Keep
<1>5. ASSUME ~raced' PROVE at # "ended" /\ UnderWay' /\ (~unset' => Agreed')
  <2>1. at = "wait" /\ ~wake /\ ~moved /\ echo = <<>>
    BY <1>2, <1>5 DEF Busy
  <2>2. UnderWay /\ (~unset => Agreed)
    BY <1>2, <1>5, <2>1 DEF WasapiInv, WasapiOrder
  <2>3. ~dirty.level /\ ~dirty.muted
    BY <2>1, <2>2 DEF UnderWay
  <2>4. at' = "wait" /\ wake' = TRUE /\ ~moved' /\ echo' = <<>> /\ Len(echo') = 0 /\ device' = device
    BY <2>1
  <2>5. ~(dirty'.level /\ dirty'.muted)
    BY <1>4, <2>3
  <2>6. UnderWay'
    BY <2>4, <2>5 DEF UnderWay
  <2>7. ASSUME ~unset PROVE Agreed'
    <3>1. device.level = level /\ device.muted = muted
      BY <2>1, <2>2, <2>7 DEF Agreed, State
    <3>2. dirty'.level \/ device'.level = level'
      BY <1>4, <2>3, <2>4, <3>1
    <3>3. dirty'.muted \/ device'.muted = muted'
      BY <1>4, <2>3, <2>4, <3>1
    <3> QED  BY <2>4, <3>2, <3>3 DEF Agreed
  <2> QED  BY <2>1, <2>6, <2>7
<1> QED  BY <1>3, <1>4, <1>5 DEF WasapiInv, WasapiOrder

\* One more change of the endpoint to be reported.
LEMMA OneMoreEcho ==
    ASSUME NEW s \in Seq(States), NEW d \in States, NEW q, q = Append(s, d)
    PROVE  /\ q \in Seq(States) /\ Len(s) \in Nat /\ Len(q) = Len(s) + 1
           /\ q[Len(s) + 1] = d /\ q # <<>>
           /\ \A i \in 1..Len(s) : q[i] = s[i]
<1>1. Len(s) \in Nat
  BY LenProperties
<1>2. /\ Append(s, d) \in Seq(States) /\ Len(Append(s, d)) = Len(s) + 1
      /\ Append(s, d)[Len(s) + 1] = d /\ \A i \in 1..Len(s) : Append(s, d)[i] = s[i]
  BY <1>1, AppendProperties
<1> QED  BY <1>1, <1>2, EmptySeq

\* After the first one there is one.
LEMMA OneEcho ==
    ASSUME NEW d \in States, NEW q, q = Append(<<>>, d)
    PROVE  \A i \in 1..Len(q) : q[i] = d
<1>1. <<>> \in Seq(States) /\ Len(<<>>) = 0
  BY EmptySeq
<1>2. Len(q) = 1 /\ q[1] = d
  BY <1>1, OneMoreEcho
<1>3. \A i \in 1..1 : i = 1
  OBVIOUS
<1> QED  BY <1>2, <1>3

\* Where there is one, there is a last one.
LEMMA LastEcho ==
    ASSUME NEW s \in Seq(States)
    PROVE  /\ s # <<>> => Len(s) \in 1..Len(s)
           /\ s = <<>> => \A i \in 1..Len(s) : FALSE
<1>1. Len(s) \in Nat /\ (s # <<>> => Len(s) # 0)
  BY LenProperties, EmptySeq
<1>2. s = <<>> => Len(s) = 0
  BY EmptySeq
<1> QED  BY <1>1, <1>2

\* The thread wakes.
LEMMA WasapiWakesKeeps ==
    ASSUME VolumeTypes, WasapiInv, WasapiWakes
    PROVE  VolumeTypes' /\ WasapiInv'
<1>1. /\ UNCHANGED <<level, muted, device, say, told, raced, dirty, echo, moved, unset>>
      /\ at = "wait" /\ wake /\ wake' = FALSE /\ at' = IF moved THEN "open" ELSE "level"
  BY DEF WasapiWakes, volumeVars
<1>2. moved \in BOOLEAN /\ State' = State /\ HearInv
  BY <1>1 DEF WasapiInv, WasapiTypes, State
<1>3. VolumeTypes' /\ HearInv' /\ WasapiTypes'
  BY <1>1, <1>2, KeepHears DEF VolumeTypes, Keep, WasapiInv, WasapiTypes
<1>4. ASSUME UnderWay PROVE UnderWay'
  BY <1>1, <1>2, <1>4 DEF UnderWay
<1>5. ASSUME Agreed PROVE Agreed'
  BY <1>1, <1>2, <1>5 DEF Agreed
<1> QED  BY <1>1, <1>3, <1>4, <1>5 DEF WasapiInv, WasapiOrder

\* The thread has the endpoint take a value, which is the only one under way, or it refuses.
LEMMA WasapiAppliesKeeps ==
    ASSUME VolumeTypes, WasapiInv, NEW d \in States, Applies(d),
           UNCHANGED <<level, muted, say, told, raced, sets, turns, dirty, wake, moved>>,
           \/ at = "level" /\ at' = "level done" /\ dirty.level
              /\ d.level = level /\ d.muted = device.muted
           \/ at = "muted" /\ at' = "muted done" /\ dirty.muted
              /\ d.muted = muted /\ d.level = device.level
    PROVE  VolumeTypes' /\ WasapiInv'
<1>1. /\ device \in States /\ device' \in States /\ State \in States /\ State' = State
      /\ State.level = level /\ State.muted = muted
      /\ echo \in Seq(States) /\ HearInv /\ raced \in BOOLEAN /\ unset \in BOOLEAN
  BY DEF VolumeTypes, States, State, WasapiInv, WasapiTypes, Applies
<1>2. VolumeTypes' /\ HearInv'
  BY <1>1, KeepHears DEF VolumeTypes, Keep
<1>3. echo' \in Seq(States) /\ unset' \in BOOLEAN
  <2>1. CASE echo' = Append(echo, d) /\ UNCHANGED unset
    BY <1>1, <2>1, OneMoreEcho
  <2> QED  BY <1>1, <2>1 DEF Applies
<1>4. WasapiTypes'
  BY <1>3 DEF WasapiInv, WasapiTypes
<1>5. ASSUME ~raced PROVE UnderWay' /\ (~unset' => Agreed')
  <2>1. UnderWay /\ (~unset => Agreed)
    BY <1>5 DEF WasapiInv, WasapiOrder
  <2>2. /\ echo = <<>> /\ ~moved /\ ~(dirty.level /\ dirty.muted)
        /\ at = "muted" => ~dirty.level
    BY <2>1 DEF UnderWay
  <2>3. CASE device' = d /\ echo' = Append(echo, d) /\ UNCHANGED unset
    <3>1. echo' = Append(<<>>, d)
      BY <2>2, <2>3
    <3>2. \A i \in 1..Len(echo') : echo'[i] = device'
      BY <2>3, <3>1, OneEcho
    <3>3. UnderWay'
      BY <2>2, <3>2 DEF UnderWay
    <3>4. ASSUME ~unset' PROVE Agreed'
      <4>1. CASE at = "level"
        <5>1. device.muted = muted
          BY <2>1, <2>2, <2>3, <3>4, <4>1 DEF Agreed
        <5>2. d.level = State.level /\ d.muted = State.muted
          BY <1>1, <4>1, <5>1
        <5>3. d = State
          BY <1>1, <5>2, SameState
        <5> QED  BY <1>1, <2>2, <2>3, <3>2, <4>1, <5>1, <5>2, <5>3 DEF Agreed
      <4>2. CASE at = "muted"
        <5>1. device.level = level
          BY <2>1, <2>2, <2>3, <3>4, <4>2 DEF Agreed
        <5>2. d.level = State.level /\ d.muted = State.muted
          BY <1>1, <4>2, <5>1
        <5>3. d = State
          BY <1>1, <5>2, SameState
        <5> QED  BY <1>1, <2>2, <2>3, <3>2, <4>2, <5>1, <5>2, <5>3 DEF Agreed
      <4> QED  BY <4>1, <4>2
    <3> QED  BY <3>3, <3>4
  <2>4. CASE unset' = TRUE /\ UNCHANGED <<device, echo>>
    <3>1. echo' = <<>> /\ \A i \in 1..Len(echo') : FALSE
      BY <1>3, <2>2, <2>4, LastEcho
    <3>2. at' \in {"level done", "muted done"} /\ (at' = "muted done" => ~dirty.level)
      BY <2>2
    <3>3. UnderWay'
      BY <2>2, <3>1, <3>2 DEF UnderWay
    <3> QED  BY <2>4, <3>3
  <2> QED  BY <2>3, <2>4 DEF Applies
<1> QED  BY <1>2, <1>4, <1>5 DEF WasapiInv, WasapiOrder

\* The thread has nothing to apply, or clears the flag of what it has applied.
LEMMA WasapiPassesKeeps ==
    ASSUME VolumeTypes, WasapiInv,
           UNCHANGED <<level, muted, device, say, told, raced, wake, echo, moved, unset>>,
           \/ at = "level" /\ at' = "muted" /\ dirty' = dirty /\ ~dirty.level
           \/ at = "level done" /\ at' = "muted" /\ dirty' = [dirty EXCEPT !.level = FALSE]
           \/ at = "muted" /\ at' = "wait" /\ dirty' = dirty /\ ~dirty.muted
           \/ at = "muted done" /\ at' = "wait" /\ dirty' = [dirty EXCEPT !.muted = FALSE]
    PROVE  VolumeTypes' /\ WasapiInv'
<1>1. /\ device \in States /\ State \in States /\ State' = State
      /\ State.level = level /\ State.muted = muted
      /\ echo \in Seq(States) /\ HearInv /\ raced \in BOOLEAN
  BY DEF VolumeTypes, States, State, WasapiInv, WasapiTypes
<1>2. VolumeTypes' /\ HearInv'
  BY <1>1, KeepHears DEF VolumeTypes, Keep
<1>3. /\ WasapiTypes'
      /\ at' = "muted" => ~dirty'.level /\ (dirty'.muted <=> dirty.muted)
      /\ at' = "wait" => ~dirty'.muted /\ (dirty'.level <=> dirty.level)
  BY DEF WasapiInv, WasapiTypes
<1>4. echo # <<>> => Len(echo) \in 1..Len(echo)
  BY <1>1, LastEcho
<1>5. ASSUME ~raced PROVE UnderWay' /\ (~unset' => Agreed')
  <2>1. UnderWay /\ (~unset => Agreed)
    BY <1>5 DEF WasapiInv, WasapiOrder
  <2>2. ~moved
    BY <2>1 DEF UnderWay
  <2>3. ASSUME ~unset
        PROVE  /\ \A i \in 1..Len(echo) : echo[i] = State
               /\ at' = "muted" => device.level = level /\ (dirty.muted \/ device.muted = muted)
               /\ at' = "wait" => device = State
    <3>1. /\ \A i \in 1..Len(echo) : echo[i] = State
          /\ dirty.level \/ device.level = level
          /\ dirty.muted \/ device.muted = muted
          /\ at = "level done" => device.level = level
          /\ at = "muted done" => device.muted = muted
      BY <2>1, <2>2, <2>3 DEF Agreed
    <3>2. at \in {"muted", "muted done"} => ~dirty.level
      BY <2>1 DEF UnderWay
    <3>3. at' = "wait" => device.level = State.level /\ device.muted = State.muted
      BY <1>1, <3>1, <3>2
    <3>4. at' = "wait" => device = State
      BY <1>1, <3>3, SameState
    <3> QED  BY <3>1, <3>4
  <2>4. ASSUME unset PROVE \A i \in 1..Len(echo) : echo[i] = device
    BY <2>1, <2>4 DEF UnderWay
  <2>5. at' = "wait" /\ echo # <<>> => echo[Len(echo)] = device
    <3>1. unset \in BOOLEAN
      BY DEF WasapiInv, WasapiTypes
    <3> QED  BY <1>4, <2>3, <2>4, <3>1
  <2>6. UnderWay'
    <3>1. at' = "wait" => ~dirty'.level
      BY <1>3, <2>1 DEF UnderWay
    <3>2. at' = "muted" /\ dirty'.muted => echo = <<>>
      BY <1>3, <2>1 DEF UnderWay
    <3> QED  BY <1>3, <2>2, <2>4, <2>5, <3>1, <3>2 DEF UnderWay
  <2>7. ASSUME ~unset' PROVE Agreed'
    <3>1. /\ \A i \in 1..Len(echo') : echo'[i] = State'
          /\ at' = "muted" => device'.level = level' /\ (dirty'.muted \/ device'.muted = muted')
          /\ at' = "wait" => device' = State'
      BY <1>1, <1>3, <2>3, <2>7
    <3>2. at' \in {"muted", "wait"} /\ (at' = "wait" => ~dirty'.muted)
      BY <1>3
    <3>3. at' = "wait" => device'.level = level' /\ device'.muted = muted'
      BY <1>1, <3>1
    <3> QED  BY <2>2, <3>1, <3>2, <3>3 DEF Agreed
  <2> QED  BY <2>6, <2>7
<1> QED  BY <1>2, <1>3, <1>5 DEF WasapiInv, WasapiOrder

\* Every step of the thread while it has a device.
LEMMA WasapiThreadKeeps ==
    ASSUME VolumeTypes, WasapiInv,
           WasapiWakes \/ WasapiAppliesLevel \/ WasapiClearsLevel \/ WasapiAppliesMute \/ WasapiClearsMute
    PROVE  VolumeTypes' /\ WasapiInv'
<1>1. level \in Volumes /\ muted \in BOOLEAN /\ device \in States
  BY DEF VolumeTypes
<1>2. CASE WasapiAppliesLevel
  <2>1. CASE dirty.level
    <3>1. PICK d : d = [device EXCEPT !.level = level]
      OBVIOUS
    <3>2. d \in States /\ d.level = level /\ d.muted = device.muted
      BY <1>1, <3>1 DEF States
    <3>3. /\ Applies(d) /\ at = "level" /\ at' = "level done"
          /\ UNCHANGED <<level, muted, say, told, raced, sets, turns, dirty, wake, moved>>
      BY <1>2, <2>1, <3>1 DEF WasapiAppliesLevel, LevelDirty
    <3> QED  BY <2>1, <3>2, <3>3, WasapiAppliesKeeps
  <2>2. CASE ~dirty.level
    <3>1. /\ at = "level" /\ at' = "muted" /\ dirty' = dirty
          /\ UNCHANGED <<level, muted, device, say, told, raced, wake, echo, moved, unset>>
      BY <1>2, <2>2 DEF WasapiAppliesLevel, LevelDirty
    <3> QED  BY <2>2, <3>1, WasapiPassesKeeps
  <2> QED  BY <2>1, <2>2
<1>3. CASE WasapiAppliesMute
  <2>1. CASE dirty.muted
    <3>1. PICK d : d = [device EXCEPT !.muted = muted]
      OBVIOUS
    <3>2. d \in States /\ d.muted = muted /\ d.level = device.level
      BY <1>1, <3>1 DEF States
    <3>3. /\ Applies(d) /\ at = "muted" /\ at' = "muted done"
          /\ UNCHANGED <<level, muted, say, told, raced, sets, turns, dirty, wake, moved>>
      BY <1>3, <2>1, <3>1 DEF WasapiAppliesMute
    <3> QED  BY <2>1, <3>2, <3>3, WasapiAppliesKeeps
  <2>2. CASE ~dirty.muted
    <3>1. /\ at = "muted" /\ at' = "wait" /\ dirty' = dirty
          /\ UNCHANGED <<level, muted, device, say, told, raced, wake, echo, moved, unset>>
      BY <1>3, <2>2 DEF WasapiAppliesMute
    <3> QED  BY <2>2, <3>1, WasapiPassesKeeps
  <2> QED  BY <2>1, <2>2
<1>4. CASE WasapiClearsLevel
  <2>1. /\ at = "level done" /\ at' = "muted" /\ dirty' = [dirty EXCEPT !.level = FALSE]
        /\ UNCHANGED <<level, muted, device, say, told, raced, wake, echo, moved, unset>>
    BY <1>4 DEF WasapiClearsLevel, volumeVars
  <2> QED  BY <2>1, WasapiPassesKeeps
<1>5. CASE WasapiClearsMute
  <2>1. /\ at = "muted done" /\ at' = "wait" /\ dirty' = [dirty EXCEPT !.muted = FALSE]
        /\ UNCHANGED <<level, muted, device, say, told, raced, wake, echo, moved, unset>>
    BY <1>5 DEF WasapiClearsMute, volumeVars
  <2> QED  BY <2>1, WasapiPassesKeeps
<1> QED  BY <1>2, <1>3, <1>4, <1>5, WasapiWakesKeeps

\* The endpoint changes by itself while nothing is under way to it.
LEMMA WasapiTurnedKeeps ==
    ASSUME VolumeTypes, WasapiInv, NEW l \in Volumes, NEW m \in BOOLEAN,
           WasapiTurned(l, m) \/ (WasapiMoved(l) /\ m = device.muted)
    PROVE  VolumeTypes' /\ WasapiInv'
<1>1. /\ device \in States /\ raced \in BOOLEAN
      /\ echo \in Seq(States) /\ wake \in BOOLEAN /\ moved \in BOOLEAN
  BY DEF VolumeTypes, WasapiInv, WasapiTypes
<1>2. /\ UNCHANGED <<level, muted, say, told, dirty, at, unset>> /\ State' = State
      /\ device' = [level |-> l, muted |-> m] /\ device' \in States
  BY DEF WasapiTurned, WasapiMoved, Turned, State, States
<1>3. raced' \in BOOLEAN /\ (~raced' => ~raced /\ at = "wait" /\ ~wake)
  BY <1>1 DEF WasapiTurned, WasapiMoved, Turned, Busy
<1>4. ASSUME ~raced' PROVE UnderWay /\ ~moved
  <2>1. UnderWay /\ at = "wait" /\ ~wake
    BY <1>3, <1>4 DEF WasapiInv, WasapiOrder
  <2> QED  BY <2>1 DEF UnderWay
<1>5. VolumeTypes' /\ (HearInv => HearInv')
  <2>1. VolumeTypes'
    BY <1>2, <1>3 DEF VolumeTypes
  <2> QED  BY <1>2, <1>3, <2>1, KeepHears DEF Keep
<1>6. CASE WasapiTurned(l, m)
  <2>1. echo' = Append(echo, device') /\ UNCHANGED <<wake, moved>>
    BY <1>6 DEF WasapiTurned
  <2>2. echo' \in Seq(States) /\ echo' # <<>> /\ echo'[Len(echo')] = device'
    BY <1>1, <1>2, <2>1, OneMoreEcho
  <2>3. ASSUME ~raced' PROVE UnderWay' /\ Agreed'
    <3>1. UnderWay /\ at = "wait" /\ ~wake /\ ~moved
      BY <1>3, <1>4, <2>3
    <3>2. ~dirty.level /\ ~dirty.muted
      BY <3>1 DEF UnderWay
    <3>3. UnderWay'
      BY <1>2, <2>1, <2>2, <3>1, <3>2 DEF UnderWay
    <3>4. Agreed'
      BY <1>2, <2>1, <2>2, <3>1, <3>2 DEF Agreed
    <3> QED  BY <3>3, <3>4
  <2> QED  BY <1>2, <1>5, <2>1, <2>2, <2>3 DEF WasapiInv, WasapiTypes, WasapiOrder
<1>7. CASE WasapiMoved(l)
  <2>1. echo' = <<>> /\ wake' = TRUE /\ moved' = TRUE
    BY <1>7 DEF WasapiMoved
  <2>2. ASSUME ~raced' PROVE UnderWay' /\ Agreed'
    <3>1. UnderWay /\ at = "wait" /\ ~wake /\ ~moved
      BY <1>3, <1>4, <2>2
    <3>2. ~dirty.level /\ ~dirty.muted /\ Len(echo') = 0
      BY <2>1, <3>1 DEF UnderWay
    <3>3. UnderWay'
      BY <1>2, <2>1, <3>1, <3>2 DEF UnderWay
    <3>4. Agreed'
      BY <1>2, <2>1, <3>1 DEF Agreed
    <3> QED  BY <3>3, <3>4
  <2> QED  BY <1>2, <1>5, <2>1, <2>2 DEF WasapiInv, WasapiTypes, WasapiOrder
<1> QED  BY <1>6, <1>7

\* A change is reported: it is the state already, or becomes it.
LEMMA WasapiEchoKeeps ==
    ASSUME VolumeTypes, WasapiInv, WasapiEcho
    PROVE  VolumeTypes' /\ WasapiInv'
<1>1. /\ device \in States /\ raced \in BOOLEAN /\ echo \in Seq(States) /\ echo # <<>>
      /\ State \in States /\ told \in States
  BY DEF WasapiEcho, VolumeTypes, WasapiInv, WasapiTypes, State, States
<1>2. PICK h \in States : h = Head(echo)
  BY <1>1, HeadTailProperties
<1>3. /\ Tail(echo) \in Seq(States) /\ Len(Tail(echo)) = Len(echo) - 1 /\ Len(echo) \in Nat
      /\ Len(echo) > 0 /\ \A i \in 1..Len(Tail(echo)) : Tail(echo)[i] = echo[i + 1]
  BY <1>1, HeadTailProperties, LenProperties, EmptySeq
<1>4. h = echo[1] /\ 1 \in 1..Len(echo)
  BY <1>2, <1>3
<1>5. /\ echo' = Tail(echo) /\ unset' = FALSE
      /\ \/ h = State /\ Keep /\ UNCHANGED raced
         \/ h # State /\ Reports(h.level, h.muted)
      /\ UNCHANGED <<device, told, sets, turns, dirty, wake, at, moved>>
  BY <1>2 DEF WasapiEcho
<1>6. /\ VolumeTypes' /\ (HearInv => HearInv') /\ (~raced' => ~raced)
      /\ State' = h /\ level' = h.level /\ muted' = h.muted
  <2>1. CASE h = State /\ Keep /\ UNCHANGED raced
    <3>1. VolumeTypes'
      BY <1>1, <1>5, <2>1 DEF VolumeTypes, Keep
    <3> QED  BY <1>1, <1>5, <2>1, <3>1, KeepHears DEF Keep, State
  <2>2. CASE h # State /\ Reports(h.level, h.muted)
    <3>1. /\ h.level \in Volumes /\ h.muted \in BOOLEAN /\ "device" \in Threads
          /\ h = [level |-> h.level, muted |-> h.muted]
      BY DEF States, Threads
    <3>2. Change("device", h.level, h.muted) /\ raced' = (raced \/ ~Quiet)
      BY <2>2 DEF Reports
    <3>3. raced' \in BOOLEAN /\ (~raced' => ~raced /\ Quiet) /\ device' \in States
      BY <1>1, <1>5, <3>2
    <3>4. told' = told /\ told' \in States
      BY <1>1, <1>5
    <3>5. VolumeTypes' /\ (HearInv => HearInv')
      BY <3>1, <3>2, <3>3, <3>4, ChangeHears, ChangeSpeaks
    <3>6. State' = h /\ level' = h.level /\ muted' = h.muted
      BY <3>1, <3>2 DEF Change, State
    <3> QED  BY <3>3, <3>5, <3>6
  <2> QED  BY <1>5, <2>1, <2>2
<1>7. WasapiTypes'
  BY <1>3, <1>5 DEF WasapiInv, WasapiTypes
<1>8. ASSUME ~raced', at # "ended" PROVE UnderWay' /\ Agreed'
  <2>1. UnderWay /\ (~unset => Agreed)
    BY <1>6, <1>8 DEF WasapiInv, WasapiOrder
  <2>2. ~moved
    BY <1>1, <2>1 DEF UnderWay
  <2>3. (dirty.level => at = "level done") /\ (dirty.muted => at = "muted done")
    BY <1>1, <2>1 DEF UnderWay
  <2>4. CASE at # "wait" \/ wake
    <3>1. unset => \A i \in 1..Len(echo) : echo[i] = device
      BY <2>1, <2>4 DEF UnderWay
    <3>2. ~unset => \A i \in 1..Len(echo) : echo[i] = State
      BY <2>1, <2>2, <2>4 DEF Agreed
    <3>3. \A i \in 1..Len(echo) : echo[i] = h
      <4>1. unset \in BOOLEAN
        BY DEF WasapiInv, WasapiTypes
      <4> QED  BY <1>4, <3>1, <3>2, <4>1
    <3>4. ASSUME NEW i \in 1..Len(echo') PROVE echo'[i] = h
      <4>1. i \in 1..Len(Tail(echo)) /\ i + 1 \in 1..Len(echo)
        BY <1>3, <1>5
      <4> QED  BY <1>3, <1>5, <3>3, <4>1
    <3>5. UnderWay'
      BY <1>5, <2>1, <2>2, <2>3, <2>4 DEF UnderWay
    <3>6. CASE unset
      <4>1. device = h
        BY <1>4, <3>1, <3>6
      <4> QED  BY <1>5, <1>6, <2>2, <2>4, <3>4, <3>5, <4>1 DEF Agreed
    <3>7. CASE ~unset
      <4>1. h = State
        BY <1>4, <3>2, <3>7
      <4>2. level' = level /\ muted' = muted
        BY <1>6, <4>1 DEF State
      <4>3. Agreed
        BY <2>1, <3>7
      <4> QED  BY <1>5, <1>6, <2>2, <2>4, <3>4, <3>5, <4>2, <4>3 DEF Agreed
    <3> QED  BY <3>6, <3>7
  <2>5. CASE at = "wait" /\ ~wake
    <3>1. echo[Len(echo)] = device /\ ~dirty.level /\ ~dirty.muted
      BY <1>1, <2>1, <2>5 DEF UnderWay
    <3>2. CASE Tail(echo) = <<>>
      <4>1. Len(Tail(echo)) = 0
        BY <1>3, <3>2, EmptySeq
      <4>2. Len(echo) = 1
        <5>1. PICK k : k = Len(Tail(echo))
          OBVIOUS
        <5>2. k = Len(echo) - 1
          BY <1>3, <5>1, Zenon
        <5>3. k = 0
          BY <4>1, <5>1, Zenon
        <5>4. Len(echo) \in Nat
          BY <1>3
        <5> QED  BY <5>2, <5>3, <5>4
      <4>3. device = State'
        BY <1>4, <1>6, <3>1, <4>2
      <4>4. UnderWay'
        BY <1>5, <2>2, <2>5, <3>1, <3>2 DEF UnderWay
      <4> QED  BY <1>5, <2>2, <2>5, <3>1, <3>2, <4>3, <4>4 DEF Agreed
    <3>3. CASE Tail(echo) # <<>>
      <4>1. Len(Tail(echo)) # 0
        BY <1>3, <3>3, EmptySeq
      <4>2. Len(Tail(echo)) \in 1..Len(Tail(echo)) /\ Len(Tail(echo)) + 1 = Len(echo)
        BY <1>3, <4>1
      <4>3. echo'[Len(echo')] = device
        BY <1>3, <1>5, <3>1, <4>2
      <4>4. UnderWay'
        BY <1>5, <2>2, <2>5, <3>1, <3>3, <4>3 DEF UnderWay
      <4> QED  BY <1>5, <2>2, <2>5, <3>1, <3>3, <4>4 DEF Agreed
    <3> QED  BY <3>2, <3>3
  <2> QED  BY <1>1, <2>4, <2>5 DEF WasapiInv, WasapiTypes
<1> QED  BY <1>5, <1>6, <1>7, <1>8 DEF WasapiInv, WasapiOrder

\* The new default device is opened, and what it has is the state; or the thread ends.
LEMMA WasapiOpensKeeps ==
    ASSUME VolumeTypes, WasapiInv, WasapiOpens \/ WasapiFails
    PROVE  VolumeTypes' /\ WasapiInv'
<1>1. /\ device \in States /\ raced \in BOOLEAN /\ echo \in Seq(States) /\ "device" \in Threads
      /\ device.level \in Volumes /\ device.muted \in BOOLEAN
  BY DEF VolumeTypes, WasapiInv, WasapiTypes, States, Threads
<1>2. CASE WasapiOpens
  <2>1. /\ Change("device", device.level, device.muted) /\ raced' = (raced \/ ~Quiet)
        /\ at = "open" /\ moved' = FALSE /\ wake' = FALSE /\ unset' = FALSE /\ at' = "level"
        /\ UNCHANGED <<device, told, dirty, echo>>
    BY <1>2 DEF WasapiOpens, Reports
  <2>2. HearInv
    BY <2>1 DEF WasapiInv
  <2>3. VolumeTypes' /\ HearInv' /\ (~raced' => ~raced)
    <3>1. raced' \in BOOLEAN /\ (~raced' => ~raced /\ Quiet) /\ device' \in States /\ told' = told
      BY <1>1, <2>1
    <3> QED  BY <1>1, <2>1, <2>2, <3>1, ChangeHears
  <2>4. WasapiTypes'
    BY <2>1 DEF WasapiInv, WasapiTypes
  <2>5. ASSUME ~raced' PROVE UnderWay' /\ Agreed'
    <3>1. UnderWay
      BY <2>1, <2>3, <2>5 DEF WasapiInv, WasapiOrder
    <3>2. ~dirty.level /\ ~dirty.muted /\ echo = <<>>
      BY <2>1, <3>1 DEF UnderWay
    <3>3. Len(echo') = 0 /\ level' = device.level /\ muted' = device.muted
      BY <2>1, <3>2 DEF Change
    <3>4. UnderWay'
      BY <2>1, <3>2, <3>3 DEF UnderWay
    <3>5. Agreed'
      BY <2>1, <3>2, <3>3 DEF Agreed
    <3> QED  BY <3>4, <3>5
  <2> QED  BY <2>3, <2>4, <2>5 DEF WasapiInv, WasapiOrder
<1>3. CASE WasapiFails
  <2>1. at' = "ended" /\ UNCHANGED <<device, say, told, raced, dirty, wake, echo, moved, unset>>
    BY <1>3 DEF WasapiFails
  <2>2. level' \in Volumes /\ muted' \in BOOLEAN
    BY <1>1, <1>3 DEF WasapiFails, VolumeTypes
  <2> QED  BY <2>1, <2>2 DEF VolumeTypes, WasapiInv, WasapiTypes
<1> QED  BY <1>2, <1>3

\* A thread tells the listeners.
LEMMA WasapiTellKeeps ==
    ASSUME VolumeTypes, WasapiInv, NEW t \in Threads, Tell(t), UNCHANGED endpointVars
    PROVE  VolumeTypes' /\ WasapiInv'
<1>1. /\ UNCHANGED <<level, muted, device, raced, dirty, wake, at, echo, moved, unset>>
      /\ State' = State /\ told' = say[t] /\ say[t] # Nothing
      /\ say' = [say EXCEPT ![t] = Nothing]
  BY DEF Tell, endpointVars, State
<1>2. VolumeTypes'
  BY <1>1 DEF VolumeTypes
<1>3. HearInv => HearInv'
  BY TellHears
<1>4. WasapiTypes' /\ (UnderWay => UnderWay') /\ (Agreed => Agreed')
  BY <1>1 DEF WasapiInv, WasapiTypes, UnderWay, Agreed
<1> QED  BY <1>1, <1>2, <1>3, <1>4 DEF WasapiInv, WasapiOrder

\* Every step of the plugin for WASAPI.
LEMMA WasapiKeeps ==
    ASSUME VolumeTypes, WasapiInv, WasapiVolumeNext
    PROVE  VolumeTypes' /\ WasapiInv'
<1>1. level \in Volumes /\ (~muted) \in BOOLEAN /\ (~device.muted) \in BOOLEAN
  BY DEF VolumeTypes
<1>2. /\ muted \in BOOLEAN /\ device.muted \in BOOLEAN /\ device.level \in Volumes
      /\ \A l \in Levels : l \in Volumes
  BY LevelsAssumption DEF VolumeTypes, States
<1>3. ASSUME NEW t \in Callers, NEW l \in Levels, WasapiSetVolume(t, l)
      PROVE  VolumeTypes' /\ WasapiInv'
  <2>1. /\ Called(t, Busy) /\ wake' = TRUE
        /\ UNCHANGED <<device, told, turns, at, echo, moved, unset>>
        /\ \/ Keep /\ UNCHANGED dirty
           \/ Change(t, l, muted) /\ dirty' = [dirty EXCEPT !.level = TRUE]
    BY <1>3 DEF WasapiSetVolume
  <2>2. l \in Volumes
    BY <1>2
  <2> QED  BY <1>2, <2>1, <2>2, WasapiCallKeeps
<1>4. ASSUME NEW t \in Callers, WasapiSetMute(t)
      PROVE  VolumeTypes' /\ WasapiInv'
  <2>1. /\ Called(t, Busy) /\ wake' = TRUE
        /\ UNCHANGED <<device, told, turns, at, echo, moved, unset>>
        /\ Change(t, level, ~muted) /\ dirty' = [dirty EXCEPT !.muted = TRUE]
    BY <1>4 DEF WasapiSetMute
  <2> QED  BY <1>1, <2>1, WasapiCallKeeps
<1>5. ASSUME NEW l \in Levels, WasapiTurned(l, device.muted) \/ WasapiMoved(l)
      PROVE  VolumeTypes' /\ WasapiInv'
  BY <1>2, <1>5, WasapiTurnedKeeps
<1>6. ASSUME WasapiTurned(device.level, ~device.muted)
      PROVE  VolumeTypes' /\ WasapiInv'
  BY <1>1, <1>2, <1>6, WasapiTurnedKeeps
<1> QED  BY <1>3, <1>4, <1>5, <1>6, WasapiThreadKeeps, WasapiEchoKeeps, WasapiOpensKeeps,
            WasapiTellKeeps DEF WasapiVolumeNext

-----------------------------------------------------------------------------
(***************************************************************************)
(* The volume of an ALSA mixer element                                     *)
(***************************************************************************)

Redos ==
    [at : {"none", "stop", "join", "open", "again"}, is : {"none", "level", "muted"},
     level : Volumes, muted : BOOLEAN]

AlsaTypes ==
    /\ redo \in [Callers -> Redos]
    /\ event \in BOOLEAN /\ refused \in BOOLEAN

\* As long as nothing overlapped, one caller opens the mixer again at most, and it has it for
\* itself, without events and without anything to be told.
OneRedoes ==
    ~raced => /\ \A t, u \in Callers : redo[t] # NoRedo /\ redo[u] # NoRedo => t = u
              /\ Redoing => Quiet /\ ~event

\* If the mixer took every value as well, the plugin, the listeners and, if it is the card's, the
\* mixer agree, but for what an event or a thread will say, and while it is opened again.
AllAgree ==
    ~raced /\ ~refused =>
        /\ \A t \in Callers : redo[t].at = "again" =>
              told = State /\ (mixer = "ready" => device = State)
        /\ ~Redoing /\ ~event /\ mixer = "ready" => device = State
        /\ ~Redoing /\ Quiet => told = State

AlsaInv == AlsaTypes /\ OneSpeaks /\ OneRedoes /\ AllAgree

\* A caller has nothing more to set.
LEMMA NothingToRedo ==
    ASSUME AlsaTypes, NEW t \in Callers, redo' = [redo EXCEPT ![t] = NoRedo]
    PROVE  /\ redo' \in [Callers -> Redos]
           /\ redo'[t] = NoRedo /\ \A u \in Callers \ {t} : redo'[u] = redo[u]
<1> DEFINE none == NoRedo
<1>1. none \in Redos
  BY DEF NoRedo, Redos, Volumes
<1>2. redo' = [redo EXCEPT ![t] = none]
  OBVIOUS
<1> HIDE DEF none
<1>3. /\ redo' \in [Callers -> Redos]
      /\ redo'[t] = none /\ \A u \in Callers \ {t} : redo'[u] = redo[u]
  BY <1>1, <1>2 DEF AlsaTypes
<1> QED  BY <1>3 DEF none

\* What the mixer has is a state, whatever it is given.
LEMMA AppliedIs ==
    ASSUME VolumeTypes, NEW t, NEW l \in Volumes, NEW m \in BOOLEAN, Applied(t, l, m)
    PROVE  device' \in States
<1>1. device.level \in Volumes /\ device.muted \in BOOLEAN
  BY DEF VolumeTypes, States
<1> DEFINE dl == IF l # level THEN l ELSE device.level
           dm == IF m # muted THEN m ELSE device.muted
<1>2. dl \in Volumes /\ dm \in BOOLEAN
  BY <1>1
<1>3. device' = [level |-> dl, muted |-> dm]
  BY DEF Applied
<1> QED  BY <1>2, <1>3 DEF States

\* set_volume and set_mute
LEMMA AlsaSetKeeps ==
    ASSUME VolumeTypes, AlsaInv, NEW t \in Callers, NEW l \in Volumes, NEW m \in BOOLEAN,
           AlsaSet(t, l, m)
    PROVE  VolumeTypes' /\ AlsaInv'
<1>1. /\ t \in Threads /\ redo[t] = NoRedo /\ Called(t, event \/ Redoing)
      /\ told' = told /\ refused' = refused /\ mixer' = mixer /\ told \in States
  BY DEF AlsaSet, Threads, VolumeTypes
<1>2. raced' \in BOOLEAN /\ (~raced' => ~raced /\ Quiet /\ ~event /\ ~Redoing)
  BY <1>1, CallRaces
<1>3. ASSUME ~raced', ~refused'
      PROVE  ~raced /\ ~refused /\ told = State /\ (mixer = "ready" => device = State)
  BY <1>1, <1>2, <1>3 DEF AlsaInv, AllAgree
<1>4. CASE Keep /\ UNCHANGED <<device, event, redo>>
  <2>1. VolumeTypes'
    BY <1>1, <1>2, <1>4 DEF VolumeTypes, Keep
  <2>2. State' = State /\ (Quiet' <=> Quiet) /\ (Redoing' <=> Redoing)
    BY <1>4 DEF Keep, State, Quiet, Redoing
  <2>3. AlsaTypes' /\ OneSpeaks'
    BY <1>1, <1>2, <1>4, <2>2 DEF AlsaInv, AlsaTypes, OneSpeaks, Keep
  <2>4. OneRedoes' /\ AllAgree'
    BY <1>1, <1>2, <1>3, <1>4, <2>2 DEF AlsaInv, OneRedoes, AllAgree
  <2> QED  BY <2>1, <2>3, <2>4 DEF AlsaInv
<1>5. CASE Applied(t, l, m) /\ UNCHANGED redo
  <2>1. Change(t, l, m) /\ event' = TRUE /\ redo' = redo
    BY <1>5 DEF Applied
  <2>2. device' \in States
    BY <1>5, AppliedIs
  <2>3. VolumeTypes' /\ OneSpeaks' /\ ~Quiet'
    BY <1>1, <1>2, <2>1, <2>2, ChangeSpeaks
  <2>4. Redoing' <=> Redoing
    BY <2>1 DEF Redoing
  <2>5. ASSUME ~raced', NEW u \in Callers PROVE redo'[u] = NoRedo /\ redo'[u].at = "none"
    BY <1>2, <2>1, <2>5 DEF Redoing, NoRedo
  <2>6. AlsaTypes' /\ OneRedoes' /\ AllAgree'
    BY <1>1, <1>2, <2>1, <2>3, <2>4, <2>5 DEF AlsaInv, AlsaTypes, OneRedoes, AllAgree
  <2> QED  BY <2>3, <2>6 DEF AlsaInv
<1>6. CASE /\ redo' = [redo EXCEPT ![t] = [at |-> "stop", is |-> IF l # level THEN "level" ELSE "muted",
                                            level |-> l, muted |-> m]]
           /\ level' = l /\ muted' = m
           /\ UNCHANGED <<device, say, event>>
  <2> DEFINE w == [at |-> "stop", is |-> IF l # level THEN "level" ELSE "muted", level |-> l, muted |-> m]
  <2>1. w.at = "stop" /\ w # NoRedo /\ redo' = [redo EXCEPT ![t] = w]
    BY <1>6 DEF NoRedo
  <2>2. w \in Redos
    BY DEF Redos
  <2> HIDE DEF w
  <2>3. AlsaTypes'
    BY <1>1, <1>6, <2>1, <2>2 DEF AlsaInv, AlsaTypes
  <2>4. redo'[t] = w /\ \A u \in Callers \ {t} : redo'[u] = redo[u]
    BY <2>1 DEF AlsaInv, AlsaTypes
  <2>5. VolumeTypes'
    BY <1>1, <1>2, <1>6 DEF VolumeTypes
  <2>6. Redoing' /\ (Quiet' <=> Quiet)
    BY <1>6, <2>1, <2>4 DEF Redoing, Quiet
  <2>7. OneSpeaks'
    BY <1>2, <1>6 DEF OneSpeaks, Quiet
  <2>8. ASSUME ~raced', NEW u \in Callers, redo'[u] # NoRedo PROVE u = t
    BY <1>2, <2>4, <2>8 DEF Redoing
  <2>9. OneRedoes'
    BY <1>2, <1>6, <2>6, <2>8 DEF OneRedoes
  <2>10. ASSUME ~raced', NEW u \in Callers PROVE redo'[u].at # "again"
    BY <1>2, <2>1, <2>4, <2>10 DEF Redoing, NoRedo
  <2>11. AllAgree'
    BY <2>6, <2>10 DEF AllAgree
  <2> QED  BY <2>3, <2>5, <2>7, <2>9, <2>11 DEF AlsaInv
<1> QED  BY <1>4, <1>5, <1>6 DEF AlsaSet

\* The thread for events is told to end, and joined.
LEMMA AlsaStopsKeeps ==
    ASSUME VolumeTypes, AlsaInv, NEW t \in Callers, AlsaStopEvents(t) \/ AlsaJoined(t)
    PROVE  VolumeTypes' /\ AlsaInv'
<1>1. UNCHANGED <<level, muted, device, say, told, raced, mixer, event, refused>>
  BY DEF AlsaStopEvents, AlsaJoined, volumeVars
<1>2. PICK a \in {"join", "open"} : redo' = [redo EXCEPT ![t].at = a]
  BY DEF AlsaStopEvents, AlsaJoined
<1>3. redo[t].at \in {"stop", "join"}
  BY DEF AlsaStopEvents, AlsaJoined
<1>4. redo[t] # NoRedo /\ redo'[t] # NoRedo /\ redo'[t].at \in {"join", "open"}
  BY <1>2, <1>3 DEF AlsaInv, AlsaTypes, NoRedo
<1>5. \A u \in Callers \ {t} : redo'[u] = redo[u]
  BY <1>2 DEF AlsaInv, AlsaTypes
<1>6. Redoing /\ Redoing'
  BY <1>4 DEF Redoing
<1>7. State' = State /\ (Quiet' <=> Quiet)
  BY <1>1 DEF State, Quiet
<1>8. AlsaTypes'
  BY <1>1, <1>2 DEF AlsaInv, AlsaTypes, Redos
<1>9. OneSpeaks' /\ VolumeTypes'
  BY <1>1, <1>7 DEF AlsaInv, OneSpeaks, VolumeTypes
<1>10. OneRedoes'
  <2>1. \A u \in Callers : redo'[u] # NoRedo => redo[u] # NoRedo
    BY <1>4, <1>5
  <2> QED  BY <1>1, <1>6, <1>7, <2>1 DEF AlsaInv, OneRedoes
<1>11. AllAgree'
  <2>1. \A u \in Callers : redo'[u].at = "again" => redo[u].at = "again"
    BY <1>4, <1>5
  <2> QED  BY <1>1, <1>6, <1>7, <2>1 DEF AlsaInv, AllAgree
<1> QED  BY <1>8, <1>9, <1>10, <1>11 DEF AlsaInv

\* The mixer is opened, and what it has becomes the state and is told; or it cannot be opened.
LEMMA AlsaOpenKeeps ==
    ASSUME VolumeTypes, AlsaInv, NEW t \in Callers, AlsaOpen(t)
    PROVE  VolumeTypes' /\ AlsaInv'
<1>1. redo[t].at = "open" /\ event' = FALSE /\ UNCHANGED <<device, say, raced>>
  BY DEF AlsaOpen
<1>2. redo[t] # NoRedo /\ Redoing
  BY <1>1 DEF NoRedo, Redoing
<1>3. ~raced => Quiet /\ \A u \in Callers \ {t} : redo[u] = NoRedo
  BY <1>2 DEF AlsaInv, OneRedoes
<1>4. /\ device.level \in Volumes /\ device.muted \in BOOLEAN /\ device \in States
      /\ device = [level |-> device.level, muted |-> device.muted]
  BY DEF VolumeTypes, States
<1>5. OneSpeaks' /\ (Quiet' <=> Quiet)
  BY <1>1, <1>3 DEF OneSpeaks, Quiet
<1>6. CASE /\ level' = device.level /\ muted' = device.muted /\ told' = device
           /\ redo' = [redo EXCEPT ![t].at = "again"] /\ UNCHANGED refused
  <2>1. VolumeTypes'
    BY <1>1, <1>4, <1>6 DEF VolumeTypes
  <2>2. /\ redo'[t].at = "again" /\ redo'[t] # NoRedo
        /\ \A u \in Callers \ {t} : redo'[u] = redo[u]
    BY <1>6 DEF AlsaInv, AlsaTypes, NoRedo
  <2>3. AlsaTypes'
    BY <1>1, <1>6 DEF AlsaInv, AlsaTypes, Redos
  <2>4. Redoing'
    BY <2>2 DEF Redoing
  <2>5. OneRedoes'
    BY <1>1, <1>3, <1>5, <2>2 DEF OneRedoes
  <2>6. State' = device' /\ told' = State'
    BY <1>1, <1>4, <1>6 DEF State
  <2>7. AllAgree'
    BY <2>4, <2>6 DEF AllAgree
  <2> QED  BY <1>5, <2>1, <2>3, <2>5, <2>7 DEF AlsaInv
<1>7. CASE /\ redo' = [redo EXCEPT ![t] = NoRedo] /\ refused' = TRUE
           /\ UNCHANGED <<level, muted, told>>
  <2>1. VolumeTypes'
    BY <1>1, <1>7 DEF VolumeTypes
  <2>2. /\ redo' \in [Callers -> Redos]
        /\ redo'[t] = NoRedo /\ \A u \in Callers \ {t} : redo'[u] = redo[u]
    BY <1>7, NothingToRedo DEF AlsaInv
  <2>3. event' \in BOOLEAN /\ refused' \in BOOLEAN
    BY <1>1, <1>7
  <2>4. AlsaTypes'
    BY <2>2, <2>3 DEF AlsaTypes
  <2>5. ASSUME ~raced' PROVE \A u \in Callers : redo'[u] = NoRedo
    BY <1>1, <1>3, <2>2, <2>5
  <2>6. OneRedoes'
    BY <1>1, <1>3, <1>5, <2>5 DEF OneRedoes
  <2>7. AllAgree'
    BY <1>7 DEF AllAgree
  <2> QED  BY <1>5, <2>1, <2>4, <2>6, <2>7 DEF AlsaInv
<1> QED  BY <1>6, <1>7 DEF AlsaOpen, ReadMixer

\* The value is set again, and is kept if it is refused.
LEMMA AlsaSetAgainKeeps ==
    ASSUME VolumeTypes, AlsaInv, NEW t \in Callers, AlsaSetAgain(t)
    PROVE  VolumeTypes' /\ AlsaInv'
<1>1. /\ redo[t].at = "again" /\ redo' = [redo EXCEPT ![t] = NoRedo] /\ told' = told
      /\ mixer' = mixer
      /\ raced' = (raced \/ ~Quiet \/ event)
  BY DEF AlsaSetAgain
<1> DEFINE l == Wanted(t).level
           m == Wanted(t).muted
<1>2. /\ t \in Threads /\ redo[t] # NoRedo /\ Redoing /\ raced \in BOOLEAN /\ told \in States
      /\ l \in Volumes /\ m \in BOOLEAN /\ event \in BOOLEAN
  <2>1. redo[t].level \in Volumes /\ redo[t].muted \in BOOLEAN
    BY DEF AlsaInv, AlsaTypes, Redos
  <2>2. /\ l = IF redo[t].is = "level" THEN redo[t].level ELSE level
        /\ m = IF redo[t].is = "muted" THEN redo[t].muted ELSE muted
    BY DEF Wanted
  <2>3. l \in Volumes /\ m \in BOOLEAN
    BY <2>1, <2>2 DEF VolumeTypes
  <2> QED  BY <1>1, <2>3 DEF Threads, NoRedo, Redoing, AlsaInv, AlsaTypes, VolumeTypes
<1> HIDE DEF l, m
<1>3. raced' \in BOOLEAN /\ (~raced' => ~raced /\ Quiet /\ ~event)
  BY <1>1, <1>2
<1>4. /\ redo' \in [Callers -> Redos]
      /\ redo'[t] = NoRedo /\ \A u \in Callers \ {t} : redo'[u] = redo[u]
  BY <1>1, NothingToRedo DEF AlsaInv
<1>5. ASSUME ~raced' PROVE (\A u \in Callers : redo'[u] = NoRedo) /\ ~Redoing'
  <2>1. \A u \in Callers : redo'[u] = NoRedo
    BY <1>2, <1>3, <1>4, <1>5 DEF AlsaInv, OneRedoes
  <2> QED  BY <2>1 DEF Redoing
<1>6. OneRedoes'
  BY <1>5 DEF OneRedoes
<1>8. CASE Keep /\ UNCHANGED <<device, event, refused>>
  <2>1. VolumeTypes' /\ AlsaTypes'
    BY <1>1, <1>3, <1>4, <1>8 DEF VolumeTypes, Keep, AlsaInv, AlsaTypes
  <2>2. State' = State /\ (Quiet' <=> Quiet)
    BY <1>8 DEF Keep, State, Quiet
  <2>3. OneSpeaks'
    BY <1>3, <1>8, <2>2 DEF AlsaInv, OneSpeaks, Keep
  <2>4. ASSUME ~raced', ~refused' PROVE told' = State' /\ (mixer' = "ready" => device' = State')
    BY <1>1, <1>3, <1>8, <2>2, <2>4 DEF AlsaInv, AllAgree
  <2>5. AllAgree'
    BY <2>4 DEF AllAgree
  <2> QED  BY <1>6, <2>1, <2>3, <2>5 DEF AlsaInv
<1>9. CASE Change(t, l, m) /\ device' \in States
           /\ \/ event' = TRUE /\ UNCHANGED refused
              \/ refused' = TRUE /\ UNCHANGED <<device, event>>
  <2>1. VolumeTypes' /\ OneSpeaks' /\ ~Quiet'
    BY <1>1, <1>2, <1>3, <1>9, ChangeSpeaks
  <2>2. AlsaTypes'
    BY <1>4, <1>9 DEF AlsaInv, AlsaTypes
  <2>3. ASSUME ~raced', NEW u \in Callers PROVE redo'[u].at # "again"
    BY <1>5, <2>3 DEF NoRedo
  <2>4. AllAgree'
    BY <1>9, <2>1, <2>3 DEF AllAgree
  <2> QED  BY <1>6, <2>1, <2>2, <2>4 DEF AlsaInv
<1>10. CASE Applied(t, l, m) /\ UNCHANGED refused
  <2>1. device' \in States
    BY <1>2, <1>10, AppliedIs
  <2> QED  BY <1>9, <1>10, <2>1 DEF Applied
<1>11. device \in States
  BY DEF VolumeTypes
<1> QED  BY <1>8, <1>9, <1>10, <1>11 DEF AlsaSetAgain, l, m

\* What the mixer has becomes the state, and the thread for events is to tell it.
LEMMA AlsaEventKeeps ==
    ASSUME VolumeTypes, AlsaInv, AlsaEvent
    PROVE  VolumeTypes' /\ AlsaInv'
<1>1. /\ event /\ event' = FALSE /\ UNCHANGED <<device, told, mixer, redo, refused>>
      /\ Change("device", device.level, device.muted) /\ raced' = (raced \/ ~Quiet)
  BY DEF AlsaEvent, Reports
<1>2. /\ device.level \in Volumes /\ device.muted \in BOOLEAN /\ device \in States
      /\ device = [level |-> device.level, muted |-> device.muted]
      /\ "device" \in Threads /\ raced \in BOOLEAN /\ told \in States
  BY DEF VolumeTypes, States, Threads
<1>3. raced' \in BOOLEAN /\ (~raced' => ~raced /\ Quiet)
  BY <1>1, <1>2
<1>4. VolumeTypes' /\ OneSpeaks' /\ ~Quiet'
  BY <1>1, <1>2, <1>3, ChangeSpeaks
<1>5. AlsaTypes'
  BY <1>1 DEF AlsaInv, AlsaTypes
<1>6. ~raced' => ~Redoing /\ ~Redoing'
  BY <1>1, <1>3 DEF AlsaInv, OneRedoes, Redoing
<1>7. OneRedoes'
  BY <1>1, <1>3, <1>6 DEF AlsaInv, OneRedoes
<1>8. device' = State'
  BY <1>1, <1>2 DEF Change, State
<1>9. AllAgree'
  <2>1. ASSUME ~raced', NEW u \in Callers PROVE redo'[u].at # "again"
    BY <1>6, <2>1 DEF Redoing, NoRedo
  <2> QED  BY <1>4, <1>8, <2>1 DEF AllAgree
<1> QED  BY <1>4, <1>5, <1>7, <1>9 DEF AlsaInv

\* Another program changes the mixer, or the card comes and goes.
LEMMA AlsaOutsideKeeps ==
    ASSUME VolumeTypes, AlsaInv, NEW l \in Volumes, NEW m \in BOOLEAN, AlsaTurned(l, m) \/ AlsaPlug
    PROVE  VolumeTypes' /\ AlsaInv'
<1>1. UNCHANGED <<level, muted, say, told, redo, refused>>
  BY DEF AlsaTurned, AlsaPlug
<1>2. /\ State' = State /\ (Quiet' <=> Quiet) /\ (Redoing' <=> Redoing)
      /\ raced \in BOOLEAN /\ event \in BOOLEAN
  BY <1>1 DEF State, Quiet, Redoing, VolumeTypes, AlsaInv, AlsaTypes
<1>3. CASE AlsaTurned(l, m)
  <2>1. /\ event' = (event \/ mixer = "ready") /\ mixer' = mixer
        /\ device' = [level |-> l, muted |-> m] /\ raced' = (raced \/ ~Quiet \/ Redoing)
    BY <1>3 DEF AlsaTurned, Turned
  <2>2. device' \in States /\ raced' \in BOOLEAN /\ (~raced' => ~raced /\ Quiet /\ ~Redoing)
    BY <1>2, <2>1 DEF States
  <2>3. VolumeTypes' /\ AlsaTypes' /\ OneSpeaks'
    BY <1>1, <1>2, <2>1, <2>2 DEF VolumeTypes, AlsaInv, AlsaTypes, OneSpeaks
  <2>4. OneRedoes'
    BY <1>1, <1>2, <2>2 DEF AlsaInv, OneRedoes
  <2>5. ASSUME ~raced', NEW u \in Callers PROVE redo'[u].at # "again"
    BY <1>1, <2>2, <2>5 DEF Redoing, NoRedo
  <2>6. AllAgree'
    BY <1>1, <1>2, <2>1, <2>2, <2>5 DEF AlsaInv, AllAgree
  <2> QED  BY <2>3, <2>4, <2>6 DEF AlsaInv
<1>4. CASE AlsaPlug
  <2>1. UNCHANGED <<device, raced>> /\ event' = FALSE /\ mixer' # "ready"
    BY <1>4 DEF AlsaPlug
  <2>2. VolumeTypes' /\ AlsaTypes' /\ OneSpeaks'
    BY <1>1, <1>2, <2>1 DEF VolumeTypes, AlsaInv, AlsaTypes, OneSpeaks
  <2>3. OneRedoes' /\ AllAgree'
    BY <1>1, <1>2, <2>1 DEF AlsaInv, OneRedoes, AllAgree
  <2> QED  BY <2>2, <2>3 DEF AlsaInv
<1> QED  BY <1>3, <1>4

\* Every step of the plugin for ALSA.
LEMMA AlsaKeeps ==
    ASSUME VolumeTypes, AlsaInv, AlsaVolumeNext
    PROVE  VolumeTypes' /\ AlsaInv'
<1>1. level \in Volumes /\ (~muted) \in BOOLEAN /\ (~device.muted) \in BOOLEAN
  BY DEF VolumeTypes
<1>2. /\ muted \in BOOLEAN /\ device.muted \in BOOLEAN /\ device.level \in Volumes
      /\ \A l \in Levels : l \in Volumes
  BY LevelsAssumption DEF VolumeTypes, States
<1>3. ASSUME NEW t \in Threads, Tell(t), UNCHANGED mixerVars
      PROVE  VolumeTypes' /\ AlsaInv'
  <2>1. UNCHANGED <<level, muted, device, raced, mixer, redo, event, refused>>
    BY <1>3 DEF Tell, mixerVars
  <2>2. /\ VolumeTypes' /\ OneSpeaks' /\ State' = State /\ ~Quiet
        /\ ~raced' => told' = State'
    BY <1>3, TellSpeaks DEF AlsaInv
  <2>3. AlsaTypes' /\ (Redoing' <=> Redoing)
    BY <2>1 DEF AlsaInv, AlsaTypes, Redoing
  <2>4. ~raced => ~Redoing
    BY <2>2 DEF AlsaInv, OneRedoes
  <2>5. OneRedoes'
    BY <2>1, <2>3, <2>4 DEF AlsaInv, OneRedoes
  <2>6. AllAgree'
    BY <2>1, <2>2, <2>3 DEF AlsaInv, AllAgree
  <2> QED  BY <2>2, <2>3, <2>5, <2>6 DEF AlsaInv
<1>4. ASSUME NEW t \in Callers, NEW l \in Levels, AlsaSet(t, l, muted)
      PROVE  VolumeTypes' /\ AlsaInv'
  BY <1>2, <1>4, AlsaSetKeeps
<1>5. ASSUME NEW t \in Callers, AlsaSet(t, level, ~muted)
      PROVE  VolumeTypes' /\ AlsaInv'
  BY <1>1, <1>5, AlsaSetKeeps
<1>6. ASSUME NEW l \in Levels, AlsaTurned(l, device.muted)
      PROVE  VolumeTypes' /\ AlsaInv'
  BY <1>2, <1>6, AlsaOutsideKeeps
<1>7. ASSUME AlsaTurned(device.level, ~device.muted)
      PROVE  VolumeTypes' /\ AlsaInv'
  BY <1>1, <1>2, <1>7, AlsaOutsideKeeps
<1>8. ASSUME AlsaPlug
      PROVE  VolumeTypes' /\ AlsaInv'
  BY <1>1, <1>2, <1>8, AlsaOutsideKeeps
<1> QED  BY <1>3, <1>4, <1>5, <1>6, <1>7, <1>8, AlsaStopsKeeps, AlsaOpenKeeps, AlsaSetAgainKeeps,
            AlsaEventKeeps DEF AlsaVolumeNext

-----------------------------------------------------------------------------
(***************************************************************************)
(* The source selection                                                    *)
(***************************************************************************)

Ats == {"none", "connect", "greeting", "status", "stop", "poll", "success", "fail", "wait",
        "select", "done"}

SelectionTypes ==
    /\ seq \in 0..MaxSources
    /\ request \in [sources -> [at : Ats, polls : Int]]
    /\ answers \in [sources -> {<<>>, <<"success">>, <<"error">>}]
    /\ status \in {"selected", "deselected", "standby"}
    /\ unlocked \in BOOLEAN

\* A request that is about to select its source has heard that it is free, and is answered at
\* its end; those that were not made have not begun.
Requests ==
    \A r \in sources :
        /\ r > seq => request[r].at = "none"
        /\ request[r].at \in {"success", "wait", "select"} => r \in sure
        /\ request[r].at = "done" <=> answers[r] # <<>>
        /\ answers[r] = <<"success">> => r \in sure

\* What Roon's thread is about to tell is the status, if nobody else told one.
StatusIsTold ==
    ~unlocked => /\ standby = "none" => heard = status
                 /\ standby \notin {"none", "set"} => standby = status

SelectionInv == SelectionTypes /\ Requests /\ StatusIsTold

\* A status that is set and told under the lock.
LEMMA BecomesTold ==
    ASSUME SelectionTypes, StatusIsTold, NEW s \in {"selected", "deselected", "standby"},
           Becomes(s), standby' = standby
    PROVE  status' \in {"selected", "deselected", "standby"} /\ unlocked' \in BOOLEAN /\ StatusIsTold'
<1>1. status' = s /\ heard' = s /\ unlocked' = (unlocked \/ standby \notin {"none", "set"})
  BY DEF Becomes
<1>2. unlocked \in BOOLEAN
  BY DEF SelectionTypes
<1> QED  BY <1>1, <1>2 DEF StatusIsTold

\* One request goes to another place, and is answered if that is its end; sure grows.
LEMMA RequestGoes ==
    ASSUME SelectionTypes, Requests, NEW r \in sources, NEW place \in Ats, NEW p \in Int,
           request' = [request EXCEPT ![r] = [at |-> place, polls |-> p]],
           NEW a \in {<<>>, <<"success">>, <<"error">>}, answers' = [answers EXCEPT ![r] = a],
           seq' \in 0..MaxSources, seq <= seq', r <= seq',
           sure \subseteq sure',
           place \in {"success", "wait", "select"} => r \in sure',
           place = "done" <=> a # <<>>,
           a = <<"success">> => r \in sure'
    PROVE  /\ request' \in [sources -> [at : Ats, polls : Int]]
           /\ answers' \in [sources -> {<<>>, <<"success">>, <<"error">>}]
           /\ Requests'
<1>1. MaxSources \in Nat /\ seq \in Nat /\ seq' \in Nat /\ r \in Nat
  BY SelectionAssumption DEF SelectionTypes, sources
<1> DEFINE q == [at |-> place, polls |-> p]
<1>2. q \in [at : Ats, polls : Int] /\ q.at = place
  OBVIOUS
<1> HIDE DEF q
<1>3. /\ request' \in [sources -> [at : Ats, polls : Int]]
      /\ request'[r] = q /\ \A u \in sources \ {r} : request'[u] = request[u]
  BY <1>2 DEF SelectionTypes, q
<1>4. /\ answers' \in [sources -> {<<>>, <<"success">>, <<"error">>}]
      /\ answers'[r] = a /\ \A u \in sources \ {r} : answers'[u] = answers[u]
  BY DEF SelectionTypes
<1>5. ASSUME NEW u \in sources
      PROVE  /\ u > seq' => request'[u].at = "none"
             /\ request'[u].at \in {"success", "wait", "select"} => u \in sure'
             /\ request'[u].at = "done" <=> answers'[u] # <<>>
             /\ answers'[u] = <<"success">> => u \in sure'
  <2>1. CASE u = r
    <3>1. ~(u > seq')
      BY <1>1, <2>1
    <3> QED  BY <1>2, <1>3, <1>4, <2>1, <3>1
  <2>2. CASE u # r
    <3>1. u \in Nat /\ (u > seq' => u > seq)
      BY <1>1 DEF sources
    <3> QED  BY <1>3, <1>4, <2>2, <3>1 DEF Requests
  <2> QED  BY <2>1, <2>2
<1> QED  BY <1>3, <1>4, <1>5 DEF Requests, sources

\* A step of a request that is under way: it goes to another place, with its polls.
Advances(r, place, p) == request' = [request EXCEPT ![r] = [at |-> place, polls |-> p]]

\* A request with one of its parts changed.
LEMMA RequestParts ==
    ASSUME NEW q \in [at : Ats, polls : Int], NEW x
    PROVE  /\ [q EXCEPT !.at = x] = [at |-> x, polls |-> q.polls]
           /\ [q EXCEPT !.polls = x] = [at |-> q.at, polls |-> x]
OBVIOUS

\* Where a request may go on its thread, before it selects or fails.
LEMMA RequestAdvances ==
    ASSUME SelectionInv, NEW r \in sources, request[r].at # "none",
           ConnectMpd(r) \/ TurnedAway(r) \/ Answers(r) \/ SwitchPanel(r) \/ Waited(r)
    PROVE  /\ UNCHANGED <<status, seq, standby, heard, unlocked, answers>>
           /\ request[r].at # "done" /\ sure \subseteq sure'
           /\ \E place \in Ats \ {"done"}, p \in Int :
                 /\ Advances(r, place, p)
                 /\ place \in {"success", "wait", "select"} => r \in sure'
<1>1. request[r] \in [at : Ats, polls : Int] /\ request[r].polls \in Int
  BY DEF SelectionInv, SelectionTypes
<1>2. ASSUME NEW place, Goes(r, place) PROVE Advances(r, place, request[r].polls)
  <2>1. [request[r] EXCEPT !.at = place] = [at |-> place, polls |-> request[r].polls]
    BY <1>1, RequestParts
  <2> QED  BY <1>2, <2>1 DEF Goes, Advances
<1>3. request[r].at \in {"success", "wait", "select"} => r \in sure
  BY DEF SelectionInv, Requests
<1>4. CASE ConnectMpd(r)
  <2>1. /\ UNCHANGED <<status, seq, standby, heard, unlocked, answers>>
        /\ request[r].at = "connect"
        /\ \/ Goes(r, "success") /\ sure' = sure \union {r}
           \/ Goes(r, "greeting") /\ UNCHANGED sure
           \/ Goes(r, "fail") /\ UNCHANGED sure
    BY <1>4 DEF ConnectMpd
  <2>2. {"success", "greeting", "fail"} \subseteq Ats \ {"done"}
    BY DEF Ats
  <2> QED  BY <1>1, <1>2, <2>1, <2>2
<1>5. CASE TurnedAway(r)
  <2>1. "fail" \in Ats \ {"done"} /\ request[r].at # "done"
    BY <1>5 DEF Ats, TurnedAway, Asks
  <2>2. UNCHANGED <<status, seq, standby, heard, unlocked, answers, sure>> /\ Goes(r, "fail")
    BY <1>5 DEF TurnedAway
  <2> QED  BY <1>1, <1>2, <2>1, <2>2
<1>6. CASE Answers(r)
  <2>1. /\ UNCHANGED <<status, seq, standby, heard, unlocked, answers>>
        /\ request[r].at # "done"
    BY <1>6 DEF Answers, Asks
  <2>2. {"status", "poll", "success", "stop", "fail"} \subseteq Ats \ {"done"}
    BY DEF Ats
  <2>3. CASE request[r].at = "greeting"
    <3>1. Goes(r, "status") /\ UNCHANGED sure
      BY <1>6, <2>3 DEF Answers
    <3> QED  BY <1>1, <1>2, <2>1, <2>2, <3>1
  <2>4. CASE request[r].at = "stop"
    <3>1. Goes(r, "poll") /\ UNCHANGED sure
      BY <1>6, <2>4 DEF Answers
    <3> QED  BY <1>1, <1>2, <2>1, <2>2, <3>1
  <2>5. CASE request[r].at \notin {"greeting", "stop"}
    <3>1. /\ sure' = IF mpd = "stopped" THEN sure \union {r} ELSE sure
          /\ IF mpd = "stopped" THEN Goes(r, "success")
             ELSE IF request[r].at = "status" THEN Goes(r, "stop")
             ELSE IF request[r].polls = 1 THEN Goes(r, "fail")
             ELSE request' = [request EXCEPT ![r].polls = @ - 1]
      BY <1>6, <2>5 DEF Answers, Stopped
    <3>2. CASE \/ Goes(r, "success") /\ sure' = sure \union {r}
               \/ Goes(r, "stop") /\ UNCHANGED sure
               \/ Goes(r, "fail") /\ UNCHANGED sure
      BY <1>1, <1>2, <2>1, <2>2, <3>2
    <3>3. CASE /\ request' = [request EXCEPT ![r].polls = @ - 1] /\ UNCHANGED sure
               /\ request[r].at # "status"
      <4>1. request[r].at = "poll"
        BY <1>6, <2>5, <3>3 DEF Answers, Asks
      <4>2. Advances(r, "poll", request[r].polls - 1)
        <5>1. [request[r] EXCEPT !.polls = request[r].polls - 1]
                 = [at |-> "poll", polls |-> request[r].polls - 1]
          BY <1>1, <4>1, RequestParts
        <5> QED  BY <3>3, <5>1 DEF Advances
      <4> QED  BY <1>1, <2>1, <2>2, <3>3, <4>2
    <3> QED  BY <3>1, <3>2, <3>3
  <2> QED  BY <2>3, <2>4, <2>5
<1>7. CASE SwitchPanel(r)
  <2>1. {"wait", "select"} \subseteq Ats \ {"done"}
    BY DEF Ats
  <2>2. /\ UNCHANGED <<status, seq, standby, heard, unlocked, answers, sure>>
        /\ request[r].at = "success" /\ (Goes(r, "wait") \/ Goes(r, "select"))
    BY <1>7 DEF SwitchPanel
  <2> QED  BY <1>1, <1>2, <1>3, <2>1, <2>2
<1>8. CASE Waited(r)
  <2>1. "select" \in Ats \ {"done"}
    BY DEF Ats
  <2>2. /\ UNCHANGED <<status, seq, standby, heard, unlocked, answers, sure>>
        /\ request[r].at = "wait" /\ Goes(r, "select")
    BY <1>8 DEF Waited
  <2> QED  BY <1>1, <1>2, <1>3, <2>1, <2>2
<1> QED  BY <1>4, <1>5, <1>6, <1>7, <1>8

\* Every step of the source selection.
LEMMA SelectionKeeps ==
    ASSUME SelectionInv, SelectionNext
    PROVE  SelectionInv'
<1>1. /\ MaxSources \in Nat /\ MaxPolls \in Nat /\ seq \in 0..MaxSources
      /\ SelectionTypes /\ Requests /\ StatusIsTold
  BY SelectionAssumption DEF SelectionInv, SelectionTypes
<1>2. ASSUME UNCHANGED <<seq, request, answers, sure>> PROVE Requests'
  BY <1>1, <1>2 DEF Requests, sources
<1>3. CASE RequestSource
  <2>1. /\ seq < MaxSources /\ seq' = seq + 1
        /\ request' = [request EXCEPT ![seq + 1] = [at |-> "connect", polls |-> MaxPolls]]
        /\ UNCHANGED <<status, standby, heard, unlocked, answers, sure>>
    BY <1>3 DEF RequestSource
  <2>2. PICK r \in sources : r = seq + 1
    BY <1>1, <2>1 DEF sources
  <2>3. r > seq /\ seq <= seq' /\ r <= seq' /\ seq' \in 0..MaxSources /\ MaxPolls \in Int
    BY <1>1, <2>1, <2>2
  <2>4. request[r].at = "none"
    BY <1>1, <2>3 DEF Requests
  <2>5. answers[r] = <<>> /\ answers' = [answers EXCEPT ![r] = <<>>]
    <3>1. answers[r] = <<>>
      BY <1>1, <2>4 DEF Requests
    <3> QED  BY <1>1, <2>1, <3>1 DEF SelectionTypes
  <2>6. /\ request' = [request EXCEPT ![r] = [at |-> "connect", polls |-> MaxPolls]]
        /\ "connect" \in Ats
    BY <2>1, <2>2 DEF Ats
  <2>7. <<>> # <<"success">>
    OBVIOUS
  <2> DEFINE none == <<>>
             place == "connect"
  <2>8. none \in {<<>>, <<"success">>, <<"error">>} /\ none # <<"success">> /\ place \notin {"success", "wait", "select", "done"}
    BY <2>7
  <2>9. /\ request' \in [sources -> [at : Ats, polls : Int]]
        /\ answers' \in [sources -> {<<>>, <<"success">>, <<"error">>}]
        /\ Requests'
    BY <1>1, <2>1, <2>3, <2>5, <2>6, <2>8, RequestGoes
  <2> QED  BY <1>1, <2>1, <2>3, <2>9 DEF SelectionInv, SelectionTypes, StatusIsTold
<1>4. CASE RequestStandby \/ ReadStandby \/ TellStandby
  <2>1. UNCHANGED <<seq, request, answers, sure, unlocked>> /\ status' \in {status, "standby"}
    BY <1>4 DEF RequestStandby, ReadStandby, TellStandby
  <2>2. StatusIsTold'
    BY <1>1, <1>4 DEF RequestStandby, ReadStandby, TellStandby, StatusIsTold, SelectionTypes
  <2> QED  BY <1>1, <1>2, <2>1, <2>2 DEF SelectionInv, SelectionTypes
<1>5. CASE TellPanel \/ Mpd
  <2>1. UNCHANGED <<seq, request, answers, sure, unlocked, status, heard, standby>>
    BY <1>5 DEF TellPanel, Mpd
  <2> QED  BY <1>1, <1>2, <2>1 DEF SelectionInv, SelectionTypes, StatusIsTold
<1>6. ASSUME NEW s \in {"standby", "back", "switch away"}, PanelSays(s) PROVE SelectionInv'
  <2>1. UNCHANGED <<seq, request, answers, sure, standby>>
    BY <1>6 DEF PanelSays
  <2>2. Becomes("standby") \/ Becomes("deselected")
    BY <1>6 DEF PanelSays
  <2>3. status' \in {"selected", "deselected", "standby"} /\ unlocked' \in BOOLEAN /\ StatusIsTold'
    BY <1>1, <2>1, <2>2, BecomesTold
  <2> QED  BY <1>1, <1>2, <2>1, <2>3 DEF SelectionInv, SelectionTypes
<1>7. ASSUME NEW r \in sources,
             ConnectMpd(r) \/ TurnedAway(r) \/ Answers(r) \/ SwitchPanel(r) \/ Waited(r)
      PROVE  SelectionInv'
  <2>1. request[r].at # "none"
    BY <1>7 DEF ConnectMpd, TurnedAway, Answers, SwitchPanel, Waited, Asks
  <2>2. /\ UNCHANGED <<status, seq, standby, heard, unlocked, answers>>
        /\ request[r].at # "done" /\ sure \subseteq sure'
        /\ \E place \in Ats \ {"done"}, p \in Int :
              /\ Advances(r, place, p)
              /\ place \in {"success", "wait", "select"} => r \in sure'
    BY <1>7, <2>1, RequestAdvances
  <2>3. PICK place \in Ats \ {"done"}, p \in Int :
           /\ Advances(r, place, p)
           /\ place \in {"success", "wait", "select"} => r \in sure'
    BY <2>2
  <2>4. answers[r] = <<>>
    BY <1>1, <2>2 DEF Requests
  <2>5. answers' = [answers EXCEPT ![r] = <<>>]
    BY <1>1, <2>2, <2>4 DEF SelectionTypes
  <2>6. r <= seq
    <3>1. r \in Nat /\ seq \in Nat
      BY <1>1 DEF sources
    <3> QED  BY <1>1, <2>1, <3>1 DEF Requests
  <2>7. /\ request' \in [sources -> [at : Ats, polls : Int]]
        /\ answers' \in [sources -> {<<>>, <<"success">>, <<"error">>}]
        /\ Requests'
    <3> DEFINE none == <<>>
    <3>1. none \in {<<>>, <<"success">>, <<"error">>} /\ none # <<"success">> /\ ~(none # <<>>)
      OBVIOUS
    <3>2. seq' \in 0..MaxSources /\ seq <= seq' /\ r <= seq'
      BY <1>1, <2>2, <2>6
    <3>3. request' = [request EXCEPT ![r] = [at |-> place, polls |-> p]]
      BY <2>3 DEF Advances
    <3> QED  BY <1>1, <2>2, <2>3, <2>5, <3>1, <3>2, <3>3, RequestGoes
  <2> QED  BY <1>1, <2>2, <2>7 DEF SelectionInv, SelectionTypes, StatusIsTold
<1>8. ASSUME NEW r \in sources, Selects(r) \/ Fails(r) PROVE SelectionInv'
  <2>1. /\ UNCHANGED <<seq, standby, sure>> /\ Goes(r, "done")
        /\ request[r].at \in {"select", "fail"}
    BY <1>8 DEF Selects, Fails
  <2>2. PICK a \in {<<"success">>, <<"error">>} :
           /\ answers' = [answers EXCEPT ![r] = Append(@, a[1])]
           /\ a = <<"success">> => request[r].at = "select"
    <3>1. CASE Selects(r)
      <4>1. answers' = [answers EXCEPT ![r] = Append(@, "success")] /\ request[r].at = "select"
        BY <3>1 DEF Selects
      <4> QED  BY <4>1
    <3>2. CASE Fails(r)
      <4>1. answers' = [answers EXCEPT ![r] = Append(@, "error")] /\ <<"error">> # <<"success">>
        BY <3>2 DEF Fails
      <4> QED  BY <4>1
    <3> QED  BY <1>8, <3>1, <3>2
  <2>3. answers[r] = <<>>
    BY <1>1, <2>1 DEF Requests
  <2>4. Append(<<>>, a[1]) = a
    OBVIOUS
  <2>5. answers' = [answers EXCEPT ![r] = a]
    BY <1>1, <2>2, <2>3, <2>4 DEF SelectionTypes
  <2>6. a = <<"success">> => r \in sure'
    BY <1>1, <2>1, <2>2 DEF Requests
  <2>7. PICK p \in Int : request' = [request EXCEPT ![r] = [at |-> "done", polls |-> p]]
    <3>1. request[r].polls \in Int /\ request[r] \in [at : Ats, polls : Int]
      BY <1>1 DEF SelectionTypes
    <3>2. [request[r] EXCEPT !.at = "done"] = [at |-> "done", polls |-> request[r].polls]
      BY <3>1, RequestParts
    <3> QED  BY <2>1, <3>1, <3>2 DEF Goes
  <2>8. r <= seq
    <3>1. r \in Nat /\ seq \in Nat
      BY <1>1 DEF sources
    <3> QED  BY <1>1, <2>1, <3>1 DEF Requests
  <2>9. a # <<>> /\ a \in {<<>>, <<"success">>, <<"error">>} /\ "done" \in Ats
    BY DEF Ats
  <2>10. /\ request' \in [sources -> [at : Ats, polls : Int]]
         /\ answers' \in [sources -> {<<>>, <<"success">>, <<"error">>}]
         /\ Requests'
    <3> DEFINE place == "done"
    <3>1. place \notin {"success", "wait", "select"} /\ place = "done" /\ place \in Ats
      BY <2>9
    <3>2. seq' \in 0..MaxSources /\ seq <= seq' /\ r <= seq' /\ sure \subseteq sure'
      BY <1>1, <2>1, <2>8
    <3>3. request' = [request EXCEPT ![r] = [at |-> place, polls |-> p]]
      BY <2>7
    <3> HIDE DEF place
    <3> QED  BY <1>1, <2>5, <2>6, <2>9, <3>1, <3>2, <3>3, RequestGoes
  <2>11. status' \in {"selected", "deselected", "standby"} /\ unlocked' \in BOOLEAN /\ StatusIsTold'
    <3>1. Becomes("selected") \/ UNCHANGED <<status, heard, unlocked>>
      BY <1>8 DEF Selects, Fails
    <3>2. CASE Becomes("selected")
      BY <1>1, <2>1, <3>2, BecomesTold
    <3>3. CASE UNCHANGED <<status, heard, unlocked>>
      BY <1>1, <2>1, <3>3 DEF SelectionTypes, StatusIsTold
    <3> QED  BY <3>1, <3>2, <3>3
  <2> QED  BY <1>1, <2>1, <2>10, <2>11 DEF SelectionInv, SelectionTypes
<1> QED  BY <1>3, <1>4, <1>5, <1>6, <1>7, <1>8 DEF SelectionNext

-----------------------------------------------------------------------------
(***************************************************************************)
(* The clock of the buffers                                                *)
(***************************************************************************)

Drifts ==
    [active : BOOLEAN, corrected : Int, slots : [0..MaxErrors - 1 -> Int], total : Int,
     count : 0..MaxErrors, pos : 0..MaxErrors, accum : Nat, base : Int, last : Int, since : Int,
     from : Int]

\* With an error that was just noted
Noting ==
    [active : BOOLEAN, corrected : Int, slots : [0..MaxErrors - 1 -> Int], total : Int,
     count : 0..MaxErrors, pos : Nat, accum : Nat, base : Int, last : Int, since : Int,
     from : Int]

\* The moving average grows by one error at a time, and is over one at least when it is taken.
Averages(d) == /\ d.count = 0 => d.accum = 0
               /\ Collects(d) => d.pos = d.count

PlaybackTypes ==
    /\ type \in {"pcm", "dsd"} /\ clock \in Int /\ running \in BOOLEAN /\ newStream \in BOOLEAN
    /\ startTime \in Int /\ startSample \in Nat /\ position \in Int /\ made \in Int
    /\ drift \in Drifts /\ Averages(drift)

PlaybackInv == PlaybackTypes /\ PlaysOnTime

\* What is aligned is a multiple of a byte for DSD, and less than a byte before what it was.
LEMMA AlignedIs ==
    ASSUME type \in {"pcm", "dsd"}, NEW n \in Int
    PROVE  /\ Align \in {1, 8} /\ Aligned(n) \in Int /\ Aligned(n) % Align = 0
           /\ Aligned(n) <= n /\ n < Aligned(n) + Align
<1>1. CASE type = "dsd"
  BY <1>1 DEF Align, Aligned
<1>2. CASE type = "pcm"
  BY <1>2 DEF Align, Aligned
<1> QED  BY <1>1, <1>2

\* Sums and differences of whole bytes are whole bytes.
LEMMA WholeBytes ==
    ASSUME type \in {"pcm", "dsd"}, NEW a \in Int, NEW b \in Int, a % Align = 0, b % Align = 0
    PROVE  (a + b) % Align = 0 /\ (a - b) % Align = 0
<1>1. CASE type = "dsd"
  BY <1>1 DEF Align
<1>2. CASE type = "pcm"
  BY <1>2 DEF Align
<1> QED  BY <1>1, <1>2

\* A quotient of C is a whole number.
LEMMA QuotientIs ==
    ASSUME NEW a \in Int, NEW b \in Nat \ {0}
    PROVE  Quotient(a, b) \in Int /\ a \div b \in Int /\ a % b \in 0..b - 1
BY DEF Quotient

\* A correction is of whole bytes.
LEMMA AmountIs ==
    ASSUME type \in {"pcm", "dsd"}, NEW d \in Drifts
    PROVE  Amount(d) \in Int /\ Amount(d) % Align = 0 /\ (-Amount(d)) % Align = 0
<1>1. Period \in Nat /\ Error(d) \in Int /\ Size(Error(d)) \in Nat /\ Slower(d) \in Int
  BY PlaybackAssumption, SMTT(30) DEF Period, Error, Size, Slower, Drifts
<1>2. ASSUME Slower(d) > 0 PROVE (3 * Period * Size(Error(d))) \div (2 * Slower(d)) \in Int
  <2>1. 2 * Slower(d) \in Nat \ {0} /\ 3 * Period * Size(Error(d)) \in Int
    BY <1>1, <1>2
  <2> QED  BY <2>1, QuotientIs
<1>3. MaxCorrection(d) \in Int
  BY <1>1, <1>2 DEF MaxCorrection, Larger
<1> DEFINE c == MaxCorrection(d)
<1>4. CASE type = "dsd"
  <2>1. Align = 8 /\ Amount(d) = ((c + 8 - 1) \div 8) * 8
    BY <1>4 DEF Align, Amount
  <2> HIDE DEF c
  <2> QED  BY <1>3, <2>1 DEF c
<1>5. CASE type = "pcm"
  <2>1. Align = 1 /\ Amount(d) = ((c + 1 - 1) \div 1) * 1
    BY <1>5 DEF Align, Amount
  <2> HIDE DEF c
  <2> QED  BY <1>3, <2>1 DEF c
<1> QED  BY <1>4, <1>5

\* An error is noted in the next slot.
LEMMA NotedIs ==
    ASSUME NEW d \in Drifts
    PROVE  /\ Noted(d).active = d.active /\ Noted(d).corrected = d.corrected
           /\ Noted(d).count = d.count /\ Noted(d).accum = d.accum
           /\ Noted(d).base = d.base /\ Noted(d).last = d.last /\ Noted(d).since = d.since
           /\ Noted(d).from = d.from
           /\ Noted(d).slots \in [0..MaxErrors - 1 -> Int] /\ Noted(d).total \in Int
           /\ Noted(d).pos = d.pos + 1
           /\ Noted(d) \in Noting
<1> DEFINE e == Error(d)
           k == d.pos + 1
           t == d.total + e
<1>1. /\ e \in Int /\ k \in Nat /\ t \in Int /\ d.pos \in 0..MaxErrors /\ MaxErrors \in Nat \ {0}
      /\ d.slots \in [0..MaxErrors - 1 -> Int]
  BY PlaybackAssumption, SMTT(30) DEF Error, Drifts
<1>2. CASE d.pos = MaxErrors
  <2>1. Noted(d) = [d EXCEPT !.total = e, !.pos = k]
    BY <1>2 DEF Noted
  <2> HIDE DEF e, k
  <2>2. [d EXCEPT !.total = e, !.pos = k] \in Noting
    BY <1>1 DEF Drifts, Noting
  <2> QED  BY <2>1, <2>2 DEF k, Drifts, Noting
<1>3. CASE d.pos # MaxErrors
  <2>1. d.pos \in 0..MaxErrors - 1
    BY <1>1, <1>3
  <2> DEFINE s == [d.slots EXCEPT ![d.pos] = e]
  <2>2. Noted(d) = [d EXCEPT !.total = t, !.slots = s, !.pos = k]
    BY <1>3 DEF Noted, Drifts
  <2>3. s \in [0..MaxErrors - 1 -> Int]
    BY <1>1, <2>1
  <2> HIDE DEF e, k, t, s
  <2>4. [d EXCEPT !.total = t, !.slots = s, !.pos = k] \in Noting
    BY <1>1, <2>3 DEF Drifts, Noting
  <2> QED  BY <1>1, <2>2, <2>3, <2>4 DEF k, Drifts
<1> QED  BY <1>2, <1>3

\* What the drift correction computes: a correction of whole bytes, from a moving average that
\* has one error at least.
LEMMA ComputedIs ==
    ASSUME type \in {"pcm", "dsd"}, NEW d \in Drifts, Averages(d)
    PROVE  /\ Computed(d).drift \in Drifts /\ Averages(Computed(d).drift)
           /\ Computed(d).by \in Int /\ Computed(d).by % Align = 0
<1>1. /\ Period \in Nat \ {0} /\ 0 % Align = 0 /\ MaxErrors \in Nat \ {0} /\ Window \in Nat \ {0}
      /\ Threshold \in Nat
  BY PlaybackAssumption DEF Period, Align
<1> DEFINE noted == Noted(d)
           pos == noted.pos % d.count
           full == [noted EXCEPT !.pos = pos, !.total = @ - noted.slots[pos]]
<1>2. /\ d.pos \in 0..MaxErrors /\ d.count \in 0..MaxErrors /\ d.accum \in Nat
      /\ d.active \in BOOLEAN
  BY DEF Drifts
<1>3. CASE ~d.active
  <2>1. Computed(d).drift = d /\ Computed(d).by = 0
    BY <1>3 DEF Computed
  <2> QED  BY <1>1, <2>1
<1>4. CASE d.active /\ Collects(d)
  <2> DEFINE n == [noted EXCEPT !.accum = @ + Period, !.count = @ + 1]
  <2>1. Computed(d).drift = n /\ Computed(d).by = 0
    BY <1>4 DEF Computed
  <2>2. d.count < MaxErrors /\ d.pos = d.count
    BY <1>4 DEF Collects, Averages
  <2>3. /\ noted.pos \in 0..MaxErrors /\ noted.count + 1 \in 0..MaxErrors
        /\ noted.pos = d.count + 1 /\ noted.count = d.count /\ noted.accum = d.accum
    BY <1>1, <1>2, <2>2, NotedIs
  <2>4. noted \in Drifts
    BY <1>2, <2>3, NotedIs DEF Drifts, Noting
  <2>5. noted.accum + Period \in Nat
    BY <1>1, <1>2, <2>3
  <2>6. n \in Drifts
    BY <2>3, <2>4, <2>5 DEF Drifts
  <2>7. n.count = d.count + 1 /\ n.pos = d.count + 1
    BY <2>3, <2>4 DEF Drifts
  <2>8. Averages(n)
    BY <1>2, <2>7 DEF Averages
  <2> QED  BY <1>1, <2>1, <2>6, <2>8
<1>5. CASE d.active /\ ~Collects(d)
  <2>1. Computed(d).drift = [full EXCEPT !.corrected = @ + Correction(full)]
        /\ Computed(d).by = Correction(full)
    BY <1>5 DEF Computed
  <2>2. d.count \in Nat \ {0}
    BY <1>1, <1>2, <1>5 DEF Collects, Averages
  <2>3. noted.pos \in Int /\ noted.slots \in [0..MaxErrors - 1 -> Int] /\ noted.total \in Int
    BY <1>2, NotedIs
  <2>4. pos \in 0..d.count - 1
    BY <2>2, <2>3, QuotientIs
  <2>5. pos \in 0..MaxErrors /\ pos \in 0..MaxErrors - 1
    BY <1>1, <1>2, <2>4
  <2>6. noted.total - noted.slots[pos] \in Int
    <3>1. PICK q \in 0..MaxErrors - 1 : q = pos
      BY <2>5
    <3> HIDE DEF noted
    <3>2. noted.slots[q] \in Int
      BY <2>3
    <3> QED  BY <2>3, <3>1, <3>2
  <2>7. full \in Drifts /\ full.count = d.count /\ full.accum = d.accum
    <3> DEFINE p == pos
               t == noted.total - noted.slots[pos]
    <3>1. p \in 0..MaxErrors /\ t \in Int
      BY <2>5, <2>6
    <3>2. noted.count = d.count /\ noted.accum = d.accum
      BY NotedIs
    <3>3. /\ noted \in Noting
          /\ full = [noted EXCEPT !.pos = p, !.total = t]
      BY NotedIs
    <3> HIDE DEF p, t, noted
    <3>4. [noted EXCEPT !.pos = p, !.total = t] \in Drifts
      BY <3>1, <3>3 DEF Drifts, Noting
    <3>5. /\ [noted EXCEPT !.pos = p, !.total = t].count = noted.count
          /\ [noted EXCEPT !.pos = p, !.total = t].accum = noted.accum
      BY <3>3 DEF Noting
    <3> QED  BY <3>2, <3>3, <3>4, <3>5
  <2> DEFINE f == full
  <2>8. f \in Drifts /\ f.count = d.count /\ f.accum = d.accum /\ Computed(d).by = Correction(f)
        /\ Computed(d).drift = [f EXCEPT !.corrected = @ + Correction(f)]
    BY <2>1, <2>7
  <2> HIDE DEF f
  <2>9. Correction(f) \in Int /\ Correction(f) % Align = 0
    <3>1. Correction(f) \in {0, Amount(f), -Amount(f)}
      BY DEF Correction
    <3> QED  BY <1>1, <2>8, <3>1, AmountIs
  <2>10. /\ Computed(d).drift \in Drifts /\ Computed(d).drift.count = d.count
         /\ Computed(d).drift.accum = d.accum
    <3> DEFINE c == f.corrected + Correction(f)
    <3>1. c \in Int /\ Computed(d).drift = [f EXCEPT !.corrected = c]
      BY <2>8, <2>9, SMTT(30) DEF Drifts
    <3> HIDE DEF c
    <3> QED  BY <2>8, <3>1 DEF Drifts
  <2>11. Averages(Computed(d).drift)
    BY <1>2, <1>5, <2>2, <2>10 DEF Averages, Collects
  <2> QED  BY <2>8, <2>9, <2>10, <2>11
<1> QED  BY <1>2, <1>3, <1>4, <1>5

\* The time t in samples: less than a sample, or a byte of them, is lost.
LEMMA SamplesOfTime ==
    ASSUME type \in {"pcm", "dsd"}, NEW t \in Nat
    PROVE  /\ ToSamples(t) \in Int /\ ToSamples(t) % Align = 0 /\ Align \in {1, 8}
           /\ ToSamples(t) * Ticks <= t /\ t < ToSamples(t) * Ticks + Align * Ticks
<1>1. Ticks \in Nat \ {0}
  BY PlaybackAssumption
<1>2. PICK q \in Int : q = t \div Ticks /\ q * Ticks <= t /\ t < q * Ticks + Ticks
  <2>1. t \div Ticks \in Int /\ (t \div Ticks) * Ticks <= t /\ t < (t \div Ticks) * Ticks + Ticks
    BY <1>1
  <2> QED  BY <2>1
<1>3. /\ Align \in {1, 8} /\ Aligned(q) \in Int /\ Aligned(q) % Align = 0
      /\ Aligned(q) <= q /\ q < Aligned(q) + Align
  BY AlignedIs
<1>4. PICK k \in 0..Align - 1 : q = Aligned(q) + k
  <2>1. q - Aligned(q) \in 0..Align - 1 /\ q = Aligned(q) + (q - Aligned(q))
    BY <1>3
  <2> QED  BY <2>1
<1>5. /\ k * Ticks >= 0 /\ k * Ticks + Ticks <= Align * Ticks
      /\ q * Ticks = Aligned(q) * Ticks + k * Ticks
  <2>1. k \in Int /\ 0 <= k /\ k + 1 <= Align /\ Align \in Int
    BY <1>3, <1>4
  <2>2. k * Ticks >= 0
    BY <1>1, <2>1
  <2>3. (k + 1) * Ticks <= Align * Ticks /\ (k + 1) * Ticks = k * Ticks + Ticks
    <3>1. CASE Align = 1
      BY <1>1, <2>1, <3>1
    <3>2. CASE Align = 8
      <4>1. k \in {0, 1, 2, 3, 4, 5, 6, 7}
        BY <2>1, <3>2
      <4> QED  BY <1>1, <3>2, <4>1
    <3> QED  BY <1>3, <3>1, <3>2
  <2>4. q * Ticks = (Aligned(q) + k) * Ticks
    BY <1>4
  <2>5. (Aligned(q) + k) * Ticks = Aligned(q) * Ticks + k * Ticks
    BY <1>1, <1>3, <2>1
  <2> QED  BY <2>2, <2>3, <2>4, <2>5
<1>6. ToSamples(t) = Aligned(q)
  BY <1>2 DEF ToSamples
<1>7. Aligned(q) * Ticks \in Int /\ k * Ticks \in Int /\ Align * Ticks \in Int
  BY <1>1, <1>3, <1>4
<1> QED  BY <1>1, <1>2, <1>3, <1>5, <1>6, <1>7

\* How far the position is from what is due, in ticks
Off(pos, start, corr, now, from) == (pos - start - corr) * Ticks - (now - from)

\* A stream that begins to play in a buffer is at what is due, but for the rounding of where it
\* starts and of when.
LEMMA BeginsOnTime ==
    ASSUME PlaybackTypes, NEW by \in Int
    PROVE  /\ FirstSample \in Int /\ ZeroFill \in Int /\ Period \in Int /\ Now \in Int
           /\ FirstSample % Align = 0 /\ ZeroFill % Align = 0 /\ Period % Align = 0
           /\ Starts => LET off == Off(FirstSample + (Period - ZeroFill) + by, startSample, by,
                                       Now + Period * Ticks, startTime)
                        IN off < 2 * Align * Ticks /\ -off < 2 * Align * Ticks
<1>1. /\ type \in {"pcm", "dsd"} /\ startTime \in Int /\ startSample \in Nat /\ clock \in Int
      /\ Ticks \in Nat \ {0}
  BY PlaybackAssumption DEF PlaybackTypes
<1>2. Period \in Int /\ Period % Align = 0 /\ Align \in {1, 8}
  BY <1>1, PlaybackAssumption DEF Period, Align
<1>3. Now \in Int
  BY <1>1, <1>2 DEF Now
<1>4. PICK a \in Int : /\ a = Aligned(startSample) /\ a % Align = 0
                       /\ a <= startSample /\ startSample < a + Align
  BY <1>1, AlignedIs
<1>5. PICK late \in Int :
         /\ late = IF Now > startTime THEN ToSamples(Now - startTime) ELSE 0
         /\ late % Align = 0
         /\ Now > startTime => /\ late * Ticks <= Now - startTime
                               /\ Now - startTime < late * Ticks + Align * Ticks
  <2>1. CASE Now > startTime
    <3>1. Now - startTime \in Nat
      BY <1>1, <1>3, <2>1
    <3> QED  BY <1>1, <2>1, <3>1, SamplesOfTime
  <2>2. CASE ~(Now > startTime)
    BY <1>2, <2>2
  <2> QED  BY <2>1, <2>2
<1>6. PICK fill \in Int :
         /\ fill = ZeroFill /\ fill % Align = 0
         /\ ~(Starts /\ Now < startTime) => fill = 0
         /\ Starts /\ Now < startTime => /\ fill * Ticks <= startTime - Now
                                         /\ startTime - Now < fill * Ticks + Align * Ticks
  <2>1. CASE Starts /\ Now < startTime
    <3>1. startTime - Now \in Nat
      BY <1>1, <1>3, <2>1
    <3> QED  BY <1>1, <2>1, <3>1, SamplesOfTime DEF ZeroFill
  <2>2. CASE ~(Starts /\ Now < startTime)
    BY <1>2, <2>2 DEF ZeroFill
  <2> QED  BY <2>1, <2>2
<1>7. FirstSample = a + late /\ FirstSample % Align = 0 /\ FirstSample \in Int
  <2>1. FirstSample = a + late
    BY <1>4, <1>5 DEF FirstSample
  <2>2. (a + late) % Align = 0
    BY <1>1, <1>4, <1>5, WholeBytes
  <2> QED  BY <2>1, <2>2
<1>8. ASSUME Starts
      PROVE  LET off == Off(FirstSample + (Period - ZeroFill) + by, startSample, by,
                            Now + Period * Ticks, startTime)
             IN off < 2 * Align * Ticks /\ -off < 2 * Align * Ticks
  <2> DEFINE off == Off(FirstSample + (Period - ZeroFill) + by, startSample, by,
                        Now + Period * Ticks, startTime)
             x == startSample - a
             u == Align * Ticks
  <2>1. off = Off(a + late - fill, startSample, 0, Now, startTime)
    <3>1. PICK p \in Int, c \in Int : p = a + late - fill /\ c = 0
      BY <1>4, <1>5, <1>6
    <3>2. FirstSample + (Period - ZeroFill) + by = p + Period + by /\ by = c + by
      BY <1>2, <1>4, <1>5, <1>6, <1>7, <3>1
    <3>3. Off(p + Period + by, startSample, c + by, Now + Period * Ticks, startTime)
             = Off(p, startSample, c, Now, startTime)
      <4>1. PICK y \in Int, n \in Int : y = p - startSample - c /\ n = Period
        BY <1>1, <1>2, <3>1
      <4>2. (p + n + by) - startSample - (c + by) = y + n
        BY <1>1, <3>1, <4>1
      <4>3. (y + n) * Ticks = y * Ticks + n * Ticks /\ y * Ticks \in Int /\ n * Ticks \in Int
        BY <1>1, <4>1
      <4> QED  BY <1>1, <1>3, <4>1, <4>2, <4>3 DEF Off
    <3> QED  BY <3>1, <3>2, <3>3
  <2>2. /\ x \in Int /\ x * Ticks >= 0 /\ x * Ticks + Ticks <= u
        /\ u \in Int /\ x * Ticks \in Int
    <3>1. x \in Int /\ 0 <= x /\ x + 1 <= Align
      BY <1>1, <1>2, <1>4
    <3>2. x \in {0, 1, 2, 3, 4, 5, 6, 7} /\ (Align = 1 => x = 0)
      BY <1>2, <3>1
    <3>3. CASE Align = 1
      BY <1>1, <3>2, <3>3
    <3>4. CASE Align = 8
      BY <1>1, <3>2, <3>4
    <3> QED  BY <1>2, <3>3, <3>4
  <2>3. off = late * Ticks - fill * Ticks - x * Ticks - (Now - startTime)
    <3>1. (a + late - fill) - startSample - 0 = late - fill - x
      BY <1>1, <1>4, <1>5, <1>6
    <3>2. (late - fill - x) * Ticks = late * Ticks - fill * Ticks - x * Ticks
      BY <1>1, <1>5, <1>6, <2>2
    <3> HIDE DEF off, x
    <3> QED  BY <2>1, <3>1, <3>2 DEF Off
  <2>4. PICK l \in Int, f \in Int, y \in Int, d \in Int :
           l = late * Ticks /\ f = fill * Ticks /\ y = x * Ticks /\ d = Now - startTime
    BY <1>1, <1>3, <1>5, <1>6, <2>2
  <2>5. off = l - f - y - d /\ 0 <= y /\ y < u /\ u > 0
    <3> HIDE DEF off, x, u
    <3> QED  BY <1>1, <2>2, <2>3, <2>4
  <2>6. /\ d > 0 => l <= d /\ d < l + u /\ f = 0
        /\ d < 0 => l = 0 /\ f <= -d /\ -d < f + u
        /\ d = 0 => l = 0 /\ f = 0
    <3>1. CASE d > 0
      <4>1. Now > startTime /\ ~(Now < startTime)
        BY <1>1, <1>3, <2>4, <3>1
      <4>2. fill = 0 /\ late * Ticks <= Now - startTime /\ Now - startTime < late * Ticks + Align * Ticks
        BY <1>5, <1>6, <4>1
      <4> QED  BY <1>1, <2>4, <3>1, <4>2
    <3>2. CASE d < 0
      <4>1. ~(Now > startTime) /\ Now < startTime
        BY <1>1, <1>3, <2>4, <3>2
      <4>2. late = 0 /\ fill * Ticks <= startTime - Now /\ startTime - Now < fill * Ticks + Align * Ticks
        BY <1>5, <1>6, <1>8, <4>1
      <4>3. startTime - Now = -d
        BY <1>1, <1>3, <2>4
      <4> QED  BY <1>1, <2>4, <3>2, <4>2, <4>3
    <3>3. CASE d = 0
      <4>1. ~(Now > startTime) /\ ~(Now < startTime)
        BY <1>1, <1>3, <2>4, <3>3
      <4>2. late = 0 /\ fill = 0
        BY <1>5, <1>6, <4>1
      <4> QED  BY <1>1, <2>4, <3>3, <4>2
    <3> QED  BY <2>4, <3>1, <3>2, <3>3
  <2>7. off < u + u /\ -off < u + u
    <3> HIDE DEF off, x, u
    <3> QED  BY <2>2, <2>4, <2>5, <2>6
  <2>8. u + u = 2 * Align * Ticks
    BY <1>1, <1>2
  <2> QED  BY <2>7, <2>8
<1> QED  BY <1>2, <1>3, <1>6, <1>7, <1>8

\* What is on time, as two inequations
LEMMA OnTimeIs ==
    ASSUME PlaybackTypes
    PROVE  LET off == Off(position, startSample, made, Now, startTime)
           IN PlaysOnTime <=> (running /\ ~newStream =>
                                  /\ position % Align = 0
                                  /\ off < 2 * Align * Ticks /\ -off < 2 * Align * Ticks)
<1> DEFINE off == Off(position, startSample, made, Now, startTime)
           bound == 2 * Align * Ticks
<1>1. /\ position \in Int /\ startSample \in Int /\ made \in Int /\ startTime \in Int
      /\ Ticks \in Int /\ Period \in Int /\ clock \in Int
  BY PlaybackAssumption DEF PlaybackTypes, Period
<1>2. Align \in Int
  BY DEF PlaybackTypes, Align
<1>3. Now \in Int
  BY <1>1 DEF Now
<1>4. off \in Int /\ bound \in Int
  BY <1>1, <1>2, <1>3 DEF Off
<1>5. PlaysOnTime <=> (running /\ ~newStream => position % Align = 0 /\ Size(off) < bound)
  BY DEF PlaysOnTime, Off
<1> HIDE DEF off, bound
<1>6. Size(off) < bound <=> off < bound /\ -off < bound
  BY <1>4 DEF Size
<1> QED  BY <1>5, <1>6 DEF off, bound

\* The thread plays the next buffer.
LEMMA PlayBufferKeeps ==
    ASSUME PlaybackInv, PlayBuffer
    PROVE  PlaybackInv'
<1> DEFINE next == Computed(drift)
           by == Computed(drift).by
           n == Period - ZeroFill
           from == IF Starts THEN FirstSample ELSE position
<1>1. PlaybackTypes /\ PlaysOnTime /\ type \in {"pcm", "dsd"} /\ drift \in Drifts /\ Averages(drift)
  BY DEF PlaybackInv, PlaybackTypes
<1>2. next.drift \in Drifts /\ Averages(next.drift) /\ by \in Int /\ by % Align = 0
  BY <1>1, ComputedIs
<1>3. /\ clock' = clock + Period /\ drift' = next.drift /\ newStream' = (newStream /\ ~Starts)
      /\ UNCHANGED <<type, running, startTime, startSample>>
  BY DEF PlayBuffer
<1>4. IF running /\ (newStream => Starts)
      THEN /\ position' = from + n + by
           /\ made' = by + (IF Starts THEN 0 ELSE made)
      ELSE UNCHANGED <<position, made>>
  BY DEF PlayBuffer, Needed
<1> HIDE DEF next
<1>5. /\ FirstSample \in Int /\ ZeroFill \in Int /\ Period \in Int /\ Now \in Int
      /\ FirstSample % Align = 0 /\ ZeroFill % Align = 0 /\ Period % Align = 0
  BY <1>1, <1>2, BeginsOnTime
<1>6. /\ position \in Int /\ made \in Int /\ clock \in Int /\ startSample \in Int /\ startTime \in Int
      /\ Ticks \in Int /\ newStream \in BOOLEAN
  BY <1>1, PlaybackAssumption DEF PlaybackTypes
<1>7. from \in Int /\ n \in Int
  BY <1>5, <1>6
<1>8. position' \in Int /\ made' \in Int
  <2> HIDE DEF from, n, by
  <2> QED  BY <1>2, <1>4, <1>6, <1>7
<1>9. PlaybackTypes'
  <2>1. newStream' \in BOOLEAN /\ clock' \in Int
    BY <1>3, <1>5, <1>6
  <2> HIDE DEF from, n, by
  <2> QED  BY <1>1, <1>2, <1>3, <1>8, <2>1 DEF PlaybackTypes, Drifts, Averages, Collects
<1>10. Period' = Period /\ Align' = Align
  BY <1>3 DEF Period, Align
<1>11. Now' = Now + Period * Ticks
  <2>1. (clock + Period + Period) * Ticks = (clock + Period) * Ticks + Period * Ticks
    BY <1>5, <1>6
  <2> QED  BY <1>3, <1>10, <2>1 DEF Now
<1> DEFINE off == Off(position, startSample, made, Now, startTime)
           offNext == Off(position', startSample, made', Now + Period * Ticks, startTime)
           bound == 2 * Align * Ticks
<1>12. ASSUME running', ~newStream'
       PROVE  position' % Align = 0 /\ offNext < bound /\ -offNext < bound
  <2>1. running /\ (newStream => Starts)
    BY <1>3, <1>6, <1>12
  <2>2. position' = from + n + by /\ made' = by + (IF Starts THEN 0 ELSE made)
    BY <1>4, <2>1
  <2>3. from % Align = 0
    <3>1. CASE Starts
      BY <1>5, <3>1
    <3>2. CASE ~Starts
      <4>1. running /\ ~newStream
        BY <2>1, <3>2
      <4> QED  BY <1>1, <3>2, <4>1 DEF PlaysOnTime
    <3> QED  BY <3>1, <3>2
  <2>4. position' % Align = 0
    <3>1. n % Align = 0
      BY <1>1, <1>5, WholeBytes
    <3> HIDE DEF from, n, by
    <3>2. (from + n) % Align = 0 /\ from + n \in Int
      BY <1>1, <1>7, <2>3, <3>1, WholeBytes
    <3>3. PICK p \in Int : p = from + n
      BY <3>2
    <3>4. (p + by) % Align = 0
      BY <1>1, <1>2, <3>2, <3>3, WholeBytes
    <3> QED  BY <2>2, <3>3, <3>4
  <2>5. offNext < bound /\ -offNext < bound
    <3>1. CASE Starts
      <4>1. position' = FirstSample + (Period - ZeroFill) + by /\ made' = by
        <5>1. made' = by + 0 /\ from = FirstSample
          BY <2>2, <3>1
        <5> HIDE DEF by
        <5> QED  BY <1>2, <2>2, <5>1
      <4>2. LET o == Off(FirstSample + (Period - ZeroFill) + by, startSample, by,
                         Now + Period * Ticks, startTime)
            IN o < 2 * Align * Ticks /\ -o < 2 * Align * Ticks
        BY <1>1, <1>2, <3>1, BeginsOnTime
      <4> QED  BY <4>1, <4>2
    <3>2. CASE ~Starts
      <4>1. running /\ ~newStream /\ ZeroFill = 0
        BY <2>1, <3>2 DEF ZeroFill
      <4>2. off < bound /\ -off < bound
        BY <1>1, <4>1, OnTimeIs
      <4>3. position' = position + Period + by /\ made' = by + made
        BY <1>5, <2>2, <3>2, <4>1
      <4>4. offNext = off
        <5>1. PICK y \in Int, k \in Int : y = position - startSample - made /\ k = Period
          BY <1>5, <1>6
        <5> HIDE DEF by
        <5>2. position' - startSample - made' = y + k
          BY <1>2, <1>6, <4>3, <5>1
        <5>3. (y + k) * Ticks = y * Ticks + k * Ticks /\ y * Ticks \in Int /\ k * Ticks \in Int
          BY <1>6, <5>1
        <5> QED  BY <1>5, <1>6, <5>1, <5>2, <5>3 DEF Off
      <4> QED  BY <4>2, <4>4
    <3> QED  BY <3>1, <3>2
  <2> QED  BY <2>4, <2>5
<1>13. PlaysOnTime'
  <2>1. (PlaysOnTime <=> (running /\ ~newStream =>
                             /\ position % Align = 0
                             /\ off < 2 * Align * Ticks /\ -off < 2 * Align * Ticks))'
    BY <1>9, OnTimeIs, PTL
  <2>2. off' = offNext
    BY <1>3, <1>11
  <2> HIDE DEF off, offNext
  <2> QED  BY <1>10, <1>12, <2>1, <2>2
<1> QED  BY <1>9, <1>13 DEF PlaybackInv

\* Every step of the playback.
LEMMA PlaybackKeeps ==
    ASSUME PlaybackInv, PlaybackNext
    PROVE  PlaybackInv'
<1>1. PlaybackTypes /\ PlaysOnTime
  BY DEF PlaybackInv
<1>2. ASSUME NEW lead \in Leads, NEW sample \in StartSamples, Start(lead, sample) PROVE PlaybackInv'
  <2>1. /\ running' = TRUE /\ newStream' = TRUE
        /\ startTime' = clock * Ticks + lead /\ startSample' = sample
        /\ UNCHANGED <<type, clock, position, drift, made>>
    BY <1>2 DEF Start
  <2>2. startTime' \in Int /\ startSample' \in Nat
    BY <1>1, <2>1, PlaybackAssumption DEF PlaybackTypes
  <2>3. PlaybackTypes'
    BY <1>1, <2>1, <2>2 DEF PlaybackTypes, Drifts, Averages, Collects
  <2> QED  BY <2>1, <2>3 DEF PlaybackInv, PlaysOnTime
<1>3. CASE Stop
  <2>1. running' = FALSE /\ UNCHANGED <<type, clock, newStream, startTime, startSample, position, drift, made>>
    BY <1>3 DEF Stop
  <2>2. PlaybackTypes'
    BY <1>1, <2>1 DEF PlaybackTypes, Drifts, Averages, Collects
  <2> QED  BY <2>1, <2>2 DEF PlaybackInv, PlaysOnTime
<1>4. ASSUME NEW offset \in RemoteOffsets, NEW new \in BOOLEAN, SetRemoteTime(offset, new)
      PROVE  PlaybackInv'
  <2>1. UNCHANGED <<type, clock, running, newStream, startTime, startSample, position, made>>
    BY <1>4 DEF SetRemoteTime
  <2>2. offset \in Int /\ clock \in Int /\ drift \in Drifts /\ Averages(drift)
    BY <1>1, PlaybackAssumption DEF PlaybackTypes
  <2>3. drift' \in Drifts /\ Averages(drift')
    <3>1. CASE new
      <4>1. drift' = [NoDrift EXCEPT !.active = TRUE, !.base = offset, !.last = offset, !.from = clock]
        BY <1>4, <3>1 DEF SetRemoteTime
      <4>2. NoDrift \in Drifts /\ NoDrift.count = 0 /\ NoDrift.accum = 0 /\ NoDrift.pos = 0
        BY PlaybackAssumption DEF NoDrift, Drifts
      <4> DEFINE none == NoDrift
      <4> HIDE DEF none
      <4>3. none \in Drifts /\ drift' = [none EXCEPT !.active = TRUE, !.base = offset, !.last = offset, !.from = clock]
        BY <4>1, <4>2 DEF none
      <4>4. drift' \in Drifts
        BY <2>2, <4>3 DEF Drifts
      <4>5. drift'.count = 0 /\ drift'.accum = 0 /\ drift'.pos = 0
        BY <4>2, <4>3 DEF Drifts, none
      <4> QED  BY <4>4, <4>5 DEF Averages
    <3>2. CASE ~new
      <4>1. drift' = [drift EXCEPT !.last = offset, !.since = clock - drift.from]
        BY <1>4, <3>2 DEF SetRemoteTime
      <4>2. PICK k \in Int : k = clock - drift.from
        BY <2>2 DEF Drifts
      <4>3. drift' \in Drifts
        BY <2>2, <4>1, <4>2 DEF Drifts
      <4>4. drift'.count = drift.count /\ drift'.accum = drift.accum /\ drift'.pos = drift.pos
        BY <2>2, <4>1 DEF Drifts
      <4> QED  BY <2>2, <4>3, <4>4 DEF Averages, Collects
    <3> QED  BY <3>1, <3>2
  <2>4. PlaybackTypes'
    BY <1>1, <2>1, <2>3 DEF PlaybackTypes, Drifts, Averages, Collects
  <2>5. PlaysOnTime'
    BY <1>1, <2>1 DEF PlaysOnTime, Align, Now, Period
  <2> QED  BY <2>4, <2>5 DEF PlaybackInv
<1> QED  BY <1>2, <1>3, <1>4, PlayBufferKeeps DEF PlaybackNext

-----------------------------------------------------------------------------
(***************************************************************************)
(* All of them                                                             *)
(***************************************************************************)

\* Each part has its invariant while the part runs; the volume that all plugins share, the
\* source selection and the playback have theirs while they rest, too.
DevicesInv ==
    /\ VolumeTypes /\ SelectionInv /\ PlaybackInv
    /\ which \notin {"alsa volume", "wasapi volume"} => HearInv
    /\ which = "serial volume" => SerialInv
    /\ which = "alsa volume" => AlsaInv
    /\ which = "coreaudio volume" => CoreInv
    /\ which = "wasapi volume" => WasapiInv

\* The volume plugins begin with what the device has, and with nothing to tell.
LEMMA VolumesBegin ==
    ASSUME VolumeInit, SoftInit, SerialInit, AlsaVolumeInit, WasapiVolumeInit, CoreVolumeInit
    PROVE  VolumeTypes /\ HearInv /\ SerialInv /\ AlsaInv /\ CoreInv /\ WasapiInv
<1>1. /\ level = 100 /\ muted = FALSE /\ raced = FALSE
      /\ device = State /\ told = State /\ say = [t \in Threads |-> Nothing]
  BY DEF VolumeInit
<1>2. level \in Volumes /\ muted \in BOOLEAN
  <2>1. 100 \in Volumes
    BY DEF Volumes
  <2>2. FALSE \in BOOLEAN
    OBVIOUS
  <2> QED  BY <1>1, <2>1, <2>2
<1>10. State \in States
  BY <1>2 DEF State, States
<1>3. say \in [Threads -> States \union {Nothing}] /\ \A t \in Threads : say[t] = Nothing
  BY <1>1
<1>4. VolumeTypes
  BY <1>1, <1>2, <1>10, <1>3 DEF VolumeTypes
<1>5. OneSpeaks /\ HearInv
  BY <1>1, <1>3 DEF HearInv, OneSpeaks, ToldIsCurrent
<1>6. SerialInv
  <2>1. line = <<>> /\ skipped = FALSE
    BY DEF SerialInit
  <2>2. line \in Seq(SentBytes) /\ Len(line) = 0
    BY <2>1, EmptySeq
  <2>3. device.level = level /\ device.muted = muted
    BY <1>1 DEF State
  <2>4. 1..Len(line) = {}
    BY <2>2
  <2> QED  BY <2>1, <2>2, <2>3, <2>4 DEF SerialInv, SerialTypes, LastSays
<1>7. AlsaInv
  <2>1. event = FALSE /\ refused = FALSE /\ redo = [t \in Callers |-> NoRedo]
    BY DEF AlsaVolumeInit
  <2>2. NoRedo \in Redos /\ NoRedo.at # "again"
    BY DEF NoRedo, Redos, Volumes
  <2>3. AlsaTypes /\ ~Redoing /\ \A t \in Callers : redo[t].at # "again" /\ redo[t] = NoRedo
    BY <2>1, <2>2 DEF AlsaTypes, Redoing
  <2> QED  BY <1>1, <1>5, <2>3 DEF AlsaInv, OneRedoes, AllAgree
<1>8. CoreInv
  <2>1. /\ actual = 100 /\ cache = [level |-> 100, actual |-> 100, muted |-> FALSE]
        /\ news = FALSE /\ apart = FALSE /\ blind = FALSE
    BY DEF CoreVolumeInit
  <2> QED  BY <1>1, <1>2, <2>1 DEF CoreInv, State
<1>9. WasapiInv
  <2>1. /\ dirty = [level |-> FALSE, muted |-> FALSE]
        /\ wake = FALSE /\ at = "wait" /\ echo = <<>> /\ moved = FALSE /\ unset = FALSE
    BY DEF WasapiVolumeInit
  <2>2. echo \in Seq(States)
    BY <2>1, EmptySeq
  <2>3. WasapiTypes
    BY <2>1, <2>2 DEF WasapiTypes
  <2>4. UnderWay /\ Agreed
    BY <1>1, <2>1 DEF UnderWay, Agreed
  <2> QED  BY <1>5, <2>3, <2>4 DEF WasapiInv, WasapiOrder
<1> QED  BY <1>4, <1>5, <1>6, <1>7, <1>8, <1>9

\* There are no requests, and nothing was played.
LEMMA RestBegins ==
    ASSUME SelectionInit, PlaybackInit
    PROVE  SelectionInv /\ PlaybackInv
<1>1. /\ status = "deselected" /\ heard = "deselected" /\ unlocked = FALSE /\ seq = 0
      /\ request = [r \in sources |-> Idle] /\ standby = "none"
      /\ answers = [r \in sources |-> <<>>]
  BY DEF SelectionInit
<1>2. seq \in 0..MaxSources
  BY <1>1, SelectionAssumption
<1>3. Idle \in [at : Ats, polls : Int] /\ Idle.at = "none"
  BY DEF Idle, Ats
<1>4. SelectionInv
  BY <1>1, <1>2, <1>3 DEF SelectionInv, SelectionTypes, Requests, StatusIsTold
<1>5. /\ type \in {"pcm", "dsd"} /\ clock = 0 /\ running = FALSE /\ newStream = FALSE
      /\ startTime = 0 /\ startSample = 0 /\ position = 0 /\ drift = NoDrift /\ made = 0
  BY DEF PlaybackInit
<1>6. NoDrift \in Drifts /\ NoDrift.count = 0 /\ NoDrift.accum = 0 /\ NoDrift.pos = 0
  BY PlaybackAssumption DEF NoDrift, Drifts
<1>7. Averages(drift)
  BY <1>5, <1>6 DEF Averages
<1>8. drift \in Drifts
  BY <1>5, <1>6
<1>9. startTime \in Int /\ startSample \in Nat /\ position \in Int /\ made \in Int /\ clock \in Int
  BY <1>5
<1>10. PlaybackTypes
  BY <1>5, <1>7, <1>8, <1>9 DEF PlaybackTypes
<1>11. PlaysOnTime
  BY <1>5 DEF PlaysOnTime
<1> QED  BY <1>4, <1>10, <1>11 DEF PlaybackInv

\* What rests keeps its invariant.
LEMMA VolumesRest ==
    ASSUME DevicesInv, UNCHANGED which, UNCHANGED allVolumeVars
    PROVE  /\ VolumeTypes'
           /\ (which \notin {"alsa volume", "wasapi volume"} => HearInv)'
           /\ (which = "serial volume" => SerialInv)'
           /\ (which = "alsa volume" => AlsaInv)'
           /\ (which = "coreaudio volume" => CoreInv)'
           /\ (which = "wasapi volume" => WasapiInv)'
<1>1. /\ UNCHANGED <<level, muted, device, say, told, raced, line, skipped>>
      /\ UNCHANGED <<mixer, redo, event, refused, actual, cache, news, apart, blind>>
      /\ UNCHANGED <<dirty, wake, at, echo, moved, unset>>
  BY DEF allVolumeVars, volumeVars, serialVars, mixerVars, coreVars, endpointVars
<1>2. State' = State /\ Quiet' = Quiet /\ OneSpeaks' = OneSpeaks /\ Redoing' = Redoing
  BY <1>1 DEF State, Quiet, OneSpeaks, Redoing
<1>3. VolumeTypes'
  BY <1>1 DEF DevicesInv, VolumeTypes
<1>4. HearInv' = HearInv
  BY <1>1, <1>2 DEF HearInv, ToldIsCurrent
<1>5. SerialInv' = SerialInv
  BY <1>1 DEF SerialInv, SerialTypes, LastSays, NoneBehind
<1>6. AlsaInv' = AlsaInv
  BY <1>1, <1>2 DEF AlsaInv, AlsaTypes, OneRedoes, AllAgree
<1>7. CoreInv' = CoreInv
  BY <1>1 DEF CoreInv
<1>8. WasapiInv' = WasapiInv
  <2>1. UnderWay' = UnderWay /\ Agreed' = Agreed /\ WasapiTypes' = WasapiTypes
    BY <1>1, <1>2 DEF WasapiTypes, UnderWay, Agreed
  <2> QED  BY <1>1, <1>4, <2>1 DEF WasapiInv, WasapiOrder
<1> QED  BY <1>3, <1>4, <1>5, <1>6, <1>7, <1>8 DEF DevicesInv

\* The same for the source selection,
LEMMA SelectionRests ==
    ASSUME SelectionInv, UNCHANGED selectionVars
    PROVE  SelectionInv'
BY DEF SelectionInv, SelectionTypes, Requests, StatusIsTold, selectionVars

\* and for the playback.
LEMMA PlaybackRests ==
    ASSUME PlaybackInv, UNCHANGED playbackVars
    PROVE  PlaybackInv'
<1>1. UNCHANGED <<type, clock, running, newStream, startTime, startSample, position, drift, made>>
  BY DEF playbackVars
<1>2. PlaybackTypes' /\ PlaysOnTime'
  BY <1>1 DEF PlaybackInv, PlaybackTypes, Drifts, Averages, Collects, PlaysOnTime, Align, Now, Period
<1> QED  BY <1>2 DEF PlaybackInv

\* A step of a volume plugin.
LEMMA VolumesKeep ==
    ASSUME DevicesInv, UNCHANGED which, VolumesNext
    PROVE  /\ VolumeTypes'
           /\ (which \notin {"alsa volume", "wasapi volume"} => HearInv)'
           /\ (which = "serial volume" => SerialInv)'
           /\ (which = "alsa volume" => AlsaInv)'
           /\ (which = "coreaudio volume" => CoreInv)'
           /\ (which = "wasapi volume" => WasapiInv)'
<1>1. VolumeTypes /\ which' = which
  BY DEF DevicesInv
<1>2. CASE which = "software volume" /\ SoftNext
  BY <1>1, <1>2, SoftKeeps DEF DevicesInv
<1>3. CASE which = "serial volume" /\ SerialNext
  BY <1>1, <1>3, SerialKeeps DEF DevicesInv
<1>4. CASE which = "alsa volume" /\ AlsaVolumeNext
  BY <1>1, <1>4, AlsaKeeps DEF DevicesInv
<1>5. CASE which = "coreaudio volume" /\ CoreVolumeNext
  BY <1>1, <1>5, CoreKeeps DEF DevicesInv
<1>6. CASE which = "wasapi volume" /\ WasapiVolumeNext
  BY <1>1, <1>6, WasapiKeeps DEF DevicesInv
<1> QED  BY <1>2, <1>3, <1>4, <1>5, <1>6 DEF VolumesNext

\* The invariant of all parts is inductive.
LEMMA DevicesInductive == DevicesSpec => []DevicesInv
<1>1. DevicesInit => DevicesInv
  BY VolumesBegin, RestBegins DEF DevicesInit, DevicesInv
<1>2. DevicesInv /\ [DevicesNext]_devicesVars => DevicesInv'
  <2> SUFFICES ASSUME DevicesInv, [DevicesNext]_devicesVars PROVE DevicesInv'
    OBVIOUS
  <2>1. SelectionInv /\ PlaybackInv
    BY DEF DevicesInv
  <2>2. CASE UNCHANGED devicesVars
    <3>1. UNCHANGED which /\ UNCHANGED allVolumeVars /\ UNCHANGED selectionVars /\ UNCHANGED playbackVars
      BY <2>2 DEF devicesVars
    <3> QED  BY <2>1, <3>1, VolumesRest, SelectionRests, PlaybackRests DEF DevicesInv
  <2>3. ASSUME UNCHANGED which, VolumesNext, UNCHANGED <<selectionVars, asioFormatVars, playbackVars>>
        PROVE  DevicesInv'
    BY <2>1, <2>3, VolumesKeep, SelectionRests, PlaybackRests DEF DevicesInv
  <2>4. ASSUME UNCHANGED which, SelectionNext, UNCHANGED <<allVolumeVars, asioFormatVars, playbackVars>>
        PROVE  DevicesInv'
    BY <2>1, <2>4, VolumesRest, SelectionKeeps, PlaybackRests DEF DevicesInv
  <2>5. ASSUME UNCHANGED which, UNCHANGED <<allVolumeVars, selectionVars, playbackVars>>
        PROVE  DevicesInv'
    BY <2>1, <2>5, VolumesRest, SelectionRests, PlaybackRests DEF DevicesInv
  <2>6. ASSUME UNCHANGED which, PlaybackNext, UNCHANGED <<allVolumeVars, selectionVars, asioFormatVars>>
        PROVE  DevicesInv'
    BY <2>1, <2>6, VolumesRest, SelectionRests, PlaybackKeeps DEF DevicesInv
  <2> QED  BY <2>2, <2>3, <2>4, <2>5, <2>6 DEF DevicesNext
<1> QED  BY <1>1, <1>2, PTL DEF DevicesSpec

\* However calls, news, requests and standbys interleave, and whatever fails, the listeners of a
\* plugin heard last what is so, once the threads that tell them are through, unless two told
\* them at a time or WASAPI's thread has ended; ALSA's are part of DevicesFollow.
THEOREM ListenersHearAll == DevicesSpec => []ListenersHear
<1>1. DevicesInv => ListenersHear
  BY DEF DevicesInv, HearInv, WasapiInv, WasapiToldIsCurrent, SelectionInv, StatusIsTold,
         ListenersHear, SelectionIsTold
<1> QED  BY <1>1, DevicesInductive, PTL

\* For any callers and volumes, whatever a device makes of a volume, and whichever calls to it
\* fail, the device has what its plugin says, once nothing is on its way between the two and
\* nothing that the device refused, or did not say, stands between them.
THEOREM DevicesFollow == DevicesSpec => []DeviceFollows
<1>1. DevicesInv => DeviceFollows
  <2> SUFFICES ASSUME DevicesInv PROVE DeviceFollows
    OBVIOUS
  <2>1. CASE which = "serial volume"
    <3>1. SerialTypes /\ LastSays /\ device \in States /\ level \in Volumes /\ muted \in BOOLEAN
      BY <2>1 DEF DevicesInv, SerialInv, VolumeTypes
    <3>2. ASSUME ~raced, ~skipped, line = <<>> PROVE device = State
      <4>1. Len(line) = 0
        BY <3>2, EmptySeq
      <4>2. NoneBehind("volume", 0) /\ NoneBehind("mute", 0)
        BY <4>1 DEF NoneBehind
      <4>3. device.level = level /\ device.muted = muted
        BY <3>1, <3>2, <4>2 DEF LastSays
      <4> QED  BY <3>1, <4>3 DEF State, States
    <3> QED  BY <2>1, <3>2 DEF DeviceFollows, SerialFollows
  <2>2. CASE which = "alsa volume"
    <3>1. AllAgree
      BY <2>2 DEF DevicesInv, AlsaInv
    <3> QED  BY <2>2, <3>1 DEF DeviceFollows, AlsaFollows, AllAgree
  <2>3. CASE which = "coreaudio volume"
    <3>1. CoreInv
      BY <2>3 DEF DevicesInv
    <3> QED  BY <2>3, <3>1 DEF DeviceFollows, CoreFollows, CoreInv
  <2>4. CASE which = "wasapi volume"
    <3>1. WasapiInv
      BY <2>4 DEF DevicesInv
    <3>2. ASSUME ~raced, ~unset, ~Busy PROVE device = State
      <4>1. Agreed
        BY <3>1, <3>2 DEF WasapiInv, WasapiOrder, Busy
      <4> QED  BY <3>2, <4>1 DEF Agreed, Busy
    <3> QED  BY <2>4, <3>2 DEF DeviceFollows, WasapiFollows
  <2> QED  BY <2>1, <2>2, <2>3, <2>4 DEF DeviceFollows
<1> QED  BY <1>1, DevicesInductive, PTL

\* For any number of requests, standbys and polls, each request is answered once, at its end,
\* and is not told of success before the player let the device go.
THEOREM SourcesFree == DevicesSpec => []SourcesAreFree
<1>1. DevicesInv => SourcesAreFree
  <2> SUFFICES ASSUME DevicesInv, NEW r \in sources
               PROVE  /\ answers[r] # <<>> <=> request[r].at = "done"
                      /\ Len(answers[r]) <= 1
                      /\ answers[r] = <<"success">> => r \in sure
    BY DEF SourcesAreFree
  <2>1. Requests /\ answers[r] \in {<<>>, <<"success">>, <<"error">>}
    BY DEF DevicesInv, SelectionInv, SelectionTypes
  <2>2. Len(<<>>) = 0 /\ Len(<<"success">>) = 1 /\ Len(<<"error">>) = 1
    OBVIOUS
  <2>3. CASE answers[r] = <<>>
    BY <2>1, <2>2, <2>3 DEF Requests
  <2>4. CASE answers[r] = <<"success">>
    BY <2>1, <2>2, <2>4 DEF Requests
  <2>5. CASE answers[r] = <<"error">>
    BY <2>1, <2>2, <2>5 DEF Requests
  <2> QED  BY <2>1, <2>3, <2>4, <2>5
<1> QED  BY <1>1, DevicesInductive, PTL

\* For any buffer, clock rate, start of a stream, drift and threshold, a stream that plays is
\* where it is due, but for the rounding and for the corrections that were made.
THEOREM StreamsPlayOnTime == DevicesSpec => []PlaysOnTime
<1>1. DevicesInv => PlaysOnTime
  BY DEF DevicesInv, PlaybackInv
<1> QED  BY <1>1, DevicesInductive, PTL

=============================================================================
