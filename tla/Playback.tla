------------------------------ MODULE Playback ------------------------------
(***************************************************************************)
(* What an output's thread plays, and when: the clock of the buffers, the  *)
(* start of a stream within one of them, and the correction of the drift   *)
(* between the device's clock and the remote one (raat_dsp.c), as the ALSA *)
(* and WASAPI outputs use it.                                              *)
(*                                                                         *)
(* Time is counted in ticks, a few to a sample; a position in samples of   *)
(* the stream, for DSD in bits of a channel.                               *)
(***************************************************************************)
EXTENDS Integers, Sequences, SequencesExt, FiniteSets, TLC

CONSTANTS
    PcmPeriod, DsdPeriod,   \* samples per buffer
    Ticks,                  \* of a sample
    Leads,                  \* when a stream starts, in ticks after the last buffer began
    StartSamples,           \* where it starts
    RemoteOffsets,          \* the remote clock less the local one, in samples
    Threshold,              \* correction_threshold_samples: 2 ms
    Window,                 \* the samples of 20 s
    MaxErrors,              \* RAAT__MAX_ERROR_SAMPLES
    MaxBuffers              \* bound on the buffers that are played

\* A buffer of DSD has whole bytes.
ASSUME PlaybackAssumption ==
    /\ PcmPeriod \in Nat \ {0} /\ DsdPeriod \in Nat \ {0} /\ DsdPeriod % 8 = 0
    /\ Ticks \in Nat \ {0} /\ Window \in Nat \ {0} /\ MaxErrors \in Nat \ {0}
    /\ Leads \subseteq Int /\ StartSamples \subseteq Nat /\ RemoteOffsets \subseteq Int
    /\ Threshold \in Nat

VARIABLES
    type,           \* sample_type of the stream format
    clock,          \* last_monotonic_sample
    running,        \* there is a stream
    newStream,      \* new_stream: it has not begun to play
    startTime, startSample,
    position,       \* streamsample
    drift,          \* RAAT__DriftCorrection
    read,           \* the last buffer: samples that were filled, needed, and corrected
    made,           \* history: corrections since the stream began to play
    errors          \* history: the errors that were noted since the remote clock is known

playbackVars == <<type, clock, running, newStream, startTime, startSample, position, drift,
                  read, made, errors>>

Period == IF type = "dsd" THEN DsdPeriod ELSE PcmPeriod
Align  == IF type = "dsd" THEN 8 ELSE 1

Aligned(n)   == n - (n % Align)
ToSamples(t) == Aligned(t \div Ticks)
Larger(a, b) == IF a > b THEN a ELSE b
Size(n)      == IF n < 0 THEN -n ELSE n

NoRead == [fill |-> 0, samples |-> 0, correction |-> 0]

NoDrift ==
    [active |-> FALSE, corrected |-> 0, slots |-> [i \in 0..MaxErrors - 1 |-> 0],
     total |-> 0, count |-> 0, pos |-> 0, accum |-> 0,
     base |-> 0, last |-> 0, since |-> 0, from |-> 0]

PlaybackInit ==
    /\ type \in {"pcm", "dsd"}
    /\ clock = 0 /\ running = FALSE /\ newStream = FALSE
    /\ startTime = 0 /\ startSample = 0 /\ position = 0
    /\ drift = NoDrift /\ read = NoRead /\ made = 0 /\ errors = {}

-----------------------------------------------------------------------------
(***************************************************************************)
(* Drift correction                                                        *)
(***************************************************************************)

\* The error is what the remote clock has gained on the local one.
Error(d) == d.last - d.base

\* The slot after the last one is error_total.
Noted(d) ==
    IF d.pos = MaxErrors THEN [d EXCEPT !.total = Error(d), !.pos = MaxErrors + 1]
    ELSE [d EXCEPT !.total = @ + Error(d), !.slots[d.pos] = Error(d), !.pos = @ + 1]

Collects(d) == d.accum < Window /\ d.count < MaxErrors

\* C's division
Quotient(a, b) == IF a < 0 THEN -((-a) \div b) ELSE a \div b

\* The time on the slower clock
Slower(d) == d.since + (IF Error(d) < 0 THEN Error(d) ELSE 0)

\* One and a half times what the clocks have drifted apart in a buffer, and one sample at least;
\* a rate of the two that is not positive, or not finite, gives no more.
MaxCorrection(d) ==
    IF Slower(d) <= 0 THEN 1
    ELSE Larger(1, (3 * Period * Size(Error(d))) \div (2 * Slower(d)))

Amount(d) == ((MaxCorrection(d) + Align - 1) \div Align) * Align

Correction(d) ==
    LET net == Quotient(d.total, d.count) + d.corrected
    IN IF net < -Threshold THEN Amount(d) ELSE IF net > Threshold THEN -Amount(d) ELSE 0

\* RAAT__drift_correction_compute_correction
Computed(d) ==
    LET noted == Noted(d)
        pos == noted.pos % d.count
        full == [noted EXCEPT !.pos = pos, !.total = @ - noted.slots[pos]]
    IN IF ~d.active THEN [drift |-> d, by |-> 0]
       ELSE IF Collects(d)
       THEN [drift |-> [noted EXCEPT !.accum = @ + Period, !.count = @ + 1], by |-> 0]
       ELSE [drift |-> [full EXCEPT !.corrected = @ + Correction(full)], by |-> Correction(full)]

\* output_set_remote_time: the local time is between this buffer and the next.
SetRemoteTime(offset, newSource) ==
    /\ newSource \/ drift.active
    /\ drift' = IF newSource
                THEN [NoDrift EXCEPT !.active = TRUE, !.base = offset, !.last = offset, !.from = clock]
                ELSE [drift EXCEPT !.last = offset, !.since = clock - drift.from]
    /\ errors' = IF newSource THEN {} ELSE errors
    /\ UNCHANGED <<type, clock, running, newStream, startTime, startSample, position, read, made>>

-----------------------------------------------------------------------------
(***************************************************************************)
(* RAAT__read_stream_with_drift_correction: the samples that were read are *)
(* known by the part of them that each frame of the output stands for, its *)
(* first and the one after its last.                                       *)
(***************************************************************************)
Corrections(c) == IF type = "dsd" THEN Size(c) \div 2 ELSE Size(c)
Margin == IF type = "dsd" THEN [first |-> 0, last |-> 16] ELSE [first |-> 1, last |-> 2]

\* The length of the stretch of the buffer from which rand() chooses the place of one correction
Stretch(n, c) == n \div Corrections(c) - Margin.last - Margin.first

Offsets(n, c) ==
    LET segment == n \div Corrections(c) IN
    {[i \in 1..Corrections(c) |-> segment * (i - 1) + Margin.first + g[i]] :
        g \in [1..Corrections(c) -> 0..Stretch(n, c) - 1]}

PcmFrames(n, c, offsets) ==
    LET Frame(acc, i) ==
            LET out == Len(acc.out)
                hit == acc.next <= Len(offsets) /\ offsets[acc.next] = out
            IN IF out = n /\ ~hit THEN acc
               ELSE IF hit /\ c < 0
               THEN [acc EXCEPT !.out = Append(@, <<acc.in, acc.in>>), !.next = @ + 1]
               ELSE IF hit
               THEN [acc EXCEPT !.out[out][2] = acc.in + 1, !.in = @ + 1, !.next = @ + 1]
               ELSE [acc EXCEPT !.out = Append(@, <<acc.in, acc.in + 1>>), !.in = @ + 1]
    IN FoldLeft(Frame, [out |-> <<>>, in |-> 0, next |-> 1], [i \in 1..n + Size(c) |-> i]).out

\* Mutant: 8 bits are dropped at every offset.
PassedOne(c) == 1

\* For DSD 8 bits are dropped at every fourth offset, or 2 are stuffed at every one.
Passed(c) == IF c > 0 THEN 4 ELSE 1

DsdFrames(n, c, offsets) ==
    LET Byte(acc, i) ==
            LET hit == acc.next <= Len(offsets) /\ 8 * (i - 1) > offsets[acc.next]
                size == IF ~hit THEN 8 ELSE IF c < 0 THEN 6 ELSE 16
            IN [out |-> Append(acc.out, <<acc.in, acc.in + size>>), in |-> acc.in + size,
                next |-> IF hit THEN acc.next + Passed(c) ELSE acc.next]
    IN FoldLeft(Byte, [out |-> <<>>, in |-> 0, next |-> 1], [i \in 1..n \div 8 |-> i]).out

FramesRead(n, c, offsets) ==
    IF type = "dsd" THEN DsdFrames(n, c, offsets) ELSE PcmFrames(n, c, offsets)

-----------------------------------------------------------------------------
(***************************************************************************)
(* The thread's buffers                                                    *)
(***************************************************************************)
Now == (clock + Period) * Ticks     \* the buffer's begin

Starts == running /\ newStream /\ Now + Period * Ticks > startTime

FirstSample ==
    Aligned(startSample) + (IF Now > startTime THEN ToSamples(Now - startTime) ELSE 0)

ZeroFill == IF Starts /\ Now < startTime THEN ToSamples(startTime - Now) ELSE 0

\* Mutant: the silence before the stream is counted as played.
NeededWhole(fill) == Period

\* What is needed of the stream behind the samples that are filled with zeros
Needed(fill) == Period - fill

PlayBuffer ==
    LET plays == running /\ (newStream => Starts)
        next == Computed(drift)
        n == Needed(ZeroFill)
        from == IF Starts THEN FirstSample ELSE position
    IN /\ clock < MaxBuffers * Period
       /\ clock' = clock + Period
       /\ drift' = next.drift
       /\ errors' = IF drift.active THEN errors \union {Error(drift)} ELSE errors
       /\ newStream' = (newStream /\ ~Starts)
       /\ IF plays
          THEN /\ read' = [fill |-> ZeroFill, samples |-> n, correction |-> next.by]
               /\ position' = from + n + next.by
               /\ made' = next.by + (IF Starts THEN 0 ELSE made)
          ELSE read' = NoRead /\ UNCHANGED <<position, made>>
       /\ UNCHANGED <<type, running, startTime, startSample>>

Start(lead, sample) ==
    /\ ~running /\ running' = TRUE /\ newStream' = TRUE
    /\ startTime' = clock * Ticks + lead /\ startSample' = sample
    /\ UNCHANGED <<type, clock, position, drift, read, made, errors>>

Stop ==
    /\ running /\ running' = FALSE
    /\ UNCHANGED <<type, clock, newStream, startTime, startSample, position, drift, read, made,
                   errors>>

PlaybackNext ==
    \/ PlayBuffer
    \/ \E lead \in Leads, sample \in StartSamples : Start(lead, sample)
    \/ Stop
    \/ \E offset \in RemoteOffsets, new \in BOOLEAN : SetRemoteTime(offset, new)

PlaybackSpec == PlaybackInit /\ [][PlaybackNext]_playbackVars

-----------------------------------------------------------------------------
(***************************************************************************)
(* Properties                                                              *)
(***************************************************************************)

\* What plays next is what is due then: the stream's position is the time since the start, but
\* for the rounding and the corrections that were made, whether it began in the middle of a
\* buffer, late or at once (alsa_output_thread and fill_buffer).  A position of a DSD stream is
\* that of a whole byte.
PlaysOnTime ==
    running /\ ~newStream =>
        /\ position % Align = 0
        /\ Size((position - startSample - made) * Ticks - (Now - startTime)) < 2 * Align * Ticks

\* Wherever the places of the corrections are, the frames that are played stand for all of the
\* samples that are read and for no others, in their order: what is dropped or stuffed in a
\* buffer is what was read too much or too little (raat_dsp.c:84).  That is so if the buffer is
\* long enough for the corrections: in a shorter one rand() is taken modulo 0 or less.
CorrectionIsExact ==
    LET n == read.samples   c == read.correction IN
    c # 0 /\ Stretch(n, c) > 0 =>
        \A offsets \in Offsets(n, c) :
            LET frames == FramesRead(n, c, offsets)
            IN /\ frames[1][1] = 0
               /\ frames[Len(frames)][2] = n + c
               /\ \A i \in 2..Len(frames) : frames[i][1] = frames[i - 1][2]

\* raat_dsp.c:361 "compute moving average of error": what net_error_samples is computed from is
\* no less than the least of the errors, and no more than the largest.
AverageIsOfTheErrors ==
    drift.count > 0 =>
        LET average == Quotient(drift.total, drift.count) IN
        (\E e \in errors : e <= average) /\ (\E e \in errors : e >= average)
=============================================================================
