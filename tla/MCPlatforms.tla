------------------------------ MODULE MCPlatforms ------------------------------
(***************************************************************************)
(* The platform outputs, each on the same small instance: an execution is  *)
(* one of the platform that was chosen at first.  What they all promise is *)
(* stated here, in the terms that each keeps it.                           *)
(***************************************************************************)
EXTENDS AlsaOutput, WasapiOutput, CoreAudioOutput, AsioOutput, CaptureOutput, TLC

CONSTANT Platforms

ASSUME PlatformsAssumption ==
    Platforms \subseteq {"alsa", "wasapi", "coreaudio", "asio", "capture"}

VARIABLE which

PlatformsInit == which \in Platforms /\ PlatformInit

PlatformsNext ==
    /\ UNCHANGED which
    /\ \/ which = "alsa" /\ AlsaNext
       \/ which = "wasapi" /\ WasapiNext
       \/ which = "coreaudio" /\ CoreNext
       \/ which = "asio" /\ AsioNext
       \/ which = "capture" /\ CaptureNext

PlatformsSpec == PlatformsInit /\ [][PlatformsNext]_<<which, allVars>>

\* nothing tells one session from another
PlatformSymmetry == Permutations(Sessions)

\* Nobody loses the output in silence: whoever was granted it owns it, gave it up, was told,
\* or is about to be told.  WASAPI's threads tell the loss themselves, as the failure of the
\* setup when it was not answered yet; that each loss is told holds as long as calls do not
\* overlap, but for an owner kicked off after its setup callback was called and before its
\* thread stored the loss callback (wasapi.cpp:549-552), who hears of it from nobody.  ASIO
\* tells it through the setup callback when that is still to be called, which is the owner's as
\* long as calls do not overlap: it is stored after the lock was left, and force_teardown leaves
\* it to the next owner.  A loss may be told twice, by a force_teardown that has to try again and
\* finds no owner the second time (wasapi.cpp:292-325).
NoSilentLoss ==
    CASE which = "wasapi" -> OwnersKnow /\ (~overlap => WasapiLossesReported)
      [] which = "asio"   -> ~overlap => LossesReported
      [] OTHER            -> LossesReported

\* The device is the owner's: its handle is neither kept from a former owner nor closed under
\* the present one - by ALSA, WASAPI and ASIO as long as calls do not overlap and the device
\* does not break.
DeviceIsTheOwners ==
    CASE which = "alsa"      -> DeviceAccounted /\ ClosedInTime
      [] which = "wasapi"    -> OneClient
      [] which = "coreaudio" -> UnitIsTheOwners
      [] which = "asio"      -> DriverIsTheOwners
      [] which = "capture"   -> FileIsTheOwners

\* A setup is answered once at most, and by the device that was opened for it.  ALSA and the
\* capture file count the resync delay as the reference plugin does, whose races may answer a
\* setup twice (CbSetupOnce in OutputPlugin): nothing is said of them.
AnswersAreFinal ==
    CASE which = "wasapi"    -> AnsweredOnce
      [] which = "coreaudio" -> AnsweredToOwner
      [] which = "asio"      -> AtMostOneAnswer
      [] OTHER               -> TRUE

=============================================================================
