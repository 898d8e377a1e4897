-------------------------------- MODULE MCMedia --------------------------------
(***************************************************************************)
(* The parts that set the engine up for sound, in one run.  They share no   *)
(* state and no code, so a behaviour moves one of them, chosen when it      *)
(* starts.                                                                  *)
(***************************************************************************)
EXTENDS Codecs, Sound, Volume

VARIABLE part

mediaVars == << part, codecsVars, soundVars, volumeVars >>

TwoCodecs == << "PCMA", "opus" >>

TwoProcessings ==
    { [noise |-> FALSE, echo |-> TRUE, jitter |-> 300], [noise |-> TRUE, echo |-> FALSE, jitter |-> 60] }

DeviceSymmetry == Permutations(Devices)

MediaInit ==
    /\ part \in {"codecs", "sound", "volume"}
    /\ CodecsInit /\ SoundInit /\ VolumeInit

MediaNext ==
    /\ UNCHANGED part
    /\ \/ part = "codecs" /\ CodecsNext /\ UNCHANGED << soundVars, volumeVars >>
       \/ part = "sound" /\ SoundNext /\ UNCHANGED << codecsVars, volumeVars >>
       \/ part = "volume" /\ VolumeNext /\ UNCHANGED << codecsVars, soundVars >>

MediaSpec == MediaInit /\ [][MediaNext]_mediaVars

=============================================================================
