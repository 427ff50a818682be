---------------------------- MODULE FrameReaders ----------------------------
(***************************************************************************)
(* The readers of the shared memory that check less than the RGB-D cache:  *)
(* the Runtime's capture of colour images and the depth snapshot the       *)
(* carton bundle app samples.                                              *)
(***************************************************************************)
EXTENDS SharedFrames

Readers == {"runtime", "sampler"}

VARIABLES reader,   \* the one whose loads are followed; never changes
          taken     \* the loads of the copy it accepted last

-----------------------------------------------------------------------------
\* read_shared_memory_frame
RuntimeScript == <<"seq", "active", "stamp", "top", "bottom", "seq">>

RuntimeValid == got.seq # 0 /\ got.seq # taken.seq /\ got.stamp # 0

\* Mutant: the header after the copy is read without its active buffer.
SamplerScriptUnchecked == <<"active", "seq", "stamp", "top", "bottom", "seq">>

\* _decode_header unpacks the words in the order of their addresses, before
\* the copy and after it.
SamplerScript == <<"active", "seq", "stamp", "top", "bottom", "active", "seq">>

SamplerValid == got.stamp # 0

ReaderChannel == IF reader = "runtime" THEN "color" ELSE "depth"
ReaderScript  == IF reader = "runtime" THEN RuntimeScript ELSE SamplerScript
ReaderValid   == IF reader = "runtime" THEN RuntimeValid ELSE SamplerValid

Read == /\ \/ LoadNext(ReaderChannel, ReaderScript, ReaderValid)
           \/ LoadAgain(ReaderChannel, ReaderScript)
        /\ UNCHANGED taken

\* A spoilt copy is tried again; a stamp that is too old, a deadline or the last
\* attempt ends the call between the loads, and the next call starts over.
TryAgain == /\ step > 1
            /\ Spoilt(ReaderChannel, ReaderScript, ReaderValid) \/ step \in {4, 6}
            /\ StartOver
            /\ UNCHANGED taken

Deliver == /\ Accepted(ReaderScript)
           /\ taken' = got
           /\ StartOver

ReaderStep == Read \/ TryAgain \/ Deliver

-----------------------------------------------------------------------------
ReadersTypeOK == /\ FramesTypeOK
                 /\ reader \in Readers
                 /\ taken \in [Words \cup Halves -> Nat]

\* An image the Runtime infers from is one image: the copy does not mix two
\* FrameSets, although it checks nothing but the sequence.
ImageIsWhole == reader = "runtime" => taken.top = taken.bottom

\* A depth snapshot of the sampler whose active buffer is the one of its
\* sequence number is one image and has the stamp of that image
\* (carton bundle local_ipc.py:389-437).
SnapshotOfPublished ==
  reader = "sampler" /\ taken.active = taken.seq % 2
    => taken.top = taken.stamp /\ taken.bottom = taken.stamp

=============================================================================
