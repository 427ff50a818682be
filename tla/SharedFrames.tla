---------------------------- MODULE SharedFrames ----------------------------
(***************************************************************************)
(* The camera bridge publishes each FrameSet of the SDK in two POSIX       *)
(* shared memory objects, one for colour and one for depth.  Each has a    *)
(* header and two pixel buffers: the writer fills the buffer that is not   *)
(* published and then stores active_buffer, timestamp_epoch_ms and         *)
(* sequence, one store after another.  Nothing locks a reader out: it      *)
(* loads header words and pixels one by one while the writer goes on, and  *)
(* decides from the words it loads again whether the copy counts.          *)
(*                                                                         *)
(* A FrameSet is its number, which stands for its capture time too, and    *)
(* an image is the FrameSets its two halves show.  Resolution, state,      *)
(* intrinsics and calibration_ready are left out: a reader that refuses a  *)
(* header for them starts again later.  One reader is modelled at a time,  *)
(* as readers write nothing the others can see.                            *)
(***************************************************************************)
EXTENDS Naturals, Sequences

CONSTANTS LastFrame,   \* bound: the FrameSets the camera delivers
          Kills        \* bound: how often the watchdog kills the bridge

ASSUME FramesAssumption == LastFrame \in Nat \ {0} /\ Kills \in Nat

VARIABLES shm,      \* the two objects, by channel
          mapped,   \* channels the running bridge has created or zeroed
          shot,     \* the FrameSet the camera delivered last
          todo,     \* channels of it that remain to be published
          at,       \* the next store for the first of them
          kills,    \* bridges killed
          step,     \* the next load of the reader
          got       \* what its loads returned

bridgeVars == <<shm, mapped, shot, todo, at, kills>>
readerVars == <<step, got>>

Channels == {"color", "depth"}
Words    == {"seq", "active", "stamp"}
Halves   == {"top", "bottom"}

(***************************************************************************)
(* The object as memset leaves it, and a reader that has loaded nothing.   *)
(***************************************************************************)
Zeroed == [seq |-> 0, active |-> 0, stamp |-> 0,
           buffer |-> [b \in 0..1 |-> [h \in Halves |-> 0]]]

Nothing == [f \in Words \cup Halves |-> 0]

FramesInit == /\ shm = [c \in Channels |-> Zeroed]
              /\ mapped = {}
              /\ shot = 0
              /\ todo = <<>>
              /\ at = 1
              /\ kills = 0
              /\ step = 1
              /\ got = Nothing

FramesTypeOK ==
  /\ shm \in [Channels -> [seq: Nat, active: 0..1, stamp: Nat,
                           buffer: [0..1 -> [Halves -> Nat]]]]
  /\ mapped \subseteq Channels
  /\ shot \in 0..LastFrame
  /\ todo \in {<<>>, <<"color">>, <<"depth">>, <<"color", "depth">>}
  /\ at \in 1..5
  /\ kills \in 0..Kills
  /\ step \in 1..9
  /\ got \in [Words \cup Halves -> Nat] /\ got.active \in 0..1

-----------------------------------------------------------------------------
(* The bridge: camera_loop is its only publishing thread.                  *)

\* process_frames: either image of a FrameSet may be missing or fail to convert.
NextFrameSet ==
  /\ todo = <<>>
  /\ shot < LastFrame
  /\ shot' = shot + 1
  /\ todo' \in {<<"color", "depth">>, <<"color">>, <<"depth">>}
  /\ UNCHANGED <<shm, mapped, at, kills>>

\* ensure_shared_*: a new process opens the existing object and zeroes it
\* before its first image.  memset is taken as one step: the words it writes
\* first are the header's, with sequence 0 until the next image is complete.
MapChannel ==
  /\ todo # <<>>
  /\ Head(todo) \notin mapped
  /\ shm' = [shm EXCEPT ![Head(todo)] = Zeroed]
  /\ mapped' = mapped \cup {Head(todo)}
  /\ UNCHANGED <<shot, todo, at, kills>>

\* The buffer the next image goes to.
Spare(c) == (shm[c].seq + 1) % 2

PublishOrder == <<"top", "bottom", "active", "stamp", "seq">>

\* publish_shared_*: the next store of the image in hand.
Publish ==
  /\ todo # <<>>
  /\ LET c == Head(todo)
         f == PublishOrder[at]
     IN  /\ c \in mapped
         /\ shm' = IF f \in Halves
                   THEN [shm EXCEPT ![c].buffer[Spare(c)][f] = shot]
                   ELSE [shm EXCEPT ![c][f] = CASE f = "active" -> Spare(c)
                                                [] f = "stamp"  -> shot
                                                [] f = "seq"    -> @ + 1]
  /\ IF at = Len(PublishOrder)
     THEN at' = 1 /\ todo' = Tail(todo)
     ELSE at' = at + 1 /\ UNCHANGED todo
  /\ UNCHANGED <<mapped, shot, kills>>

\* The watchdog kills the bridge between any two stores; the objects stay.
Kill ==
  /\ kills < Kills
  /\ kills' = kills + 1
  /\ mapped' = {}
  /\ todo' = <<>>
  /\ at' = 1
  /\ UNCHANGED <<shm, shot>>

Bridge == (NextFrameSet \/ MapChannel \/ Publish \/ Kill) /\ UNCHANGED readerVars

-----------------------------------------------------------------------------
(* A reader goes through a script: three header words, the two halves of   *)
(* the buffer its active word names, and words it loads once more.         *)

Copied == 5

Load(c, f) == IF f \in Halves THEN shm[c].buffer[got.active][f] ELSE shm[c][f]

\* A load; valid is what the reader demands of the header before it copies.
LoadNext(c, script, valid) ==
  /\ step <= Copied
  /\ step = 4 => valid
  /\ got' = [got EXCEPT ![script[step]] = Load(c, script[step])]
  /\ step' = step + 1

\* A second load that agrees with the first.
LoadAgain(c, script) ==
  /\ step \in Copied + 1 .. Len(script)
  /\ Load(c, script[step]) = got[script[step]]
  /\ step' = step + 1
  /\ UNCHANGED got

\* The header is refused or a word has changed.
Spoilt(c, script, valid) ==
  \/ step = 4 /\ ~valid
  \/ step \in Copied + 1 .. Len(script) /\ Load(c, script[step]) # got[script[step]]

Accepted(script) == step = Len(script) + 1

StartOver == step' = 1 /\ got' = Nothing
=============================================================================
