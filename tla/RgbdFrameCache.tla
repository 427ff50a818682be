--------------------------- MODULE RgbdFrameCache ---------------------------
(***************************************************************************)
(* The cache of exact RGB-D pairs beside the foam ring vision: a thread    *)
(* copies colour and depth of one FrameSet out of the shared memory, and   *)
(* get_exact waits for the pair with the capture time the Runtime has      *)
(* reported for an inference.                                              *)
(***************************************************************************)
EXTENDS SharedFrames, SequencesExt

CONSTANT CacheFrames   \* max_frames

ASSUME CacheAssumption == CacheFrames \in Nat \ {0}

VARIABLES stage,       \* where the cache thread is
          peeked,      \* the colour stamp it peeked at
          held,        \* the colour image it has copied
          cache,       \* _frames, oldest first
          lastCached,  \* _last_cached_timestamp
          wanted,      \* the capture time get_exact waits for, or 0
          givenUp,     \* history: capture times get_exact has given up early
          inserted,    \* history: the capture time of the pair inserted last
          overtaken    \* history: a FrameSet came in the middle of this pair's copies

cacheVars == <<stage, peeked, held, cache, lastCached>>
historyVars == <<givenUp, inserted, overtaken>>

Images == [stamp: Nat, top: Nat, bottom: Nat]
Pairs == [stamp: Nat, color: Images, depth: Images, overtaken: BOOLEAN]
NoImage == [stamp |-> 0, top |-> 0, bottom |-> 0]
Image(copy) == [stamp |-> copy.stamp, top |-> copy.top, bottom |-> copy.bottom]

Stamps == {cache[i].stamp : i \in DOMAIN cache}

CacheInit == /\ FramesInit
        /\ stage = "peek"
        /\ peeked = 0
        /\ held = NoImage
        /\ cache = <<>>
        /\ lastCached = 0
        /\ wanted = 0
        /\ givenUp = {}
        /\ inserted = 0
        /\ overtaken = FALSE

-----------------------------------------------------------------------------
(* The cache thread                                                        *)

ColorHeader == <<"seq", "active", "stamp">>
DepthHeader == <<"active", "seq", "stamp">>

\* Mutant: only the sequence is loaded again.
RecheckSequence == <<"seq">>

Recheck == <<"seq", "active", "stamp">>

Script == (IF stage = "color" THEN ColorHeader ELSE DepthHeader)
            \o <<"top", "bottom">> \o Recheck

\* Mutant: the active buffer is not compared with the sequence.
HeaderValidLoosely == got.seq > 0

\* What read_latest asks of the header: the buffer must be the published one.
HeaderValid == got.seq > 0 /\ got.active = got.seq % 2

PeekColor ==
  /\ stage = "peek"
  /\ peeked' = shm["color"].stamp
  /\ stage' = "compare"
  /\ UNCHANGED <<readerVars, held, cache, lastCached>>

\* Mutant: a FrameSet counts as cached before it is read.
PeekDepthRemembering ==
  /\ stage = "compare"
  /\ stage' = IF shm["depth"].stamp = peeked /\ peeked # lastCached THEN "color" ELSE "peek"
  /\ lastCached' = peeked
  /\ UNCHANGED <<readerVars, peeked, held, cache>>

\* That both sequences are positive is asked again by read_latest.
PeekDepth ==
  /\ stage = "compare"
  /\ stage' = IF shm["depth"].stamp = peeked /\ peeked # lastCached THEN "color" ELSE "peek"
  /\ UNCHANGED <<readerVars, peeked, held, cache, lastCached>>

\* read_latest of either reader: one load.
ReadLatest ==
  /\ stage \in Channels
  /\ LoadNext(stage, Script, HeaderValid) \/ LoadAgain(stage, Script)
  /\ UNCHANGED cacheVars

\* SharedMemoryConcurrentUpdate or SharedRgbdUnavailable: from the top again.
ReadFails ==
  /\ stage \in Channels
  /\ Spoilt(stage, Script, HeaderValid)
  /\ StartOver
  /\ stage' = "peek"
  /\ held' = NoImage
  /\ UNCHANGED <<peeked, cache, lastCached>>

KeepColor ==
  /\ stage = "color"
  /\ Accepted(Script)
  /\ held' = Image(got)
  /\ StartOver
  /\ stage' = "depth"
  /\ UNCHANGED <<peeked, cache, lastCached>>

\* The other pairs, in their order: no two pairs of the cache have one time.
Without(stamp) ==
  LET same == {i \in DOMAIN cache : cache[i].stamp = stamp}
  IN  IF same = {} THEN cache ELSE RemoveAt(cache, CHOOSE i \in same : TRUE)

\* _insert: a pair of the same time is replaced; the oldest pairs go when there
\* are too many and, whatever their number, when they are too old.
Insert(pair) ==
  LET all == Append(Without(pair.stamp), pair)
  IN  \E n \in 0..CacheFrames :
        /\ n <= Len(all)
        /\ cache' = SubSeq(all, Len(all) - n + 1, Len(all))

\* The two copies are of one FrameSet when their stamps are equal.
SamePair == held.stamp = got.stamp

\* What _last_cached_timestamp becomes.
Newest == held.stamp

InsertPair ==
  /\ stage = "depth"
  /\ Accepted(Script)
  /\ SamePair
  /\ Insert([stamp |-> held.stamp, color |-> held, depth |-> Image(got),
             overtaken |-> overtaken])
  /\ lastCached' = Newest
  /\ stage' = "peek"
  /\ held' = NoImage
  /\ StartOver
  /\ UNCHANGED peeked

DiscardPair ==
  /\ stage = "depth"
  /\ Accepted(Script)
  /\ ~SamePair
  /\ stage' = "peek"
  /\ held' = NoImage
  /\ StartOver
  /\ UNCHANGED <<peeked, cache, lastCached>>

CacheThread == \/ PeekColor \/ PeekDepth \/ ReadLatest \/ ReadFails
               \/ KeepColor \/ InsertPair \/ DiscardPair

CacheStep == /\ CacheThread
             /\ overtaken' = (overtaken /\ stage' # "peek")
             /\ inserted' = IF stage = "depth" /\ Accepted(Script) /\ SamePair THEN held.stamp ELSE inserted
             /\ UNCHANGED <<bridgeVars, wanted, givenUp>>

-----------------------------------------------------------------------------
(* get_exact, called by the online processor for one inference at a time   *)

Ask == /\ wanted = 0
       /\ wanted' \in 1..shot
       /\ UNCHANGED givenUp

Hit == /\ wanted \in Stamps
       /\ wanted' = 0
       /\ UNCHANGED givenUp

\* Mutant: a full cache is taken for one that has moved past.
MovedPastOrFull == /\ cache # <<>>
                   /\ \/ cache[1].stamp > wanted
                      \/ Len(cache) >= CacheFrames

\* The cache has moved past the capture time.
MovedPast == /\ cache # <<>>
             /\ \/ cache[1].stamp > wanted
                \/ Last(cache).stamp > wanted /\ Len(cache) >= CacheFrames

GiveUp == /\ wanted # 0
          /\ wanted \notin Stamps
          /\ MovedPast
          /\ givenUp' = givenUp \cup {wanted}
          /\ wanted' = 0

Timeout == /\ wanted # 0
           /\ wanted \notin Stamps
           /\ wanted' = 0
           /\ UNCHANGED givenUp

GetExact == Ask \/ Hit \/ GiveUp \/ Timeout

-----------------------------------------------------------------------------
CacheNext ==
  \/ /\ Bridge
     /\ overtaken' = (overtaken \/ (step > 1 /\ shot' # shot))
     /\ UNCHANGED <<cacheVars, wanted, givenUp, inserted>>
  \/ CacheStep
  \/ GetExact /\ UNCHANGED <<bridgeVars, readerVars, cacheVars, inserted, overtaken>>

-----------------------------------------------------------------------------
CacheTypeOK ==
  /\ FramesTypeOK
  /\ stage \in {"peek", "compare"} \cup Channels
  /\ peeked \in Nat
  /\ held \in Images
  /\ cache \in Seq(Pairs) /\ Len(cache) <= CacheFrames
  /\ lastCached \in Nat
  /\ wanted \in 0..shot
  /\ givenUp \subseteq 1..LastFrame
  /\ inserted \in Nat
  /\ overtaken \in BOOLEAN

\* The stamps and halves of both images of a pair.
Parts(p) == {p.color.stamp, p.color.top, p.color.bottom,
             p.depth.stamp, p.depth.top, p.depth.bottom}

\* A pair whose copies were finished before the camera's next FrameSet is one
\* FrameSet: every part of the colour and of the depth image shows the FrameSet
\* its stamp names, however the loads of read_latest fall between the stores of
\* the publication that is going on, and although a bridge that was killed
\* counts its sequence from zero again.  A pair without a time, which get_exact
\* never hands out, is not meant: two restarts during one copy can make one.
PromptPairIsOneFrameSet ==
  \A i \in DOMAIN cache :
    ~cache[i].overtaken /\ cache[i].stamp # 0 => Parts(cache[i]) = {cache[i].stamp}

\* No cached image mixes two FrameSets, even when the bridge overtakes the copy
\* or is killed and comes back to the same sequence number during it.
CachedImagesAreWhole ==
  \A i \in DOMAIN cache :
    cache[i].stamp # 0 => /\ cache[i].color.top = cache[i].color.bottom
                          /\ cache[i].depth.top = cache[i].depth.bottom

\* When get_exact gives a capture time up before its timeout, no pair with that
\* time is cached later: it would not have paid to wait.
GiveUpIsFinal == givenUp \cap Stamps = {}
=============================================================================
