--------------------------- MODULE FrameTransport ---------------------------
(***************************************************************************)
(* The bridge with one of its readers: the cache of the foam ring vision,  *)
(* the Runtime's capture or the depth sampler of the carton bundle app.    *)
(* Readers write nothing that others see, so that one at a time is enough. *)
(* The readers that compare only the sequence are followed while the       *)
(* bridge is not restarted: a bridge that counts from one again can give   *)
(* an old number to a new image.                                           *)
(***************************************************************************)
EXTENDS RgbdFrameCache, FrameReaders

AllVars == <<bridgeVars, readerVars, cacheVars, wanted, historyVars, reader, taken>>

TransportInit == /\ CacheInit
                 /\ reader \in {"cache"} \cup Readers
                 /\ taken = Nothing

CacheMoves == reader = "cache" /\ CacheStep /\ UNCHANGED <<reader, taken>>

TransportNext ==
  \/ reader = "cache" /\ CacheNext /\ UNCHANGED <<reader, taken>>
  \/ /\ reader # "cache"
     /\ \/ Bridge /\ kills' = 0 /\ UNCHANGED taken
        \/ ReaderStep /\ UNCHANGED bridgeVars
     /\ UNCHANGED <<cacheVars, wanted, historyVars, reader>>

TransportSpec == TransportInit /\ [][TransportNext]_AllVars

\* The cache thread is always scheduled again after its poll interval; the
\* camera owes nothing.
FairTransportSpec == TransportSpec /\ WF_AllVars(CacheMoves)

-----------------------------------------------------------------------------
TransportTypeOK ==
  /\ CacheTypeOK
  /\ reader \in {"cache"} \cup Readers
  /\ taken \in [Words \cup Halves -> Nat]

\* No image a reader goes on with mixes two FrameSets: neither one in the cache,
\* even when the bridge overtakes the copy or is killed and comes back to the
\* same sequence number, nor one the Runtime infers from, which checks only the
\* sequence.
ImagesAreWhole == CachedImagesAreWhole /\ ImageIsWhole

\* When a bridge that has published on both channels pauses after a complete
\* FrameSet, the cache thread gets it, although any number of its reads have been
\* spoilt before and an earlier bridge may have died between two stores.
CacheCatchesUp ==
  []<>(reader = "cache" /\ todo = <<>> /\ mapped = Channels /\ shm["color"].stamp = shm["depth"].stamp
         => inserted = shm["color"].stamp)
=============================================================================
