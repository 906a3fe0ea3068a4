--------------------------- MODULE TranscriptCache ---------------------------
(***************************************************************************)
(* get_transcript (backend/api.py) and the cache in front of the bucket    *)
(* that it keeps (backend/cache.py: _IdleLRU).  The handler is a coroutine *)
(* that awaits nothing, so one request is handled at a time; the ingest    *)
(* thread and the archiver go on between its reads.                        *)
(***************************************************************************)
EXTENDS Integers, Sequences, SequencesExt, FiniteSetsExt, SequenceFilter

CONSTANTS
  Keys,        \* main transcripts, one for each session
  SizeOf,      \* version -> bytes
  MaxBytes,    \* max_bytes
  IdleTime,    \* idle_seconds
  MaxClock,    \* bound: writes to the bucket
  MaxTime      \* bound: readings of the wall clock

ASSUME CacheAssumption == /\ {MaxBytes, IdleTime, MaxClock, MaxTime} \subseteq Nat
                          /\ SizeOf \in [1 .. MaxClock -> Nat]

VARIABLES
  clock, past, bucket, row, request, served,  \* as in TranscriptService
  items,       \* _items in order: [etag, body, ts], least recently used first
  size,        \* _size
  now          \* time.time(), which does not run backwards

Service == INSTANCE TranscriptService
             WITH Keys <- Keys, MaxClock <- MaxClock, clock <- clock, past <- past,
                  bucket <- bucket, row <- row, request <- request, served <- served

cache == <<items, size>>
world == <<clock, past, bucket, row>>
vars  == <<world, request, served, cache, now>>

Init == Service!Init /\ items = <<>> /\ size = 0 /\ now = 0

-----------------------------------------------------------------------------
(* _IdleLRU.                                                               *)

Version == 1 .. MaxClock
Item    == [etag : Version, body : Version, ts : Nat]

\* n -> bytes in the first n items of s
BytesUpTo(s) ==
  LET sum[n \in 0 .. Len(s)] == IF n = 0 THEN 0 ELSE sum[n - 1] + SizeOf[s[n].body]
  IN  sum

Bytes(s) == BytesUpTo(s)[Len(s)]

Stale == {i \in Item : i.ts < now - IdleTime}

\* Mutant of Remaining: _evict_idle forgets to give the bytes back.
RemainingAll == size

\* _size after _evict_idle.
Remaining == size - Bytes(Keep(items, Stale))

\* How many items of s, of n bytes, popitem(last=False) takes away to make room.
Evicted(s, n, bytes) ==
  Min({i \in 0 .. Len(s) : i = Len(s) \/ n - Bytes(SubSeq(s, 1, i)) + bytes <= MaxBytes})

\* What put leaves in place before it makes room, and _size then.
Live == Keep(items, Item \ Stale)
Others(etag) == Keep(Live, {i \in Item : i.etag # etag})
Left(etag) == Remaining - Bytes(Keep(Live, {i \in Item : i.etag = etag}))

put(etag, body) ==
  LET n == Evicted(Others(etag), Left(etag), SizeOf[body])
  IN /\ items' = Append(SubSeq(Others(etag), n + 1, Len(Others(etag))),
                        [etag |-> etag, body |-> body, ts |-> now])
     /\ size' = Left(etag) - Bytes(SubSeq(Others(etag), 1, n)) + SizeOf[body]

\* Mutant of Cached: entries are looked up by session.
CachedByKey(i, k, etag) == items[i].etag \in past[k]

Cached(i, k, etag) == items[i].etag = etag

\* Mutant of touch: the entry stays where it is in the order.
touchInPlace(i) == items' = [items EXCEPT ![i].ts = now]

\* get: an entry is served however long it lay idle, and moves to the end.
touch(i) == items' = Append(RemoveAt(items, i), [items[i] EXCEPT !.ts = now])

-----------------------------------------------------------------------------
(* get_transcript.                                                         *)

Ask(k) == Service!Ask(k) /\ UNCHANGED <<cache, now>>

Respond(body) ==
  /\ served' = [state |-> "sent", key |-> request.key, etag |-> request.etag, body |-> body]
  /\ request' = Service!NoRequest

Hit ==
  /\ request # Service!NoRequest
  /\ \E i \in DOMAIN items : /\ Cached(i, request.key, request.etag)
                             /\ touch(i)
                             /\ Respond(items[i].body)
  /\ UNCHANGED <<world, size, now>>

Missed == \A i \in DOMAIN items : ~Cached(i, request.key, request.etag)

\* Mutant of Download: an object that is gone is sent as an empty transcript.
DownloadMissing ==
  /\ request # Service!NoRequest
  /\ Missed
  /\ Respond(bucket[request.key])
  /\ UNCHANGED <<world, cache, now>>

\* The bytes may be newer than the etag that they are stored and sent under.
Download ==
  /\ request # Service!NoRequest
  /\ Missed
  /\ bucket[request.key] # 0
  /\ put(request.etag, bucket[request.key])
  /\ Respond(bucket[request.key])
  /\ UNCHANGED <<world, now>>

DownloadFails ==
  /\ Service!Fail
  /\ Missed
  /\ UNCHANGED <<cache, now>>

-----------------------------------------------------------------------------
Tick ==
  /\ now < MaxTime
  /\ now' = now + 1
  /\ UNCHANGED <<world, request, served, cache>>

Outside == \E k \in Keys : Service!Put(k) \/ Service!Remove(k) \/ Service!Ingest(k)

Next ==
  \/ Outside /\ UNCHANGED <<cache, now>>
  \/ \E k \in Keys : Ask(k)
  \/ Hit \/ Download \/ DownloadFails
  \/ Tick

Spec == Init /\ [][Next]_vars

-----------------------------------------------------------------------------
(* Correctness.                                                            *)

TypeOK ==
  /\ clock \in 0 .. MaxClock
  /\ past \in [Keys -> SUBSET Version]
  /\ bucket \in [Keys -> Version \cup {0}]
  /\ row \in [Keys -> Version \cup {0}]
  /\ request \in [state : {"asked"}, key : Keys, etag : Version] \cup {Service!NoRequest}
  /\ served \in [state : {"sent"}, key : Keys, etag : Version, body : Version]
                  \cup {Service!NoReply}
  /\ items \in Seq(Item)
  /\ size \in Nat
  /\ now \in 0 .. MaxTime

\* The bookkeeping of put and _evict_idle never drifts from what is stored, so the
\* cap stays a cap over any sequence of calls: it is exceeded by a single item that is
\* larger than it, and by nothing else.
CapHolds == size = Bytes(items) /\ (size <= MaxBytes \/ Len(items) = 1)

Ranks == DOMAIN items

Dropped(i) == \A j \in DOMAIN items' : items'[j].etag # items[i].etag

\* What is dropped for room was used no later than anything that is kept, and without
\* dropping the last of it the new item would not have fitted.
EvictsLeastRecentForRoom ==
  [][\A i \in Ranks : Dropped(i) /\ items[i] \notin Stale =>
       /\ \A j \in Ranks : ~Dropped(j) => items[i].ts <= items[j].ts
       /\ \E j \in Ranks : /\ Dropped(j) /\ items[j] \notin Stale
                           /\ size' + SizeOf[items[j].body] > MaxBytes]_vars

\* The cache is invisible: handler and cache implement TranscriptService, so no
\* reply is older than its etag and none belongs to another session, whatever was
\* rewritten, deleted or ingested between lookup, download and a later hit.
Implements == Service!Spec

=============================================================================
