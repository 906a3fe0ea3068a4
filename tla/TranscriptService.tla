-------------------------- MODULE TranscriptService --------------------------
(***************************************************************************)
(* What GET /api/sessions/{id}/transcript promises (backend/api.py:        *)
(* get_transcript), with no word about how bytes are found: under the etag *)
(* that `files` has for the session it replies with a version of that      *)
(* session's object which is at least as new as the etag.                  *)
(*                                                                         *)
(* Versions are numbered by the writes of the bucket, as in Ingest, and an *)
(* etag is the number of the version it stands for.                        *)
(***************************************************************************)
EXTENDS Integers

CONSTANTS
  Keys,       \* main transcripts, one for each session
  MaxClock    \* bound: writes to the bucket

VARIABLES
  clock,      \* number of the last write to the bucket
  past,       \* key -> the versions its object has had
  bucket,     \* key -> its version now, 0 when the object is gone
  row,        \* key -> r2_etag of its row in `files`, 0 when there is no row
  request,    \* the request being handled
  served      \* the last reply

NoRequest == [state |-> "none"]
NoReply   == [state |-> "none"]

objects == <<clock, past, bucket>>
vars    == <<objects, row, request, served>>

Init ==
  /\ clock = 0
  /\ past = [k \in Keys |-> {}]
  /\ bucket = [k \in Keys |-> 0]
  /\ row = [k \in Keys |-> 0]
  /\ request = NoRequest
  /\ served = NoReply

Put(k) ==
  /\ clock < MaxClock
  /\ clock' = clock + 1
  /\ past' = [past EXCEPT ![k] = @ \cup {clock + 1}]
  /\ bucket' = [bucket EXCEPT ![k] = clock + 1]
  /\ UNCHANGED <<row, request, served>>

Remove(k) ==
  /\ bucket[k] # 0
  /\ bucket' = [bucket EXCEPT ![k] = 0]
  /\ UNCHANGED <<clock, past, row, request, served>>

\* An ingest run writes the etag it listed, now or long ago, or deletes the row.
Ingest(k) ==
  /\ row' \in {[row EXCEPT ![k] = v] : v \in past[k] \cup {0}}
  /\ UNCHANGED <<objects, request, served>>

Ask(k) ==
  /\ request = NoRequest
  /\ row[k] # 0
  /\ request' = [state |-> "asked", key |-> k, etag |-> row[k]]
  /\ UNCHANGED <<objects, row, served>>

Reply ==
  /\ request # NoRequest
  /\ \E v \in past[request.key] :
       /\ v >= request.etag
       /\ served' = [state |-> "sent", key |-> request.key, etag |-> request.etag, body |-> v]
  /\ request' = NoRequest
  /\ UNCHANGED <<objects, row>>

\* The object is gone, or R2 refuses the call: the request fails.
Fail ==
  /\ request # NoRequest
  /\ request' = NoRequest
  /\ UNCHANGED <<objects, row, served>>

Next ==
  \/ \E k \in Keys : Put(k) \/ Remove(k) \/ Ingest(k) \/ Ask(k)
  \/ Reply \/ Fail

Spec == Init /\ [][Next]_vars

=============================================================================
