------------------------------ MODULE MCIngest ------------------------------
(* Small instances of Ingest for TLC.                                      *)
EXTENDS Ingest, TLC

CONSTANTS p1, p2,      \* two names
          c1, c2, bad, \* two photos, and one the converter rejects
          QueueSize    \* cfg.queue_size

(* Feeds: what the user drops, under which name.                           *)
OneFile    == {<<p1, c1>>}
OnePhoto   == {<<p1, c1>>, <<p2, c1>>}            \* the same photo, two names
TwoPhotos  == {<<p1, c1>>, <<p2, c2>>}
SameName   == {<<p1, c1>>, <<p1, c2>>}            \* the camera's counter wraps
SameAndBad == {<<p1, c1>>, <<p1, bad>>}
EitherPhoto == {<<p1, c1>>, <<p2, c1>>, <<p2, c2>>}

(* Fingerprints: exact, or blind beyond size, mtime and the first 4 KB.    *)
Exact == [c \in Hashes |-> c]
Blind == [c \in Hashes |-> IF c = NoFile THEN NoFile ELSE c1]

WorkerSymmetry == Permutations(Workers)

(* "Bounded in-memory queue (cfg.queue_size)" (worker.h:19).               *)
BoundedQueue == Len(files) <= QueueSize

=============================================================================
