----------------------------- MODULE ReplayCache -----------------------------
(***************************************************************************)
(* replays[] and replay_next of Assignment2/server_real.c: the ring of the *)
(* last MAX_REPLAY nonces, which the KDC's and the chat server's threads   *)
(* ask and extend through replay_seen_or_add, one critical section of      *)
(* state_lock.  The time kept beside each nonce is never read: left out.   *)
(***************************************************************************)
EXTENDS Integers, Sequences

CONSTANTS Nonces, NoNonce, MAX_REPLAY

ASSUME CacheAssumption == NoNonce \notin Nonces /\ MAX_REPLAY \in Nat \ {0}

VARIABLES
  replays,      \* the ring
  replay_next,  \* where the next nonce goes
  recorded      \* history: every nonce put into the ring, in order

cache == <<replays, replay_next, recorded>>

Slots == 0 .. MAX_REPLAY - 1

CacheInit == /\ replays = [i \in Slots |-> NoNonce]
             /\ replay_next = 0
             /\ recorded = <<>>

CacheTypeOK == /\ replays \in [Slots -> Nonces \cup {NoNonce}]
               /\ replay_next \in Slots
               /\ recorded \in Seq(Nonces)

Seen(nonce) == \E i \in Slots : replays[i] = nonce

\* Faulty rings: one entry is never used; the end is run over.
WrapsEarly(i) == IF i + 2 >= MAX_REPLAY THEN 0 ELSE i + 1
NeverWraps(i) == i + 1

Following(i) == (i + 1) % MAX_REPLAY

\* A nonce not in the ring is put there: the caller goes on.
Record(nonce) ==
  /\ ~Seen(nonce)
  /\ replays' = [replays EXCEPT ![replay_next] = nonce]
  /\ replay_next' = Following(replay_next)
  /\ recorded' = Append(recorded, nonce)

\* A nonce in the ring stays there, and the caller refuses its line.
Refuse(nonce) == Seen(nonce) /\ UNCHANGED cache

replay_seen_or_add(nonce) == Record(nonce) \/ Refuse(nonce)

CacheNext == \E nonce \in Nonces : replay_seen_or_add(nonce)

CacheSpec == CacheInit /\ [][CacheNext]_cache
-----------------------------------------------------------------------------
\* No repeat is taken for new before MAX_REPLAY other nonces have been put
\* into the ring since, whichever threads brought them.
RepeatWindow ==
  \A i, j \in 1 .. Len(recorded) :
    i < j /\ recorded[i] = recorded[j] => j - i > MAX_REPLAY
=============================================================================
