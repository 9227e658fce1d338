---------------------------- MODULE MCDocsCollab ----------------------------
(* Small instances of DocsCollab for TLC: see the .cfg files.              *)
EXTENDS DocsCollab, TLC

CONSTANTS w1, w2, w3, v

(* Writers are interchangeable.                                            *)
Symmetry == Permutations({w1, w2, w3})

(* JoinersConverge says nothing any more once a queue has overflowed, a    *)
(* statement has failed or a socket was closed.                            *)
Spoilt == dropped \/ failures # 0 \/ opens # Cardinality({c \in Clients : open[c]})

(* What some later step reads or some property of the run looks at, which  *)
(* is neither the room a handler had that has returned nor which of the    *)
(* above it was.                                                           *)
Relevant ==
    <<log, hubRoom, members, pc, [c \in Clients |-> IF pc[c] = "away" THEN 0 ELSE room[c]],
      out, routing, client, counts, Spoilt, lost \ log>>
=============================================================================
