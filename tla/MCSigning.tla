------------------------------ MODULE MCSigning ------------------------------
(* Small instances of Signing for TLC: see the .cfg files.                 *)
EXTENDS Signing, TLC

CONSTANTS a, b

(* One after the other.                                                    *)
InTurn == a :> 1 @@ b :> 2
Twins == Permutations(Calls)

(* What the properties of the first run need of a state.  Left out is what *)
(* no step from here on reads and none of them looks at: the signed PDF,   *)
(* who a call was about once its signers are counted, whom the owner       *)
(* invited last, and which status other than pending and completed the     *)
(* document has.                                                           *)
Spent ==
    {"tallied", "generating", "completing", "notifying", "attested", "attesting", "declined"}

Relevant ==
    <<ordered, {doc} \cap {"pending", "completed"}, status, keyed, guest, history, desk, todo, sends,
      IF desk = "inviting" THEN whom ELSE None,
      [c \in Calls |-> [call[c] EXCEPT !.cut = FALSE,
                                       !.who = IF call[c].at \in Spent THEN None ELSE @]]>>
==============================================================================
