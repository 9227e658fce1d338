---------------------------- MODULE Signing_proofs ----------------------------
(***************************************************************************)
(* Proofs about Signing, for every set of signers and every order of them, *)
(* every number of calls, of times the owner sends and of failures.        *)
(***************************************************************************)
EXTENDS Signing, TLAPS, FiniteSetTheorems

-----------------------------------------------------------------------------
(* What the helpers of the statements do.                                  *)

LEMMA OutcomesAre ==
    ASSUME NEW kind
    PROVE  Outcomes(kind) \subseteq BOOLEAN
  BY DEF Outcomes

LEMMA NoteTypes ==
    ASSUME failed \subseteq Kinds, NEW ok \in BOOLEAN, NEW kind \in Kinds, Note(ok, kind)
    PROVE  failed' \subseteq Kinds /\ failed \subseteq failed' /\ (~ok => kind \in failed')
  BY DEF Note

CallTyped(k) ==
    /\ k \in [Calls -> [at : Places, who : Signers \cup {None}, last : BOOLEAN, cut : BOOLEAN]]
    /\ \A c \in Calls : k[c].at # "idle" => k[c].who \in Signers

LEMMA GotoTypes ==
    ASSUME TypeOK, NEW c \in Calls, call[c].at # "idle", NEW place \in Places, Goto(c, place),
           keyed \subseteq keyed', place = "renewed" => call[c].who \in keyed'
    PROVE  CallTyped(call') /\ \A d \in Calls : call'[d].at = "renewed" => call'[d].who \in keyed'
  BY DEF TypeOK, Goto, CallTyped

LEMMA ReturnTypes ==
    ASSUME TypeOK, NEW c \in Calls, Return(c), keyed \subseteq keyed'
    PROVE  CallTyped(call') /\ \A d \in Calls : call'[d].at = "renewed" => call'[d].who \in keyed'
  BY DEF TypeOK, Return, Resting, Places, CallTyped

LEMMA FlagTypes ==
    ASSUME TypeOK, NEW c \in Calls, call[c].at # "idle", NEW place \in Places,
           place # "renewed", keyed' = keyed, NEW b \in BOOLEAN,
           \/ call' = [call EXCEPT ![c].at = place, ![c].last = b]
           \/ call' = [call EXCEPT ![c].at = place, ![c].cut = b]
    PROVE  CallTyped(call') /\ \A d \in Calls : call'[d].at = "renewed" => call'[d].who \in keyed'
<1>1. \/ call' = [call EXCEPT ![c].at = place, ![c].last = TRUE]
      \/ call' = [call EXCEPT ![c].at = place, ![c].last = FALSE]
      \/ call' = [call EXCEPT ![c].at = place, ![c].cut = TRUE]
      \/ call' = [call EXCEPT ![c].at = place, ![c].cut = FALSE]
  <2>1. b = TRUE \/ b = FALSE
    OBVIOUS
  <2> QED BY <2>1
<1> QED BY <1>1 DEF TypeOK, CallTyped

LEMMA SetStatusTypes ==
    ASSUME TypeOK, NEW s \in Signers,
           NEW value \in {"pending", "sent", "viewed", "signed", "declined"}, SetStatus(s, value)
    PROVE  /\ status' \in [Signers -> {"pending", "sent", "viewed", "signed", "declined"}]
           /\ finished' \in BOOLEAN
  BY DEF TypeOK, SetStatus, Signed

LEMMA RenewTypes ==
    ASSUME TypeOK, NEW s \in Signers, NEW senders \in SUBSET (Calls \cup {Owner}),
           Renew(s, senders)
    PROVE  /\ keyed' \subseteq Signers /\ linked' \subseteq keyed' /\ mailing' \subseteq keyed'
           /\ fresh' \subseteq Calls \cup {Owner}
           /\ keyed \subseteq keyed' /\ s \in keyed'
  BY DEF TypeOK, Renew

LEMMA InitType == Init => TypeOK
<1> SUFFICES ASSUME Init PROVE TypeOK
  OBVIOUS
<1>1. status \in [Signers -> {"pending", "sent", "viewed", "signed", "declined"}]
  BY DEF Init
<1>2. \A c \in Calls : call[c] = Resting
  BY DEF Init
<1>3. call \in [Calls -> [at : Places, who : Signers \cup {None}, last : BOOLEAN, cut : BOOLEAN]]
  <2>1. Resting \in [at : Places, who : Signers \cup {None}, last : BOOLEAN, cut : BOOLEAN]
    BY DEF Resting, Places
  <2> QED BY <2>1 DEF Init
<1>4. \A c \in Calls : call[c].at = "idle"
  BY <1>2 DEF Resting
<1>5. pdf \in BOOLEAN /\ crossed \in BOOLEAN /\ finished \in BOOLEAN
  BY DEF Init
<1>6. sends \in 0..MaxSends
  BY SigningAssumption DEF Init
<1> QED BY <1>1, <1>3, <1>4, <1>5, <1>6 DEF Init, TypeOK

(* Of the owner's steps.                                                   *)
LEMMA OwnerType ==
    ASSUME TypeOK, Send \/ SendToken \/ SendPending \/ VoidDocument
    PROVE  TypeOK'
<1> USE SigningAssumption DEF row, owner, guest, history
<1>1. CASE Send
  BY <1>1 DEF Send, TypeOK
<1>2. CASE SendToken
  <2>1. PICK s \in Signers : /\ whom' = s
                             /\ todo' = todo \ {s}
                             /\ \E ok \in Outcomes("link") :
                                  LET invite == ok /\ (ordered => First(s, Signers)) IN
                                  /\ Note(ok, "link")
                                  /\ IF ok THEN Renew(s, IF invite THEN {Owner} ELSE {})
                                           ELSE UNCHANGED <<keyed, guest>>
                                  /\ desk' = IF invite THEN "inviting" ELSE "sending"
    BY <1>2 DEF SendToken
  <2>2. PICK ok \in BOOLEAN :
               /\ Note(ok, "link")
               /\ IF ok THEN Renew(s, IF ok /\ (ordered => First(s, Signers)) THEN {Owner} ELSE {})
                        ELSE UNCHANGED <<keyed, guest>>
               /\ desk' = IF ok /\ (ordered => First(s, Signers)) THEN "inviting" ELSE "sending"
    BY <2>1, OutcomesAre
  <2>3. failed' \subseteq Kinds
    BY <2>2, NoteTypes DEF TypeOK, Kinds
  <2>4. /\ keyed' \subseteq Signers /\ linked' \subseteq keyed' /\ mailing' \subseteq keyed'
        /\ fresh' \subseteq Calls \cup {Owner} /\ keyed \subseteq keyed' /\ (ok => s \in keyed')
    <3>1. CASE ok
      BY <3>1, <2>2, RenewTypes
    <3>2. CASE ~ok
      BY <3>2, <2>2 DEF TypeOK
    <3> QED BY <3>1, <3>2
  <2> QED BY <1>2, <2>1, <2>2, <2>3, <2>4 DEF SendToken, TypeOK
<1>3. CASE SendPending
  <2>1. PICK ok \in BOOLEAN : Note(ok, "other") /\ doc' = IF ok THEN "pending" ELSE doc
    BY <1>3, OutcomesAre DEF SendPending
  <2>2. failed' \subseteq Kinds
    BY <2>1, NoteTypes DEF TypeOK, Kinds
  <2> QED BY <1>3, <2>1, <2>2 DEF SendPending, TypeOK
<1>4. CASE VoidDocument
  BY <1>4 DEF VoidDocument, TypeOK
<1> QED BY <1>1, <1>2, <1>3, <1>4

LEMMA InviteTypes ==
    ASSUME TypeOK, NEW s \in Signers, NEW by \in Calls \cup {Owner}, s \in keyed, Invite(s, by)
    PROVE  /\ status' \in [Signers -> {"pending", "sent", "viewed", "signed", "declined"}]
           /\ finished' \in BOOLEAN /\ failed' \subseteq Kinds /\ failed \subseteq failed'
           /\ fresh' \subseteq Calls \cup {Owner}
           /\ mailing' \subseteq keyed
<1>1. PICK ok \in BOOLEAN :
         /\ Note(ok, "other")
         /\ IF ok THEN SetStatus(s, "sent") ELSE UNCHANGED <<status, finished>>
  BY OutcomesAre DEF Invite
<1>2. failed' \subseteq Kinds /\ failed \subseteq failed'
  BY <1>1, NoteTypes DEF TypeOK, Kinds
<1>3. /\ status' \in [Signers -> {"pending", "sent", "viewed", "signed", "declined"}]
      /\ finished' \in BOOLEAN
  BY <1>1, SetStatusTypes DEF TypeOK
<1> QED BY <1>2, <1>3 DEF Invite, TypeOK

(* Of the calls' steps.                                                    *)
LEMMA StartType ==
    ASSUME TypeOK, NEW c \in Calls, NEW s \in Signers,
           SubmitSignature(c, s) \/ PrepareSignature(c, s) \/ DeclineSigning(c, s)
    PROVE  TypeOK'
<1>1. Start(c, s, "found") \/ Start(c, s, "prepared") \/ Start(c, s, "declining")
  BY DEF SubmitSignature, PrepareSignature, DeclineSigning
<1>2. PICK place \in {"found", "prepared", "declining"} :
         call' = [call EXCEPT ![c] = [at |-> place, who |-> s, last |-> FALSE, cut |-> FALSE]]
  BY <1>1 DEF Start, Resting
<1>3. CallTyped(call') /\ \A d \in Calls : call'[d].at = "renewed" => call'[d].who \in keyed
  BY <1>2 DEF TypeOK, CallTyped, Places
<1> QED BY <1>1, <1>3 DEF Start, CallTyped, TypeOK, row, owner, guest, history

LEMMA SignerType ==
    ASSUME TypeOK, NEW s \in Signers, Mail(s) \/ ListDocumentsToSign(s) \/ RecordView(s)
    PROVE  TypeOK'
<1> USE DEF row, owner, guest, history
<1>1. CASE Mail(s)
  <2>1. PICK ok \in BOOLEAN : Note(ok, "link") /\ linked' = IF ok THEN linked \cup {s} ELSE linked
    BY <1>1, OutcomesAre DEF Mail
  <2>2. failed' \subseteq Kinds
    BY <2>1, NoteTypes DEF TypeOK, Kinds
  <2> QED BY <1>1, <2>1, <2>2 DEF Mail, TypeOK
<1>2. CASE ListDocumentsToSign(s)
  BY <1>2 DEF ListDocumentsToSign, Listed, TypeOK
<1>3. CASE RecordView(s)
  BY <1>3 DEF RecordView, TypeOK
<1> QED BY <1>1, <1>2, <1>3

LEMMA SubmitType ==
    ASSUME TypeOK, NEW c \in Calls,
           CheckOrder(c) \/ Sign(c) \/ Tally(c) \/ ReadSigners(c) \/ Upload(c) \/ Complete(c)
    PROVE  TypeOK'
<1> USE DEF row, owner, guest, history
<1> DEFINE Calm == CallTyped(call') /\ \A d \in Calls : call'[d].at = "renewed" => call'[d].who \in keyed'
<1>1. CASE CheckOrder(c)
  <2>1. Calm
    BY <1>1, GotoTypes, ReturnTypes DEF CheckOrder, Places
  <2> QED BY <1>1, <2>1 DEF CheckOrder, CallTyped, TypeOK
<1>2. CASE Sign(c)
  <2>1. Calm
    BY <1>2, GotoTypes DEF Sign, Places
  <2>2. call[c].who \in Signers
    BY <1>2 DEF Sign, TypeOK
  <2> QED BY <1>2, <2>1, <2>2 DEF Sign, CallTyped, TypeOK
<1>3. CASE Tally(c)
  <2>1. PICK counted \in BOOLEAN, summed \in BOOLEAN :
           /\ failed' = failed \cup (IF counted THEN {} ELSE {"count"})
                             \cup (IF summed THEN {} ELSE {"total"})
           /\ call' = [call EXCEPT ![c].at = "tallied",
                                   ![c].last = (IF counted THEN Cardinality(Signed) ELSE 0)
                                               = (IF summed THEN Cardinality(Signers) ELSE 0)]
    BY <1>3, OutcomesAre DEF Tally
  <2>2. PICK last \in BOOLEAN : call' = [call EXCEPT ![c].at = "tallied", ![c].last = last]
    <3> DEFINE full == (IF counted THEN Cardinality(Signed) ELSE 0)
                       = (IF summed THEN Cardinality(Signers) ELSE 0)
    <3>1. full \in BOOLEAN
      OBVIOUS
    <3>2. call' = [call EXCEPT ![c].at = "tallied", ![c].last = full]
      BY <2>1
    <3>3. full = TRUE \/ full = FALSE
      BY <3>1
    <3> HIDE DEF full
    <3> QED BY <3>2, <3>3
  <2>3. Calm
    BY <1>3, <2>2, FlagTypes DEF Tally, Places
  <2>4. failed' \subseteq Kinds
    BY <2>1 DEF TypeOK, Kinds
  <2> QED BY <1>3, <2>3, <2>4 DEF Tally, CallTyped, TypeOK
<1>4. CASE ReadSigners(c)
  <2>1. PICK cut \in BOOLEAN : call' = [call EXCEPT ![c].at = "generating", ![c].cut = cut]
    <3> DEFINE full == (Signed = Signers)
    <3>1. full \in BOOLEAN
      OBVIOUS
    <3>2. call' = [call EXCEPT ![c].at = "generating", ![c].cut = full]
      BY <1>4 DEF ReadSigners
    <3>3. full = TRUE \/ full = FALSE
      BY <3>1
    <3> HIDE DEF full
    <3> QED BY <3>2, <3>3
  <2>2. Calm
    BY <1>4, <2>1, FlagTypes DEF ReadSigners, Places
  <2> QED BY <1>4, <2>2 DEF ReadSigners, CallTyped, TypeOK
<1>5. CASE Upload(c)
  <2>1. PICK ok \in BOOLEAN : Note(ok, "other") /\ pdf' = IF ok THEN call[c].cut ELSE pdf
    BY <1>5, OutcomesAre DEF Upload, PutSigned
  <2>2. failed' \subseteq Kinds
    BY <2>1, NoteTypes DEF TypeOK, Kinds
  <2>3. pdf' \in BOOLEAN
    BY <2>1 DEF TypeOK
  <2>4. Calm
    <3>1. CASE Return(c)
      BY <1>5, <3>1, ReturnTypes DEF Upload
    <3>2. CASE call' = [call EXCEPT ![c].at = IF call[c].last THEN "completing" ELSE "notifying",
                                    ![c].cut = FALSE]
      <4>1. PICK place \in {"completing", "notifying"} :
               call' = [call EXCEPT ![c].at = place, ![c].cut = FALSE]
        BY <3>2
      <4> QED BY <1>5, <4>1 DEF Upload, TypeOK, CallTyped, Places
    <3> QED BY <1>5, <3>1, <3>2 DEF Upload
  <2> QED BY <1>5, <2>2, <2>3, <2>4 DEF Upload, CallTyped, TypeOK
<1>6. CASE Complete(c)
  <2>1. PICK ok \in BOOLEAN : /\ Note(ok, "complete")
                              /\ doc' = IF ok THEN "completed" ELSE doc
                              /\ finished' = (finished \/ ok)
    BY <1>6, OutcomesAre DEF Complete
  <2>2. failed' \subseteq Kinds
    BY <2>1, NoteTypes DEF TypeOK, Kinds
  <2>3. finished' \in BOOLEAN /\ doc' \in {"draft", "pending", "completed", "voided", "declined"}
    BY <2>1 DEF TypeOK
  <2>4. Calm
    BY <1>6, ReturnTypes DEF Complete
  <2> QED BY <1>6, <2>2, <2>3, <2>4 DEF Complete, CallTyped, TypeOK
<1> QED BY <1>1, <1>2, <1>3, <1>4, <1>5, <1>6

LEMMA NotifyType ==
    ASSUME TypeOK, NEW c \in Calls, GetNextSigner(c) \/ SetToken(c) \/ MarkSent(c)
    PROVE  TypeOK'
<1> USE DEF row, owner, guest, history
<1> DEFINE Calm == CallTyped(call') /\ \A d \in Calls : call'[d].at = "renewed" => call'[d].who \in keyed'
<1>1. CASE GetNextSigner(c)
  <2>1. CASE Return(c)
    <3>1. Calm
      BY <1>1, <2>1, ReturnTypes DEF GetNextSigner
    <3> QED BY <1>1, <3>1 DEF GetNextSigner, CallTyped, TypeOK
  <2>2. CASE \E s \in Signers :
                call' = [call EXCEPT ![c] = [Resting EXCEPT !.at = "chosen", !.who = s]]
    <3>1. PICK s \in Signers :
             call' = [call EXCEPT ![c] = [at |-> "chosen", who |-> s, last |-> FALSE, cut |-> FALSE]]
      BY <2>2 DEF Resting
    <3>2. Calm
      BY <1>1, <3>1 DEF GetNextSigner, TypeOK, CallTyped, Places
    <3> QED BY <1>1, <3>2 DEF GetNextSigner, CallTyped, TypeOK
  <2> QED BY <1>1, <2>1, <2>2 DEF GetNextSigner
<1>2. CASE SetToken(c)
  <2>1. PICK ok \in BOOLEAN :
           /\ Note(ok, "link")
           /\ IF ok
                THEN /\ Renew(call[c].who, {c})
                     /\ Goto(c, "renewed")
                     /\ crossed' = (crossed \/ desk # "idle")
                ELSE Return(c) /\ UNCHANGED <<keyed, guest, crossed>>
    BY <1>2, OutcomesAre DEF SetToken
  <2>2. failed' \subseteq Kinds
    BY <2>1, NoteTypes DEF TypeOK, Kinds
  <2>3. call[c].who \in Signers /\ call[c].at = "chosen"
    BY <1>2 DEF SetToken, TypeOK
  <2>4. CASE ok
    <3>1. /\ keyed' \subseteq Signers /\ linked' \subseteq keyed' /\ mailing' \subseteq keyed'
          /\ fresh' \subseteq Calls \cup {Owner}
          /\ keyed \subseteq keyed' /\ call[c].who \in keyed'
      BY <2>1, <2>3, <2>4, RenewTypes
    <3>2. Calm
      BY <2>1, <2>3, <2>4, <3>1, GotoTypes DEF Places
    <3>3. crossed' \in BOOLEAN
      BY <2>1, <2>4 DEF TypeOK
    <3> QED BY <1>2, <2>2, <3>1, <3>2, <3>3 DEF SetToken, CallTyped, TypeOK
  <2>5. CASE ~ok
    <3>1. Calm
      BY <2>1, <2>5, ReturnTypes
    <3> QED BY <1>2, <2>1, <2>2, <2>5, <3>1 DEF SetToken, CallTyped, TypeOK
  <2> QED BY <2>4, <2>5
<1>3. CASE MarkSent(c)
  <2>1. call[c].who \in Signers /\ call[c].who \in keyed
    BY <1>3 DEF MarkSent, TypeOK
  <2>2. /\ status' \in [Signers -> {"pending", "sent", "viewed", "signed", "declined"}]
        /\ finished' \in BOOLEAN /\ failed' \subseteq Kinds
        /\ fresh' \subseteq Calls \cup {Owner} /\ mailing' \subseteq keyed
    BY <1>3, <2>1, InviteTypes DEF MarkSent
  <2>3. Calm
    BY <1>3, ReturnTypes DEF MarkSent
  <2> QED BY <1>3, <2>2, <2>3 DEF MarkSent, CallTyped, TypeOK
<1> QED BY <1>1, <1>2, <1>3

LEMMA OtherCallType ==
    ASSUME TypeOK, NEW c \in Calls,
           Attest(c) \/ ReadAttested(c) \/ UploadAttested(c) \/ Decline(c) \/ SetDeclined(c)
    PROVE  TypeOK'
<1> USE DEF row, owner, guest, history
<1> DEFINE Calm == CallTyped(call') /\ \A d \in Calls : call'[d].at = "renewed" => call'[d].who \in keyed'
<1>1. CASE Attest(c)
  <2>1. Calm
    BY <1>1, GotoTypes DEF Attest, Places
  <2>2. call[c].who \in Signers
    BY <1>1 DEF Attest, TypeOK
  <2> QED BY <1>1, <2>1, <2>2 DEF Attest, CallTyped, TypeOK
<1>2. CASE ReadAttested(c)
  <2>1. PICK cut \in BOOLEAN : call' = [call EXCEPT ![c].at = "attesting", ![c].cut = cut]
    <3> DEFINE full == (Signed = Signers)
    <3>1. full \in BOOLEAN
      OBVIOUS
    <3>2. call' = [call EXCEPT ![c].at = "attesting", ![c].cut = full]
      BY <1>2 DEF ReadAttested
    <3>3. full = TRUE \/ full = FALSE
      BY <3>1
    <3> HIDE DEF full
    <3> QED BY <3>2, <3>3
  <2>2. Calm
    BY <1>2, <2>1, FlagTypes DEF ReadAttested, Places
  <2> QED BY <1>2, <2>2 DEF ReadAttested, CallTyped, TypeOK
<1>3. CASE UploadAttested(c)
  <2>1. PICK ok \in BOOLEAN : Note(ok, "other") /\ pdf' = IF ok THEN call[c].cut ELSE pdf
    BY <1>3, OutcomesAre DEF UploadAttested, PutSigned
  <2>2. failed' \subseteq Kinds
    BY <2>1, NoteTypes DEF TypeOK, Kinds
  <2>3. pdf' \in BOOLEAN
    BY <2>1 DEF TypeOK
  <2>4. Calm
    BY <1>3, ReturnTypes DEF UploadAttested
  <2> QED BY <1>3, <2>2, <2>3, <2>4 DEF UploadAttested, CallTyped, TypeOK
<1>4. CASE Decline(c)
  <2>1. Calm
    BY <1>4, GotoTypes DEF Decline, Places
  <2>2. call[c].who \in Signers
    BY <1>4 DEF Decline, TypeOK
  <2>3. /\ status' \in [Signers -> {"pending", "sent", "viewed", "signed", "declined"}]
        /\ finished' \in BOOLEAN
    BY <1>4, <2>2, SetStatusTypes DEF Decline
  <2> QED BY <1>4, <2>1, <2>3 DEF Decline, CallTyped, TypeOK
<1>5. CASE SetDeclined(c)
  <2>1. PICK ok \in BOOLEAN : Note(ok, "other") /\ doc' = IF ok THEN "declined" ELSE doc
    BY <1>5, OutcomesAre DEF SetDeclined
  <2>2. failed' \subseteq Kinds
    BY <2>1, NoteTypes DEF TypeOK, Kinds
  <2>3. Calm
    BY <1>5, ReturnTypes DEF SetDeclined
  <2> QED BY <1>5, <2>1, <2>2, <2>3 DEF SetDeclined, CallTyped, TypeOK
<1> QED BY <1>1, <1>2, <1>3, <1>4, <1>5

LEMMA RestartType ==
    ASSUME TypeOK, Restart
    PROVE  TypeOK'
<1>1. failed' \subseteq Kinds
  BY DEF Restart, TypeOK, Kinds
<1>2. Resting \in [at : Places, who : Signers \cup {None}, last : BOOLEAN, cut : BOOLEAN]
  BY DEF Resting, Places
<1>3. call' \in [Calls -> [at : Places, who : Signers \cup {None}, last : BOOLEAN, cut : BOOLEAN]]
  BY <1>2 DEF Restart
<1>4. \A c \in Calls : call'[c].at = "idle"
  BY DEF Restart, Resting
<1> QED BY <1>1, <1>3, <1>4 DEF Restart, TypeOK, row

LEMMA SendSentType ==
    ASSUME TypeOK, SendSent
    PROVE  TypeOK'
<1>1. whom \in Signers /\ whom \in keyed
  BY DEF SendSent, TypeOK
<1>2. /\ status' \in [Signers -> {"pending", "sent", "viewed", "signed", "declined"}]
      /\ finished' \in BOOLEAN /\ failed' \subseteq Kinds
      /\ fresh' \subseteq Calls \cup {Owner} /\ mailing' \subseteq keyed
  BY <1>1, InviteTypes DEF SendSent
<1> QED BY <1>2 DEF SendSent, TypeOK

(* Type correctness: Signing!TypeOK.                                       *)
THEOREM TypeCorrect == Spec => []TypeOK
<1>1. Init => TypeOK
  BY InitType
<1>2. TypeOK /\ [Next]_vars => TypeOK'
  <2> SUFFICES ASSUME TypeOK, [Next]_vars PROVE TypeOK'
    OBVIOUS
  <2>1. CASE Next
    BY <2>1, OwnerType, SendSentType, SignerType, StartType, SubmitType, NotifyType,
       OtherCallType, RestartType DEF Next
  <2>2. CASE UNCHANGED vars
    BY <2>2 DEF vars, row, owner, guest, history, TypeOK
  <2> QED BY <2>1, <2>2
<1> QED BY <1>1, <1>2, PTL DEF Spec

-----------------------------------------------------------------------------
(* What a step leaves of the signatures, of the history and of the calls.  *)

(* A signature is new, or gone, with the history that says so.             *)
Recorded ==
    /\ ordered' = ordered
    /\ ever \subseteq ever' /\ attested \subseteq attested' /\ failed \subseteq failed'
    /\ Signed' \ Signed \subseteq ever'
    /\ finished /\ ~finished' => Signed' # Signers
    /\ \A s \in (ever' \ ever) \cup (Signed' \ Signed) :
          \/ s \in attested'
          \/ \E c \in Calls : call[c].at = "allowed" /\ call[c].who = s /\ call'[c].at = "signed"

LEMMA SetStatusRecords ==
    ASSUME TypeOK, NEW s \in Signers, NEW value \in {"sent", "declined"}, SetStatus(s, value)
    PROVE  Signed' \subseteq Signed /\ (finished /\ ~finished' => Signed' # Signers)
<1>1. s \notin Signed'
  BY DEF SetStatus, Signed, TypeOK
<1>2. \A t \in Signers \ {s} : status'[t] = status[t]
  BY DEF SetStatus, TypeOK
<1> QED BY <1>1, <1>2 DEF SetStatus, Signed

LEMMA InviteRecords ==
    ASSUME TypeOK, NEW s \in Signers, NEW by, Invite(s, by)
    PROVE  /\ Signed' \subseteq Signed /\ (finished /\ ~finished' => Signed' # Signers)
           /\ failed \subseteq failed'
<1>1. PICK ok \in BOOLEAN :
         /\ Note(ok, "other")
         /\ IF ok THEN SetStatus(s, "sent") ELSE UNCHANGED <<status, finished>>
  BY OutcomesAre DEF Invite
<1>2. failed \subseteq failed'
  BY <1>1 DEF Note
<1>3. CASE ok
  BY <1>1, <1>2, <1>3, SetStatusRecords
<1>4. CASE ~ok
  BY <1>1, <1>2, <1>4 DEF Signed
<1> QED BY <1>3, <1>4

LEMMA StepRecords ==
    ASSUME TypeOK, Next
    PROVE  Recorded
<1> USE DEF Recorded, row, owner, guest, history
<1>1. CASE Send \/ SendToken \/ SendPending \/ VoidDocument
  BY <1>1 DEF Send, SendToken, SendPending, VoidDocument, Note, Signed
<1>2. CASE SendSent
  <2>1. whom \in Signers
    BY <1>2 DEF SendSent, TypeOK
  <2> QED BY <1>2, <2>1, InviteRecords DEF SendSent
<1>3. ASSUME NEW s \in Signers, Mail(s) \/ ListDocumentsToSign(s) PROVE Recorded
  BY <1>3 DEF Mail, ListDocumentsToSign, Note, Signed
<1>4. ASSUME NEW s \in Signers, RecordView(s) PROVE Recorded
  <2>1. Signed' = Signed
    BY <1>4 DEF RecordView, Signed, TypeOK
  <2> QED BY <1>4, <2>1 DEF RecordView
<1>5. ASSUME NEW s \in Signers, NEW c \in Calls,
             SubmitSignature(c, s) \/ PrepareSignature(c, s) \/ DeclineSigning(c, s)
      PROVE  Recorded
  BY <1>5 DEF SubmitSignature, PrepareSignature, DeclineSigning, Start, Signed
<1>6. ASSUME NEW c \in Calls,
             CheckOrder(c) \/ Tally(c) \/ ReadSigners(c) \/ Upload(c) \/ Complete(c)
             \/ GetNextSigner(c) \/ SetToken(c)
             \/ ReadAttested(c) \/ UploadAttested(c) \/ SetDeclined(c)
      PROVE  Recorded
  <2>1. UNCHANGED <<ordered, status, ever, attested>> /\ failed \subseteq failed'
    BY <1>6 DEF CheckOrder, Tally, ReadSigners, Upload, Complete, GetNextSigner, SetToken,
                ReadAttested, UploadAttested, SetDeclined, PutSigned, Note
  <2>2. finished => finished'
    BY <1>6 DEF CheckOrder, Tally, ReadSigners, Upload, Complete, GetNextSigner, SetToken,
                ReadAttested, UploadAttested, SetDeclined
  <2> QED BY <2>1, <2>2 DEF Signed
<1>7. ASSUME NEW c \in Calls, Sign(c) \/ Attest(c) PROVE Recorded
  <2>1. call[c].who \in Signers
    BY <1>7 DEF Sign, Attest, TypeOK
  <2>2. Signed' = Signed \cup {call[c].who}
    BY <1>7, <2>1 DEF Sign, Attest, Signed, TypeOK
  <2>3. CASE Sign(c)
    <3>1. call[c].at = "allowed" /\ call'[c].at = "signed"
      BY <2>3 DEF Sign, Goto, TypeOK
    <3> QED BY <2>2, <2>3, <3>1 DEF Sign
  <2>4. CASE Attest(c)
    BY <2>2, <2>4 DEF Attest
  <2> QED BY <1>7, <2>3, <2>4
<1>8. ASSUME NEW c \in Calls, MarkSent(c) PROVE Recorded
  <2>1. call[c].who \in Signers
    BY <1>8 DEF MarkSent, TypeOK
  <2> QED BY <1>8, <2>1, InviteRecords DEF MarkSent
<1>9. ASSUME NEW c \in Calls, Decline(c) PROVE Recorded
  <2>1. call[c].who \in Signers
    BY <1>9 DEF Decline, TypeOK
  <2> QED BY <1>9, <2>1, SetStatusRecords DEF Decline
<1>10. CASE Restart
  BY <1>10 DEF Restart, Signed
<1> QED BY <1>1, <1>2, <1>3, <1>4, <1>5, <1>6, <1>7, <1>8, <1>9, <1>10 DEF Next

(* How far a call gets in a step.                                          *)
Counting == {"signed", "tallied", "generating", "completing"}

Moved(c) ==
    \/ call'[c] = call[c]
    \/ /\ call[c].at \notin Counting
       /\ call'[c].at \notin {"allowed", "completing"} /\ (call'[c].last => call[c].last)
    \/ /\ CheckOrder(c) /\ call[c].at = "found" /\ call'[c].at = "allowed"
       /\ call'[c].who = call[c].who /\ (call'[c].last => call[c].last)
       /\ (ordered => Before(call[c].who) \subseteq Signed)
    \/ Tally(c)
    \/ ReadSigners(c) /\ call'[c].at = "generating" /\ call'[c].last = call[c].last
    \/ /\ Upload(c) /\ call'[c].at # "allowed"
       /\ IF call[c].last THEN call'[c].at = "completing" /\ call'[c].last
          ELSE ~call'[c].last /\ call'[c].at # "completing"
    \/ Complete(c) /\ call'[c].at = "idle" /\ ~call'[c].last
    \/ Restart /\ call'[c] = Resting

LEMMA StepMoves ==
    ASSUME TypeOK, Next
    PROVE  \A c \in Calls : Moved(c)
<1> USE DEF Moved
<1>1. ASSUME UNCHANGED call PROVE \A c \in Calls : Moved(c)
  BY <1>1
<1>2. CASE \/ Send \/ SendToken \/ SendSent \/ SendPending \/ VoidDocument
           \/ \E s \in Signers : Mail(s) \/ ListDocumentsToSign(s) \/ RecordView(s)
  <2>1. UNCHANGED call
    BY <1>2 DEF Send, SendToken, SendSent, SendPending, VoidDocument, Mail,
                ListDocumentsToSign, RecordView
  <2> QED BY <2>1, <1>1
<1>3. ASSUME NEW s \in Signers, NEW b \in Calls,
             SubmitSignature(b, s) \/ PrepareSignature(b, s) \/ DeclineSigning(b, s)
      PROVE  \A c \in Calls : Moved(c)
  <2>1. Start(b, s, "found") \/ Start(b, s, "prepared") \/ Start(b, s, "declining")
    BY <1>3, Zenon DEF SubmitSignature, PrepareSignature, DeclineSigning
  <2>2. call[b].at = "idle" /\ \A c \in Calls \ {b} : call'[c] = call[c]
    BY <2>1 DEF Start, TypeOK
  <2>3. PICK place \in {"found", "prepared", "declining"} :
           call'[b] = [at |-> place, who |-> s, last |-> FALSE, cut |-> FALSE]
    BY <2>1 DEF Start, Resting, TypeOK
  <2>4. call'[b].at \notin {"allowed", "completing"} /\ ~call'[b].last
    BY <2>3
  <2> QED BY <2>2, <2>4 DEF Counting
<1>4. ASSUME NEW b \in Calls,
             Sign(b) \/ GetNextSigner(b) \/ SetToken(b) \/ MarkSent(b) \/ Attest(b)
             \/ ReadAttested(b) \/ UploadAttested(b) \/ Decline(b) \/ SetDeclined(b)
      PROVE  \A c \in Calls : Moved(c)
  <2>1. call[b].at \notin Counting
    BY <1>4 DEF Sign, GetNextSigner, SetToken, MarkSent, Attest, ReadAttested, UploadAttested,
                Decline, SetDeclined, Counting
  <2>2. \/ Return(b)
        \/ \E place \in {"signed", "attested", "renewed", "declined"} : Goto(b, place)
        \/ \E s \in Signers : call' = [call EXCEPT ![b] = [Resting EXCEPT !.at = "chosen", !.who = s]]
        \/ call' = [call EXCEPT ![b].at = "attesting", ![b].cut = (Signed = Signers)]
    BY <1>4, OutcomesAre DEF Sign, GetNextSigner, SetToken, MarkSent, Attest, ReadAttested, UploadAttested,
                Decline, SetDeclined
  <2>3. /\ \A c \in Calls \ {b} : call'[c] = call[c]
        /\ call'[b].at \notin {"allowed", "completing"} /\ (call'[b].last => call[b].last)
    <3>1. CASE Return(b)
      BY <3>1 DEF Return, Resting, TypeOK
    <3>2. ASSUME NEW place \in {"signed", "attested", "renewed", "declined"}, Goto(b, place)
          PROVE  <2>3
      BY <3>2 DEF Goto, TypeOK
    <3>3. ASSUME NEW s \in Signers,
                 call' = [call EXCEPT ![b] = [Resting EXCEPT !.at = "chosen", !.who = s]]
          PROVE  <2>3
      BY <3>3 DEF Resting, TypeOK
    <3>4. CASE call' = [call EXCEPT ![b].at = "attesting", ![b].cut = (Signed = Signers)]
      BY <3>4 DEF TypeOK
    <3> QED BY <2>2, <3>1, <3>2, <3>3, <3>4
  <2> QED BY <2>1, <2>3
<1>5. ASSUME NEW b \in Calls, CheckOrder(b) PROVE \A c \in Calls : Moved(c)
  <2>1. \A c \in Calls \ {b} : call'[c] = call[c]
    BY <1>5 DEF CheckOrder, Goto, Return, TypeOK
  <2>2. CASE ordered => MayFollow(call[b].who)
    <3>1. call[b].at = "found" /\ call'[b] = [call[b] EXCEPT !.at = "allowed"]
      BY <1>5, <2>2 DEF CheckOrder, Goto, TypeOK
    <3>2. call'[b].at = "allowed" /\ call'[b].who = call[b].who /\ (call'[b].last => call[b].last)
      BY <3>1 DEF TypeOK
    <3>3. ordered => Before(call[b].who) \subseteq Signed
      BY <2>2 DEF MayFollow
    <3> QED BY <1>5, <2>1, <3>1, <3>2, <3>3
  <2>3. CASE ~(ordered => MayFollow(call[b].who))
    <3>1. call[b].at = "found" /\ call'[b] = Resting
      BY <1>5, <2>3 DEF CheckOrder, Return, TypeOK
    <3>2. call[b].at \notin Counting /\ call'[b].at \notin {"allowed", "completing"} /\ ~call'[b].last
      BY <3>1 DEF Resting, Counting
    <3> QED BY <2>1, <3>2
  <2> QED BY <2>2, <2>3
<1>6. ASSUME NEW b \in Calls, Tally(b) PROVE \A c \in Calls : Moved(c)
  <2>1. \A c \in Calls \ {b} : call'[c] = call[c]
    BY <1>6 DEF Tally, TypeOK
  <2> QED BY <1>6, <2>1
<1>7. ASSUME NEW b \in Calls, ReadSigners(b) PROVE \A c \in Calls : Moved(c)
  <2>1. /\ \A c \in Calls \ {b} : call'[c] = call[c]
        /\ call'[b].at = "generating" /\ call'[b].last = call[b].last
    <3> DEFINE full == (Signed = Signers)
    <3>1. call' = [call EXCEPT ![b].at = "generating", ![b].cut = full]
      BY <1>7 DEF ReadSigners
    <3> HIDE DEF full
    <3> QED BY <3>1 DEF TypeOK
  <2> QED BY <1>7, <2>1
<1>8. ASSUME NEW b \in Calls, Upload(b) PROVE \A c \in Calls : Moved(c)
  <2>1. \A c \in Calls \ {b} : call'[c] = call[c]
    BY <1>8 DEF Upload, Return, TypeOK
  <2>2. CASE call[b].last
    BY <1>8, <2>1, <2>2 DEF Upload, TypeOK
  <2>3. CASE ~call[b].last /\ ordered
    BY <1>8, <2>1, <2>3 DEF Upload, TypeOK
  <2>4. CASE ~call[b].last /\ ~ordered
    BY <1>8, <2>1, <2>4 DEF Upload, Return, Resting, TypeOK
  <2> QED BY <2>2, <2>3, <2>4
<1>9. ASSUME NEW b \in Calls, Complete(b) PROVE \A c \in Calls : Moved(c)
  BY <1>9 DEF Complete, Return, Resting, TypeOK
<1>10. CASE Restart
  BY <1>10 DEF Restart
<1> QED BY <1>2, <1>3, <1>4, <1>5, <1>6, <1>7, <1>8, <1>9, <1>10 DEF Next

-----------------------------------------------------------------------------
(* The order of the signatures.                                            *)

(* Who has signed is in the history; who has been let through comes after  *)
(* signers who have signed at some time.                                   *)
OrderInv ==
    /\ Signed \subseteq ever
    /\ ordered => \A c \in Calls : call[c].at = "allowed" => Before(call[c].who) \subseteq ever
    /\ OrderKept

(* Whoever signs on the signing page of a document with an order does so   *)
(* after everyone before them: Signing!OrderKept.                          *)
THEOREM OrderIsKept == Spec => []OrderKept
<1>1. Init => OrderInv
  BY DEF Init, OrderInv, OrderKept, Signed, Resting
<1>2. TypeOK /\ TypeOK' /\ OrderInv /\ [Next]_vars => OrderInv'
  <2> SUFFICES ASSUME TypeOK, TypeOK', OrderInv, [Next]_vars PROVE OrderInv'
    OBVIOUS
  <2>1. CASE Next
    <3>1. Recorded /\ \A c \in Calls : Moved(c)
      BY <2>1, StepRecords, StepMoves
    <3>2. Signed' \subseteq ever'
      BY <3>1 DEF Recorded, OrderInv
    <3>3. ASSUME ordered', NEW c \in Calls, call'[c].at = "allowed"
          PROVE  Before(call'[c].who) \subseteq ever'
      <4>1. CASE call'[c] = call[c]
        BY <3>1, <3>3, <4>1 DEF Recorded, OrderInv, Before
      <4>2. CASE /\ call'[c].who = call[c].who
                 /\ (ordered => Before(call[c].who) \subseteq Signed)
        BY <3>1, <3>3, <4>2 DEF Recorded, OrderInv, Before
      <4>3. call'[c].at = "tallied" \/ ~Tally(c)
        BY DEF Tally, TypeOK
      <4>4. call'[c].at = "generating" \/ ~ReadSigners(c)
        BY DEF ReadSigners, TypeOK
      <4> QED BY <3>1, <3>3, <4>1, <4>2, <4>3, <4>4 DEF Moved, Resting
    <3>4. OrderKept'
      <4> SUFFICES ASSUME ordered', NEW s \in ever' \ attested' PROVE Before(s) \subseteq ever'
        BY DEF OrderKept, Before
      <4>1. CASE s \in ever
        BY <3>1, <4>1 DEF Recorded, OrderInv, OrderKept
      <4>2. CASE s \notin ever
        <5>1. PICK c \in Calls : call[c].at = "allowed" /\ call[c].who = s
          BY <3>1, <4>2 DEF Recorded
        <5> QED BY <3>1, <5>1 DEF Recorded, OrderInv
      <4> QED BY <4>1, <4>2
    <3> QED BY <3>2, <3>3, <3>4 DEF OrderInv, Before
  <2>2. CASE UNCHANGED vars
    BY <2>2 DEF vars, row, owner, guest, history, OrderInv, OrderKept, Signed, Before
  <2> QED BY <2>1, <2>2
<1>3. OrderInv => OrderKept
  BY DEF OrderInv
<1> QED BY <1>1, <1>2, <1>3, TypeCorrect, PTL DEF Spec

-----------------------------------------------------------------------------
(* The completion of the document.                                         *)

LEMMA TallyCounts ==
    ASSUME TypeOK, NEW c \in Calls, Tally(c)
    PROVE  /\ call[c].at = "signed" /\ call'[c].at = "tallied"
           /\ call'[c].last /\ "total" \notin failed' => Signed = Signers
           /\ Signed = Signers /\ {"count", "total"} \cap failed' = {} => call'[c].last
           /\ UNCHANGED <<ever, status>>
<1>1. PICK counted \in BOOLEAN, summed \in BOOLEAN :
         /\ failed' = failed \cup (IF counted THEN {} ELSE {"count"})
                           \cup (IF summed THEN {} ELSE {"total"})
         /\ call' = [call EXCEPT ![c].at = "tallied",
                                 ![c].last = (IF counted THEN Cardinality(Signed) ELSE 0)
                                             = (IF summed THEN Cardinality(Signers) ELSE 0)]
  BY OutcomesAre DEF Tally
<1> DEFINE full == (IF counted THEN Cardinality(Signed) ELSE 0)
                   = (IF summed THEN Cardinality(Signers) ELSE 0)
<1>2. call' = [call EXCEPT ![c].at = "tallied", ![c].last = full]
  BY <1>1
<1>3. call'[c].at = "tallied" /\ call'[c].last = full
  <2> HIDE DEF full
  <2> QED BY <1>2 DEF TypeOK
<1>4. /\ IsFiniteSet(Signers) /\ Cardinality(Signers) \in Nat /\ Cardinality(Signers) # 0
      /\ Signed \subseteq Signers /\ IsFiniteSet(Signed)
  BY SigningAssumption, FS_CardinalityType, FS_EmptySet, FS_Subset DEF Signed
<1>5. Cardinality(Signed) = Cardinality(Signers) => Signed = Signers
  BY <1>4, FS_Subset
<1>6. full /\ summed => Signed = Signers
  BY <1>4, <1>5
<1>7. counted /\ summed /\ Signed = Signers => full
  OBVIOUS
<1>8. ("total" \notin failed' => summed) /\ ("count" \notin failed' => counted)
  BY <1>1
<1>9. call[c].at = "signed" /\ UNCHANGED <<ever, status>>
  BY DEF Tally, row
<1> HIDE DEF full
<1>10. full \in BOOLEAN
  BY DEF full
<1>11. call'[c].last => full
  BY <1>3
<1>12. full => call'[c].last
  BY <1>3
<1> QED BY <1>3, <1>6, <1>7, <1>8, <1>9, <1>11, <1>12

(* Who counts as the last has seen every signature, and if all signatures  *)
(* are there, somebody who will count them, or has, is under way.          *)
CountInv ==
    /\ Signed \subseteq ever
    /\ \A c \in Calls : call[c].last => call[c].at \in {"tallied", "generating", "completing"}
    /\ \A c \in Calls : call[c].at = "completing" => call[c].last
    /\ \A c \in Calls : call[c].last /\ "total" \notin failed => ever = Signers
    /\ CompletedIsSigned
    /\ /\ Signed = Signers /\ attested = {} /\ ~finished
       /\ failed \cap {"count", "total", "complete"} = {}
       => \E c \in Calls : call[c].at = "signed" \/ call[c].last

LEMMA DocCompletes ==
    ASSUME TypeOK, Next, doc' = "completed", doc # "completed"
    PROVE  \E c \in Calls : call[c].at = "completing"
<1> USE DEF row, owner, guest, history
<1>1. ASSUME NEW c \in Calls, Complete(c) PROVE call[c].at = "completing"
  BY <1>1 DEF Complete
<1>2. CASE Send \/ SendToken \/ SendSent \/ SendPending \/ VoidDocument \/ Restart
  BY <1>2 DEF Send, SendToken, SendSent, SendPending, VoidDocument, Restart
<1>3. ASSUME NEW s \in Signers, Mail(s) \/ ListDocumentsToSign(s) \/ RecordView(s) PROVE FALSE
  BY <1>3 DEF Mail, ListDocumentsToSign, RecordView
<1>4. ASSUME NEW s \in Signers, NEW c \in Calls,
             SubmitSignature(c, s) \/ PrepareSignature(c, s) \/ DeclineSigning(c, s)
      PROVE  FALSE
  BY <1>4 DEF SubmitSignature, PrepareSignature, DeclineSigning, Start
<1>5. ASSUME NEW c \in Calls,
             CheckOrder(c) \/ Sign(c) \/ Tally(c) \/ ReadSigners(c) \/ Upload(c)
             \/ GetNextSigner(c) \/ SetToken(c) \/ MarkSent(c) \/ Attest(c) \/ ReadAttested(c)
             \/ UploadAttested(c) \/ Decline(c) \/ SetDeclined(c)
      PROVE  FALSE
  BY <1>5 DEF CheckOrder, Sign, Tally, ReadSigners, Upload, GetNextSigner, SetToken, MarkSent,
              Attest, ReadAttested, UploadAttested, Decline, SetDeclined
<1> QED BY <1>1, <1>2, <1>3, <1>4, <1>5 DEF Next

LEMMA CountStep ==
    ASSUME TypeOK, TypeOK', CountInv, Next
    PROVE  CountInv'
<1>1. Recorded /\ \A c \in Calls : Moved(c)
  BY StepRecords, StepMoves
<1>2. Signed' \subseteq ever' /\ ever' \subseteq Signers /\ failed \subseteq failed'
  BY <1>1 DEF Recorded, CountInv, TypeOK
<1>3. \A c \in Calls : ~Resting.last /\ Resting.at = "idle"
  BY DEF Resting
<1>4. ASSUME NEW c \in Calls, call'[c].last
      PROVE  /\ call'[c].at \in {"tallied", "generating", "completing"}
             /\ "total" \notin failed' => ever' = Signers
  <2>1. CASE call'[c] = call[c]
    BY <1>1, <1>2, <1>4, <2>1 DEF Recorded, CountInv
  <2>2. CASE Tally(c)
    BY <1>2, <1>4, <2>2, TallyCounts DEF CountInv
  <2>3. CASE call[c].last
    <3>1. call[c].at \in {"tallied", "generating", "completing"}
      BY <2>3 DEF CountInv
    <3>2. "total" \notin failed' => ever' = Signers
      BY <1>1, <1>2, <2>3 DEF Recorded, CountInv
    <3> QED BY <1>1, <1>3, <1>4, <2>1, <2>2, <3>1, <3>2 DEF Moved, Counting, CheckOrder
  <2> QED BY <1>1, <1>3, <1>4, <2>1, <2>2, <2>3 DEF Moved
<1>5. ASSUME NEW c \in Calls, call'[c].at = "completing" PROVE call'[c].last
  BY <1>1, <1>3, <1>5, TallyCounts DEF Moved, CountInv
<1>6. CompletedIsSigned'
  <2> SUFFICES ASSUME doc' = "completed", "total" \notin failed' PROVE ever' = Signers
    BY DEF CompletedIsSigned
  <2>1. CASE doc = "completed"
    BY <1>1, <1>2, <2>1 DEF CountInv, CompletedIsSigned, Recorded
  <2>2. CASE doc # "completed"
    <3>1. PICK c \in Calls : call[c].at = "completing"
      BY <2>2, DocCompletes
    <3> QED BY <1>1, <1>2, <3>1 DEF CountInv, Recorded
  <2> QED BY <2>1, <2>2
<1>7. ASSUME Signed' = Signers, attested' = {}, ~finished',
             failed' \cap {"count", "total", "complete"} = {}
      PROVE  \E c \in Calls : call'[c].at = "signed" \/ call'[c].last
  <2>1. CASE Signed = Signers
    <3>1. PICK c \in Calls : call[c].at = "signed" \/ call[c].last
      BY <1>1, <1>2, <1>7, <2>1 DEF CountInv, Recorded
    <3>2. call[c].at \in Counting /\ (call[c].at = "signed" \/ call[c].last)
      BY <3>1 DEF CountInv, Counting
    <3>3. CASE call'[c] = call[c]
      BY <3>2, <3>3
    <3>4. CASE Tally(c)
      BY <1>7, <2>1, <3>4, TallyCounts
    <3>5. CASE ReadSigners(c) /\ call'[c].last = call[c].last
      <4>1. call[c].last
        BY <3>2, <3>5 DEF ReadSigners
      <4> QED BY <3>5, <4>1
    <3>6. CASE Upload(c) /\ (call[c].last => call'[c].last)
      <4>1. call[c].last
        BY <3>2, <3>6 DEF Upload
      <4> QED BY <3>6, <4>1
    <3>7. ~Complete(c)
      <4> SUFFICES ASSUME Complete(c) PROVE FALSE
        OBVIOUS
      <4>1. PICK ok \in BOOLEAN : Note(ok, "complete") /\ finished' = (finished \/ ok)
        BY OutcomesAre DEF Complete
      <4> QED BY <1>7, <4>1 DEF Note
    <3>8. ~Restart
      BY <1>7, <3>2 DEF Restart, Counting
    <3>9. call[c].at # "found"
      BY <3>2 DEF Counting
    <3>10. Moved(c)
      BY <1>1
    <3>11. \/ call'[c] = call[c]
           \/ Tally(c)
           \/ ReadSigners(c) /\ call'[c].last = call[c].last
           \/ Upload(c) /\ (call[c].last => call'[c].last)
      BY <3>2, <3>7, <3>8, <3>9, <3>10 DEF Moved
    <3> QED BY <3>3, <3>4, <3>5, <3>6, <3>11
  <2>2. CASE Signed # Signers
    <3>1. PICK s \in Signers : s \in Signed' \ Signed
      BY <1>7, <2>2 DEF Signed
    <3> QED BY <1>1, <1>7, <3>1 DEF Recorded
  <2> QED BY <2>1, <2>2
<1> QED BY <1>2, <1>4, <1>5, <1>6, <1>7 DEF CountInv

LEMMA CountInvariance == Spec => []CountInv
<1>1. Init => CountInv
  <2> SUFFICES ASSUME Init PROVE CountInv
    OBVIOUS
  <2>1. Signed = {} /\ doc = "draft"
    BY DEF Init, Signed
  <2>2. \A c \in Calls : ~call[c].last /\ call[c].at = "idle"
    BY DEF Init, Resting
  <2> QED BY <2>1, <2>2, SigningAssumption DEF CountInv, CompletedIsSigned
<1>2. TypeOK /\ TypeOK' /\ CountInv /\ [Next]_vars => CountInv'
  <2>1. CountInv /\ UNCHANGED vars => CountInv'
    BY DEF vars, row, owner, guest, history, CountInv, CompletedIsSigned, Signed
  <2> QED BY <2>1, CountStep
<1> QED BY <1>1, <1>2, TypeCorrect, PTL DEF Spec

(* A completed document has been signed by everyone, provided the signers  *)
(* could be counted: Signing!CompletedIsSigned.                            *)
THEOREM CompletionIsEarned == Spec => []CompletedIsSigned
<1>1. CountInv => CompletedIsSigned
  BY DEF CountInv
<1> QED BY <1>1, CountInvariance, PTL

(* The last signature completes the document, however the calls overlap:   *)
(* Signing!LastCompletes.                                                  *)
THEOREM LastSignerCompletes == Spec => []LastCompletes
<1>1. CountInv => LastCompletes
  <2> SUFFICES ASSUME CountInv, Quiet, Signed = Signers, attested = {},
                      failed \cap {"count", "total", "complete"} = {}, ~finished
               PROVE  FALSE
    BY DEF LastCompletes
  <2>1. PICK c \in Calls : call[c].at = "signed" \/ call[c].last
    BY DEF CountInv
  <2> QED BY <2>1 DEF CountInv, Quiet
<1> QED BY <1>1, CountInvariance, PTL

-----------------------------------------------------------------------------
(* The links of the signers.                                               *)

(* Nothing has happened that locks a signer out for good.                  *)
InPlace == sends <= 1 /\ ~crossed /\ "link" \notin failed

(* The signers who have a link that works, or are about to be mailed one.  *)
UnderWay == linked \cup mailing \cup {About(p) : p \in fresh}

(* Only those carry a token who are about to mail it.                      *)
Carried ==
    /\ \A c \in Calls : c \in fresh => call[c].at = "renewed"
    /\ Owner \in fresh => desk = "inviting"

(* Before the first token there is nothing; who has none is untouched.     *)
Untouched ==
    /\ sends = 0 => desk = "idle" /\ keyed = {} /\ \A c \in Calls : call[c].at = "idle"
    /\ desk = "idle" => todo = {}
    /\ \A s \in Signers \ keyed : status[s] = "pending"
    /\ \A c \in Calls : call[c].at \notin {"idle", "chosen"} => call[c].who \in keyed

(* The owner gives everyone a token once; who has one and is not pending   *)
(* any more has a way to sign, and so has everyone a handler works for.    *)
Invited ==
    /\ todo \cap keyed = {} /\ (sends = 1 => Signers \ todo \subseteq keyed)
    /\ \A s \in keyed : status[s] \in {"pending", "viewed", "signed"} \/ s \in UnderWay
    /\ \A c \in Calls : call[c].at \notin {"idle", "chosen"} => call[c].who \in UnderWay
    /\ desk = "inviting" => whom \in UnderWay

LinkInv == Carried /\ Untouched /\ (InPlace => Invited)

(* What the calls do that leave the links alone.                           *)
LinksAlone(c) ==
    /\ UNCHANGED <<keyed, guest, owner, crossed>> /\ failed \subseteq failed'
    /\ \A d \in Calls \ {c} : call'[d] = call[d]
    /\ call[c].at \notin {"idle", "chosen", "renewed"} /\ call'[c].at # "renewed"
    /\ call'[c].at \in {"idle", "chosen"} \/ call'[c].who = call[c].who
    /\ \A s \in Signers : s # call[c].who => status'[s] = status[s]

LEMMA AloneStep ==
    ASSUME TypeOK, NEW c \in Calls,
           \/ CheckOrder(c) \/ Sign(c) \/ Tally(c) \/ ReadSigners(c) \/ Upload(c) \/ Complete(c)
           \/ GetNextSigner(c) \/ Attest(c) \/ ReadAttested(c) \/ UploadAttested(c)
           \/ Decline(c) \/ SetDeclined(c)
    PROVE  LinksAlone(c)
<1> USE DEF row, owner, guest, history
<1>1. UNCHANGED <<keyed, guest, owner, crossed>>
  BY DEF CheckOrder, Sign, Tally, ReadSigners, Upload, Complete, GetNextSigner, Attest,
         ReadAttested, UploadAttested, Decline, SetDeclined
<1>2. failed \subseteq failed'
  BY DEF CheckOrder, Sign, Tally, ReadSigners, Upload, Complete, GetNextSigner, Attest,
         ReadAttested, UploadAttested, Decline, SetDeclined, PutSigned, Note
<1>3. call[c].at \notin {"idle", "chosen", "renewed"}
  BY DEF CheckOrder, Sign, Tally, ReadSigners, Upload, Complete, GetNextSigner, Attest,
         ReadAttested, UploadAttested, Decline, SetDeclined
<1>4. \A s \in Signers : s # call[c].who => status'[s] = status[s]
  BY DEF CheckOrder, Sign, Tally, ReadSigners, Upload, Complete, GetNextSigner, Attest,
         ReadAttested, UploadAttested, Decline, SetDeclined, SetStatus, TypeOK
<1>5. \/ Return(c)
      \/ \E s \in Signers : call' = [call EXCEPT ![c] = [Resting EXCEPT !.at = "chosen", !.who = s]]
      \/ \E place \in Places \ {"renewed"} : \E b :
            \/ Goto(c, place)
            \/ call' = [call EXCEPT ![c].at = place, ![c].last = b]
            \/ call' = [call EXCEPT ![c].at = place, ![c].cut = b]
  BY DEF CheckOrder, Sign, Tally, ReadSigners, Upload, Complete, GetNextSigner, Attest,
         ReadAttested, UploadAttested, Decline, SetDeclined, Places
<1>6. /\ \A d \in Calls \ {c} : call'[d] = call[d]
      /\ call'[c].at # "renewed"
      /\ call'[c].at \in {"idle", "chosen"} \/ call'[c].who = call[c].who
  <2>1. CASE Return(c)
    BY <2>1 DEF Return, Resting, TypeOK
  <2>2. ASSUME NEW s \in Signers,
               call' = [call EXCEPT ![c] = [Resting EXCEPT !.at = "chosen", !.who = s]]
        PROVE  <1>6
    BY <2>2 DEF Resting, TypeOK
  <2>3. ASSUME NEW place \in Places \ {"renewed"}, NEW b,
               \/ Goto(c, place)
               \/ call' = [call EXCEPT ![c].at = place, ![c].last = b]
               \/ call' = [call EXCEPT ![c].at = place, ![c].cut = b]
        PROVE  <1>6
    BY <2>3 DEF Goto, TypeOK
  <2> QED BY <1>5, <2>1, <2>2, <2>3
<1> QED BY <1>1, <1>2, <1>3, <1>4, <1>6 DEF LinksAlone

LEMMA AloneKeeps ==
    ASSUME TypeOK, LinkInv, NEW c \in Calls, LinksAlone(c)
    PROVE  LinkInv'
<1> USE DEF guest, owner, LinksAlone
<1>1. Carried'
  BY DEF LinkInv, Carried
<1>2. Untouched'
  BY DEF LinkInv, Untouched
<1>3. InPlace' => InPlace
  BY DEF InPlace
<1>4. UnderWay \subseteq UnderWay'
  <2>1. \A p \in fresh : About(p)' = About(p)
    <3>1. c \notin fresh
      BY DEF LinkInv, Carried
    <3> QED BY <3>1 DEF About, TypeOK
  <2> QED BY <2>1 DEF UnderWay
<1>5. ASSUME Invited, Untouched PROVE Invited'
  <2>1. call[c].who \in UnderWay
    BY <1>5 DEF Invited
  <2>2. \A s \in keyed' : status'[s] \in {"pending", "viewed", "signed"} \/ s \in UnderWay'
    BY <1>4, <1>5, <2>1 DEF Invited, TypeOK
  <2>3. \A d \in Calls : call'[d].at \notin {"idle", "chosen"} => call'[d].who \in UnderWay'
    BY <1>4, <1>5, <2>1 DEF Invited
  <2>4. desk' = "inviting" => whom' \in UnderWay'
    BY <1>4, <1>5 DEF Invited
  <2> QED BY <1>5, <2>2, <2>3, <2>4 DEF Invited
<1> QED BY <1>1, <1>2, <1>3, <1>5 DEF LinkInv

LEMMA OwnerLinks ==
    ASSUME TypeOK, LinkInv, Send \/ SendToken \/ SendSent \/ SendPending \/ VoidDocument
    PROVE  LinkInv'
<1> USE DEF row, owner, guest, history
<1>1. CASE Send
  <2>1. Carried' /\ Untouched'
    BY <1>1 DEF Send, LinkInv, Carried, Untouched, TypeOK
  <2>2. InPlace' => InPlace /\ sends = 0
    BY <1>1, SigningAssumption DEF Send, InPlace, TypeOK
  <2>3. UnderWay' = UnderWay
    BY <1>1 DEF Send, UnderWay, About
  <2>4. ASSUME sends = 0, Invited PROVE Invited'
    BY <1>1, <2>3, <2>4 DEF Send, Invited, LinkInv, Untouched
  <2> QED BY <2>1, <2>2, <2>4 DEF LinkInv
<1>2. CASE SendToken
  <2>1. PICK s \in Signers : /\ First(s, todo) /\ whom' = s
                             /\ todo' = todo \ {s}
                             /\ \E ok \in Outcomes("link") :
                                  LET invite == ok /\ (ordered => First(s, Signers)) IN
                                  /\ Note(ok, "link")
                                  /\ IF ok THEN Renew(s, IF invite THEN {Owner} ELSE {})
                                           ELSE UNCHANGED <<keyed, guest>>
                                  /\ desk' = IF invite THEN "inviting" ELSE "sending"
    BY <1>2 DEF SendToken
  <2>2. PICK ok \in BOOLEAN :
               /\ Note(ok, "link")
               /\ IF ok THEN Renew(s, IF ok /\ (ordered => First(s, Signers)) THEN {Owner} ELSE {})
                        ELSE UNCHANGED <<keyed, guest>>
               /\ desk' = IF ok /\ (ordered => First(s, Signers)) THEN "inviting" ELSE "sending"
    BY <2>1, OutcomesAre
  <2>3. /\ desk = "sending" /\ sends # 0 /\ Owner \notin fresh /\ s \in todo
        /\ UNCHANGED <<status, call, sends, crossed>>
    BY <1>2, <2>1 DEF SendToken, LinkInv, Untouched, Carried, First
  <2>4. CASE ~ok
    <3>1. Carried' /\ Untouched'
      BY <2>2, <2>3, <2>4 DEF LinkInv, Carried, Untouched
    <3>2. ~InPlace'
      BY <2>2, <2>4 DEF Note, InPlace
    <3> QED BY <3>1, <3>2 DEF LinkInv
  <2>5. CASE ok
    <3>1. /\ keyed' = keyed \cup {s} /\ linked' = linked \ {s} /\ mailing' = mailing \ {s}
          /\ \A p \in fresh' : p = Owner \/ (p \in fresh /\ About(p) # s)
          /\ \A p \in fresh : About(p) # s => p \in fresh'
          /\ (Owner \in fresh' <=> desk' = "inviting") /\ desk' \in {"inviting", "sending"}
      <4> DEFINE senders == IF ok /\ (ordered => First(s, Signers)) THEN {Owner} ELSE {}
      <4>1. Renew(s, senders)
        BY <2>2, <2>5
      <4>2. \/ desk' = "inviting" /\ senders = {Owner}
            \/ desk' = "sending" /\ senders = {}
        <5>1. CASE ordered => First(s, Signers)
          BY <2>2, <2>5, <5>1
        <5>2. CASE ~(ordered => First(s, Signers))
          BY <2>2, <2>5, <5>2
        <5> QED BY <5>1, <5>2
      <4> HIDE DEF senders
      <4>3. /\ keyed' = keyed \cup {s} /\ linked' = linked \ {s} /\ mailing' = mailing \ {s}
            /\ fresh' = {p \in fresh : About(p) # s} \cup senders
        BY <4>1 DEF Renew
      <4>4. CASE desk' = "inviting" /\ senders = {Owner}
        BY <2>3, <4>3, <4>4
      <4>5. CASE desk' = "sending" /\ senders = {}
        BY <2>3, <4>3, <4>5
      <4> QED BY <4>2, <4>4, <4>5
    <3>2. Carried' /\ Untouched'
      BY <2>1, <2>3, <3>1, SigningAssumption DEF LinkInv, Carried, Untouched
    <3>3. InPlace' => InPlace
      BY <2>2, <2>3, <2>5 DEF InPlace, Note
    <3>4. ASSUME Invited PROVE Invited'
      <4>1. s \notin keyed
        BY <2>3, <3>4 DEF Invited
      <4>2. \A p \in fresh : p \in Calls /\ call[p].who \in keyed /\ About(p) = call[p].who
        BY <2>3 DEF LinkInv, Carried, About, TypeOK
      <4>3. \A p \in fresh : About(p)' = About(p) /\ p \in fresh'
        BY <2>3, <3>1, <4>1, <4>2, SigningAssumption DEF About, TypeOK
      <4>4. UnderWay \subseteq UnderWay'
        BY <3>1, <4>1, <4>3 DEF UnderWay, TypeOK
      <4>5. desk' = "inviting" => whom' \in UnderWay'
        BY <2>1, <3>1 DEF UnderWay, About
      <4>6. \A t \in keyed' : status'[t] \in {"pending", "viewed", "signed"} \/ t \in UnderWay'
        BY <2>3, <3>1, <3>4, <4>1, <4>4 DEF Invited, LinkInv, Untouched
      <4>7. \A c \in Calls : call'[c].at \notin {"idle", "chosen"} => call'[c].who \in UnderWay'
        BY <2>3, <3>4, <4>4 DEF Invited
      <4>8. todo' \cap keyed' = {} /\ (sends' = 1 => Signers \ todo' \subseteq keyed')
        BY <2>1, <2>3, <3>1, <3>4 DEF Invited
      <4> QED BY <4>5, <4>6, <4>7, <4>8 DEF Invited
    <3> QED BY <3>2, <3>3, <3>4 DEF LinkInv
  <2> QED BY <2>4, <2>5
<1>3. CASE SendSent
  <2>1. /\ desk = "inviting" /\ desk' = "sending" /\ whom \in keyed /\ whom \in Signers
        /\ fresh' = fresh \ {Owner}
        /\ mailing' = IF Owner \in fresh THEN mailing \cup {whom} ELSE mailing
        /\ UNCHANGED <<linked, keyed, call, todo, whom, sends, crossed>>
    BY <1>3 DEF SendSent, Invite, TypeOK
  <2>2. \A s \in Signers : s # whom => status'[s] = status[s]
    BY <1>3, <2>1, OutcomesAre DEF SendSent, Invite, SetStatus, TypeOK
  <2>3. Carried' /\ Untouched'
    BY <2>1, <2>2 DEF LinkInv, Carried, Untouched
  <2>4. InPlace' => InPlace
    BY <1>3, <2>1 DEF SendSent, Invite, Note, InPlace
  <2>5. UnderWay \subseteq UnderWay'
    <3>1. \A p \in fresh : About(p)' = About(p)
      BY <2>1 DEF About
    <3> QED BY <2>1, <3>1 DEF UnderWay, About
  <2>6. ASSUME Invited PROVE Invited'
    BY <2>1, <2>2, <2>5, <2>6 DEF Invited, TypeOK
  <2> QED BY <2>3, <2>4, <2>6 DEF LinkInv
<1>4. CASE SendPending
  <2>1. Carried' /\ Untouched'
    BY <1>4 DEF SendPending, LinkInv, Carried, Untouched
  <2>2. InPlace' => InPlace
    BY <1>4 DEF SendPending, InPlace, Note
  <2>3. UnderWay' = UnderWay
    <3>1. Owner \notin fresh
      BY <1>4 DEF SendPending, LinkInv, Carried
    <3>2. \A p \in fresh : About(p)' = About(p)
      BY <1>4, <3>1 DEF SendPending, About
    <3> QED BY <1>4, <3>2 DEF SendPending, UnderWay
  <2>4. ASSUME Invited PROVE Invited'
    BY <1>4, <2>3, <2>4 DEF SendPending, Invited
  <2> QED BY <2>1, <2>2, <2>4 DEF LinkInv
<1>5. CASE VoidDocument
  BY <1>5 DEF VoidDocument, LinkInv, Carried, Untouched, InPlace, Invited, UnderWay, About
<1> QED BY <1>1, <1>2, <1>3, <1>4, <1>5

LEMMA SignerLinks ==
    ASSUME TypeOK, LinkInv, NEW s \in Signers,
           \/ Mail(s) \/ ListDocumentsToSign(s) \/ RecordView(s)
           \/ \E c \in Calls : SubmitSignature(c, s) \/ PrepareSignature(c, s) \/ DeclineSigning(c, s)
    PROVE  LinkInv'
<1> USE DEF row, owner, guest, history
<1>1. CASE Mail(s)
  <2>1. Carried' /\ Untouched'
    BY <1>1 DEF Mail, LinkInv, Carried, Untouched
  <2>2. ASSUME InPlace' PROVE InPlace /\ UnderWay \subseteq UnderWay'
    <3>1. InPlace
      BY <1>1, <2>2 DEF Mail, InPlace, Note
    <3>2. linked' = linked \cup {s}
      BY <1>1, <2>2, OutcomesAre DEF Mail, InPlace, Note
    <3>3. \A p \in fresh : About(p)' = About(p)
      BY <1>1 DEF Mail, About
    <3> QED BY <1>1, <3>1, <3>2, <3>3 DEF Mail, UnderWay
  <2>3. ASSUME Invited, UnderWay \subseteq UnderWay' PROVE Invited'
    BY <1>1, <2>3 DEF Mail, Invited
  <2> QED BY <2>1, <2>2, <2>3 DEF LinkInv
<1>2. CASE ListDocumentsToSign(s)
  <2>1. Carried' /\ Untouched' /\ (InPlace' => InPlace)
    BY <1>2 DEF ListDocumentsToSign, LinkInv, Carried, Untouched, InPlace
  <2>2. UnderWay \subseteq UnderWay'
    BY <1>2 DEF ListDocumentsToSign, UnderWay, About
  <2>3. ASSUME Invited PROVE Invited'
    BY <1>2, <2>2, <2>3 DEF ListDocumentsToSign, Invited
  <2> QED BY <2>1, <2>3 DEF LinkInv
<1>3. CASE RecordView(s)
  <2>1. /\ s \in keyed /\ status' = [status EXCEPT ![s] = "viewed"]
        /\ UNCHANGED <<keyed, call, owner, guest, crossed, failed>>
    BY <1>3 DEF RecordView, TypeOK
  <2>2. Carried' /\ Untouched' /\ (InPlace' => InPlace)
    BY <2>1 DEF LinkInv, Carried, Untouched, InPlace, TypeOK
  <2>3. UnderWay' = UnderWay
    BY <2>1 DEF UnderWay, About
  <2>4. ASSUME Invited PROVE Invited'
    BY <2>1, <2>3, <2>4 DEF Invited, TypeOK
  <2> QED BY <2>2, <2>4 DEF LinkInv
<1>4. ASSUME NEW c \in Calls, SubmitSignature(c, s) \/ PrepareSignature(c, s) \/ DeclineSigning(c, s)
      PROVE  LinkInv'
  <2>0. Start(c, s, "found") \/ Start(c, s, "prepared") \/ Start(c, s, "declining")
    BY <1>4, Zenon DEF SubmitSignature, PrepareSignature, DeclineSigning
  <2>1. /\ call[c].at = "idle" /\ s \in linked
        /\ UNCHANGED <<ordered, row, owner, guest, pdf, history>>
        /\ \E place \in {"found", "prepared", "declining"} :
             call' = [call EXCEPT ![c] = [at |-> place, who |-> s, last |-> FALSE, cut |-> FALSE]]
    BY <2>0 DEF Start, Resting
  <2>2. /\ \A d \in Calls \ {c} : call'[d] = call[d]
        /\ call'[c].who = s /\ s \in keyed
    BY <2>1 DEF TypeOK
  <2>3. c \notin fresh
    BY <2>1 DEF LinkInv, Carried
  <2>4. Carried' /\ (InPlace' => InPlace)
    BY <2>1, <2>2, <2>3 DEF LinkInv, Carried, InPlace
  <2>5. Untouched'
    BY <2>1, <2>2 DEF LinkInv, Untouched
  <2>6. UnderWay' = UnderWay /\ s \in UnderWay
    <3>1. \A p \in fresh : About(p)' = About(p)
      BY <2>1, <2>2, <2>3 DEF About, TypeOK
    <3> QED BY <2>1, <3>1 DEF UnderWay
  <2>7. ASSUME Invited PROVE Invited'
    BY <2>1, <2>2, <2>6, <2>7 DEF Invited
  <2> QED BY <2>4, <2>5, <2>7 DEF LinkInv
<1> QED BY <1>1, <1>2, <1>3, <1>4

LEMMA NotifyLinks ==
    ASSUME TypeOK, LinkInv, NEW c \in Calls, SetToken(c) \/ MarkSent(c)
    PROVE  LinkInv'
<1> USE DEF row, owner, guest, history
<1>1. CASE SetToken(c)
  <2>1. PICK ok \in BOOLEAN :
           /\ Note(ok, "link")
           /\ IF ok
                THEN /\ Renew(call[c].who, {c})
                     /\ Goto(c, "renewed")
                     /\ crossed' = (crossed \/ desk # "idle")
                ELSE Return(c) /\ UNCHANGED <<keyed, guest, crossed>>
    BY <1>1, OutcomesAre DEF SetToken
  <2>2. /\ call[c].at = "chosen" /\ call[c].who \in Signers /\ c \notin fresh
        /\ UNCHANGED <<status, owner>> /\ sends # 0
    BY <1>1 DEF SetToken, TypeOK, LinkInv, Carried, Untouched
  <2>3. CASE ~ok
    <3>1. call' = [call EXCEPT ![c] = Resting] /\ UNCHANGED <<keyed, guest>>
      BY <2>1, <2>3 DEF Return
    <3>2. \A d \in Calls \ {c} : call'[d] = call[d]
      BY <3>1 DEF TypeOK
    <3>3. call'[c].at = "idle"
      BY <3>1 DEF TypeOK, Resting
    <3>4. Carried' /\ Untouched'
      BY <2>2, <3>1, <3>2, <3>3 DEF LinkInv, Carried, Untouched
    <3>5. ~InPlace'
      BY <2>1, <2>3 DEF Note, InPlace
    <3> QED BY <3>4, <3>5 DEF LinkInv
  <2>4. CASE ok
    <3>1. /\ \A d \in Calls \ {c} : call'[d] = call[d]
          /\ call'[c].at = "renewed" /\ call'[c].who = call[c].who
      BY <2>1, <2>4 DEF Goto, TypeOK
    <3>2. /\ keyed' = keyed \cup {call[c].who} /\ linked' = linked \ {call[c].who}
          /\ mailing' = mailing \ {call[c].who}
          /\ fresh' = {p \in fresh : About(p) # call[c].who} \cup {c}
      BY <2>1, <2>4 DEF Renew
    <3>3. Carried'
      BY <2>2, <3>1, <3>2, SigningAssumption DEF LinkInv, Carried
    <3>4. Untouched'
      BY <2>2, <3>1, <3>2 DEF LinkInv, Untouched
    <3>5. InPlace' => InPlace /\ desk = "idle"
      BY <2>1, <2>2, <2>4 DEF InPlace, Note
    <3>6. UnderWay \subseteq UnderWay' /\ call[c].who \in UnderWay'
      <4>1. \A p \in fresh : About(p)' = About(p)
        BY <2>2, <3>1 DEF About, TypeOK
      <4>2. c # Owner /\ About(c)' = call[c].who /\ c \in fresh'
        BY <3>1, <3>2, SigningAssumption DEF About
      <4>3. call[c].who \in UnderWay'
        BY <4>2 DEF UnderWay
      <4>4. ASSUME NEW t \in UnderWay, t # call[c].who PROVE t \in UnderWay'
        BY <3>2, <4>1, <4>4 DEF UnderWay
      <4> QED BY <4>3, <4>4
    <3>7. ASSUME Invited, desk = "idle" PROVE Invited'
      <4>1. todo = {}
        BY <3>7 DEF LinkInv, Untouched
      <4>2. \A t \in keyed' : status'[t] \in {"pending", "viewed", "signed"} \/ t \in UnderWay'
        BY <2>2, <3>2, <3>6, <3>7 DEF Invited
      <4>3. \A d \in Calls : call'[d].at \notin {"idle", "chosen"} => call'[d].who \in UnderWay'
        BY <3>1, <3>6, <3>7 DEF Invited
      <4> QED BY <2>2, <3>2, <3>7, <4>1, <4>2, <4>3 DEF Invited
    <3> QED BY <3>3, <3>4, <3>5, <3>7 DEF LinkInv
  <2> QED BY <2>3, <2>4
<1>2. CASE MarkSent(c)
  <2>1. /\ call[c].at = "renewed" /\ call[c].who \in keyed /\ call[c].who \in Signers
        /\ fresh' = fresh \ {c}
        /\ mailing' = IF c \in fresh THEN mailing \cup {call[c].who} ELSE mailing
        /\ UNCHANGED <<linked, keyed, owner, crossed>>
    BY <1>2 DEF MarkSent, Invite, TypeOK
  <2>2. \A s \in Signers : s # call[c].who => status'[s] = status[s]
    BY <1>2, <2>1, OutcomesAre DEF MarkSent, Invite, SetStatus, TypeOK
  <2>3. \A d \in Calls \ {c} : call'[d] = call[d]
    BY <1>2 DEF MarkSent, Return, TypeOK
  <2>4. call'[c].at = "idle"
    BY <1>2 DEF MarkSent, Return, Resting, TypeOK
  <2>5. Carried' /\ Untouched'
    BY <2>1, <2>2, <2>3, <2>4, SigningAssumption DEF LinkInv, Carried, Untouched
  <2>6. InPlace' => InPlace
    BY <1>2, <2>1 DEF MarkSent, Invite, Note, InPlace
  <2>7. UnderWay \subseteq UnderWay'
    <3>1. \A p \in fresh \ {c} : About(p)' = About(p)
      BY <2>1, <2>3 DEF About, TypeOK
    <3>2. About(c) = call[c].who
      BY SigningAssumption DEF About
    <3> QED BY <2>1, <3>1, <3>2 DEF UnderWay
  <2>8. ASSUME Invited PROVE Invited'
    <3>1. call[c].who \in UnderWay
      BY <2>1, <2>8 DEF Invited
    <3> QED BY <2>1, <2>2, <2>3, <2>4, <2>7, <2>8, <3>1 DEF Invited, TypeOK
  <2> QED BY <2>5, <2>6, <2>8 DEF LinkInv
<1> QED BY <1>1, <1>2

LEMMA RestartLinks ==
    ASSUME TypeOK, LinkInv, Restart
    PROVE  LinkInv'
<1>1. \A c \in Calls : call'[c].at = "idle"
  BY DEF Restart, Resting
<1>2. /\ fresh' = {} /\ desk' = "idle" /\ todo' = {}
      /\ UNCHANGED <<keyed, status, sends, linked, crossed>>
  BY DEF Restart, row
<1>3. Carried' /\ Untouched'
  BY <1>1, <1>2 DEF LinkInv, Carried, Untouched
<1>4. ASSUME InPlace'
      PROVE  InPlace /\ desk = "idle" /\ mailing = {} /\ fresh = {}
  <2>1. InPlace /\ desk = "idle" /\ mailing = {} /\ \A c \in Calls : call[c].at # "renewed"
    BY <1>4 DEF Restart, InPlace
  <2>2. fresh = {}
    BY <2>1 DEF LinkInv, Carried, TypeOK
  <2> QED BY <2>1, <2>2
<1>5. ASSUME Invited, desk = "idle", mailing = {}, fresh = {} PROVE Invited'
  <2>1. UnderWay = linked /\ linked \subseteq UnderWay'
    BY <1>2, <1>5 DEF UnderWay
  <2>2. todo = {}
    BY <1>5 DEF LinkInv, Untouched
  <2> QED BY <1>1, <1>2, <1>5, <2>1, <2>2 DEF Invited
<1> QED BY <1>3, <1>4, <1>5 DEF LinkInv

LEMMA LinkInvariance == Spec => []LinkInv
<1>1. Init => LinkInv
  <2> SUFFICES ASSUME Init PROVE LinkInv
    OBVIOUS
  <2>1. \A c \in Calls : call[c].at = "idle"
    BY DEF Init, Resting
  <2> QED BY <2>1 DEF Init, LinkInv, Carried, Untouched, Invited
<1>2. TypeOK /\ LinkInv /\ [Next]_vars => LinkInv'
  <2> SUFFICES ASSUME TypeOK, LinkInv, [Next]_vars PROVE LinkInv'
    OBVIOUS
  <2>1. CASE UNCHANGED vars
    BY <2>1 DEF vars, row, owner, guest, history, LinkInv, Carried, Untouched, InPlace, Invited,
                UnderWay, About
  <2>2. CASE Send \/ SendToken \/ SendSent \/ SendPending \/ VoidDocument
    BY <2>2, OwnerLinks
  <2>3. ASSUME NEW s \in Signers,
               \/ Mail(s) \/ ListDocumentsToSign(s) \/ RecordView(s)
               \/ \E c \in Calls : SubmitSignature(c, s) \/ PrepareSignature(c, s)
                                  \/ DeclineSigning(c, s)
        PROVE  LinkInv'
    BY <2>3, SignerLinks
  <2>4. ASSUME NEW c \in Calls,
               \/ CheckOrder(c) \/ Sign(c) \/ Tally(c) \/ ReadSigners(c) \/ Upload(c)
               \/ Complete(c) \/ GetNextSigner(c) \/ Attest(c) \/ ReadAttested(c)
               \/ UploadAttested(c) \/ Decline(c) \/ SetDeclined(c)
        PROVE  LinkInv'
    BY <2>4, AloneStep, AloneKeeps
  <2>5. ASSUME NEW c \in Calls, SetToken(c) \/ MarkSent(c) PROVE LinkInv'
    BY <2>5, NotifyLinks
  <2>6. CASE Restart
    BY <2>6, RestartLinks
  <2> QED BY <2>1, <2>2, <2>3, <2>4, <2>5, <2>6 DEF Next
<1> QED BY <1>1, <1>2, TypeCorrect, PTL DEF Spec

(* Nobody who is due is locked out of a document that was sent once:       *)
(* Signing!DueCanSign.                                                     *)
THEOREM DueHaveLinks == Spec => []DueCanSign
<1>1. TypeOK /\ LinkInv => DueCanSign
  <2> SUFFICES ASSUME TypeOK, LinkInv, Quiet, doc = "pending", sends = 1, ~crossed,
                      "link" \notin failed, NEW s \in Signers \ Signed
               PROVE  s \in linked \/ Listed(s)
    BY DEF DueCanSign
  <2>1. Invited /\ fresh = {} /\ mailing = {} /\ todo = {}
    BY DEF LinkInv, InPlace, Carried, Quiet, Untouched, TypeOK
  <2>2. s \in keyed /\ UnderWay = linked
    BY <2>1 DEF Invited, UnderWay
  <2> QED BY <2>1, <2>2 DEF Invited, Listed, Signed
<1> QED BY <1>1, TypeCorrect, LinkInvariance, PTL
===============================================================================
