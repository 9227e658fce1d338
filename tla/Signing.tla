-------------------------------- MODULE Signing --------------------------------
(***************************************************************************)
(* One PDF document on its way through the signers: SendDocument and       *)
(* VoidDocument of internal/pdf/handler/documents.go, the calls of the     *)
(* signing page in internal/pdf/handler/signing.go, and the statements of  *)
(* internal/pdf/sql/queries that they run.  No handler has a transaction:  *)
(* one statement, upload or mail is one step, and may fail.                *)
(*                                                                         *)
(* The signers and their order are those of the document when it was sent. *)
(* Of a token only matters whether it is the signer's latest: links with   *)
(* an older one are dead.  That a signing page was loaded before it makes  *)
(* a call is not asked, since the server does not.  A failure is modelled  *)
(* where the code goes on after it; a call that returns before it signs (a *)
(* required field is not filled, say) has changed nothing that is modelled.*)
(* Left out: fields and their values, certificates, expiry of links, the   *)
(* audit trail, completion and decline mails, and deletion of the document.*)
(***************************************************************************)
EXTENDS Naturals, FiniteSets

CONSTANTS
    Signers,       \* the signers of the document, all of signer_type 'signer'
    Order,         \* signing_order of each
    Calls,         \* concurrent executions of the signing handlers
    Owner,         \* who sends the document
    None,          \* no signer
    MaxSends,      \* bound: how often the owner sends
    MaxFailures    \* bound: kinds of failure that happen

ASSUME SigningAssumption ==
    /\ IsFiniteSet(Signers) /\ Signers # {}
    /\ Order \in [Signers -> Nat]
    /\ None \notin Signers /\ Owner \notin Calls
    /\ MaxSends \in Nat /\ MaxFailures \in Nat

VARIABLES
    ordered,   \* documents.signing_order
    doc,       \* documents.status
    status,    \* signers.status of each signer
    keyed,     \* the signers whose signers.access_token is not NULL
    linked,    \* the signers who were mailed, or found in their list, their token
    call,      \* how far each call is (at), the signer it is about (who), whether
               \* it found signedCount = totalSigners (last), and whether the PDF
               \* it makes shows everybody's signature (cut)
    fresh,     \* the calls, or the owner, about to mail a token nobody has renewed
    mailing,   \* the signers to whom a mail with their token is under way
    pdf,       \* the signed PDF shows everybody's signature
    desk,      \* how far the owner's SendDocument is
    todo,      \* the signers it still has to invite
    whom,      \* the signer it invites
    sends,     \* how often the owner has sent
    failed,    \* history: the kinds of failure so far
    ever,      \* history: the signers who have signed at some time
    attested,  \* history: those of them who did so through CompleteSignature
    crossed,   \* history: a token was renewed while the owner was still sending
    finished   \* history: the document was completed since a signature was undone

row == <<doc, status, keyed>>
owner == <<desk, todo, whom, sends>>
guest == <<linked, fresh, mailing>>
history == <<failed, ever, attested, crossed, finished>>
vars == <<ordered, row, call, owner, guest, pdf, history>>

-----------------------------------------------------------------------------
Signed == {s \in Signers : status[s] = "signed"}

Before(s) == {t \in Signers : Order[t] < Order[s]}

(* Of a set of signers, one of those ORDER BY signing_order lists first.   *)
First(s, some) == s \in some /\ \A t \in some : Order[s] <= Order[t]

Outcomes(kind) ==
    IF kind \in failed \/ Cardinality(failed) < MaxFailures THEN BOOLEAN ELSE {TRUE}

Note(ok, kind) == failed' = IF ok THEN failed ELSE failed \cup {kind}

Goto(c, place) == call' = [call EXCEPT ![c].at = place]

Resting == [at |-> "idle", who |-> None, last |-> FALSE, cut |-> FALSE]

Return(c) == call' = [call EXCEPT ![c] = Resting]

About(p) == IF p = Owner THEN whom ELSE call[p].who

(* A write of a signer's status that may undo a signature.                 *)
SetStatus(s, value) ==
    /\ status' = [status EXCEPT ![s] = value]
    /\ finished' = (finished /\ s \notin Signed)

(* SetSignerAccessToken: no link to the signer that exists, or is about to *)
(* be mailed, works any more.  The new one is mailed by the senders.       *)
Renew(s, senders) ==
    /\ keyed' = keyed \cup {s}
    /\ linked' = linked \ {s}
    /\ fresh' = {p \in fresh : About(p) # s} \cup senders
    /\ mailing' = mailing \ {s}

(* UpdateSignerSent, whether it succeeds or not, and then the mail, in the *)
(* background.                                                             *)
Invite(s, by) ==
    /\ \E ok \in Outcomes("other") :
         /\ Note(ok, "other")
         /\ IF ok THEN SetStatus(s, "sent") ELSE UNCHANGED <<status, finished>>
    /\ fresh' = fresh \ {by}
    /\ mailing' = IF by \in fresh THEN mailing \cup {s} ELSE mailing

-----------------------------------------------------------------------------
(* The owner: SendDocument.                                                *)

Send ==
    /\ desk = "idle" /\ sends < MaxSends
    /\ desk' = "sending"
    /\ todo' = Signers
    /\ sends' = sends + 1
    /\ UNCHANGED <<ordered, row, call, whom, guest, pdf, history>>

(* The loop takes the signers in their order; each gets a new token, and   *)
(* those who may sign at once are invited.                                 *)
SendToken ==
    /\ desk = "sending"
    /\ \E s \in Signers :
         /\ First(s, todo)
         /\ whom' = s
         /\ todo' = todo \ {s}
         /\ \E ok \in Outcomes("link") :
              LET invite == ok /\ (ordered => First(s, Signers)) IN
              /\ Note(ok, "link")
              /\ IF ok THEN Renew(s, IF invite THEN {Owner} ELSE {}) ELSE UNCHANGED <<keyed, guest>>
              /\ desk' = IF invite THEN "inviting" ELSE "sending"
    /\ UNCHANGED <<ordered, doc, status, call, sends, pdf, ever, attested, crossed, finished>>

SendSent ==
    /\ desk = "inviting"
    /\ desk' = "sending"
    /\ Invite(whom, Owner)
    /\ UNCHANGED <<ordered, doc, keyed, call, todo, whom, sends, linked, pdf, ever, attested, crossed>>

SendPending ==
    /\ desk = "sending" /\ todo = {}
    /\ desk' = "idle"
    /\ whom' = None
    /\ \E ok \in Outcomes("other") :
         /\ Note(ok, "other")
         /\ doc' = IF ok THEN "pending" ELSE doc
    /\ UNCHANGED <<ordered, status, keyed, call, todo, sends, guest, pdf, ever, attested, crossed, finished>>

VoidDocument ==
    /\ doc' = "voided"
    /\ UNCHANGED <<ordered, status, keyed, call, owner, guest, pdf, history>>

-----------------------------------------------------------------------------
(* A signer and the signing page.                                          *)

(* The mail arrives, or is never sent.                                     *)
Mail(s) ==
    /\ s \in mailing
    /\ mailing' = mailing \ {s}
    /\ \E ok \in Outcomes("link") :
         /\ Note(ok, "link")
         /\ linked' = IF ok THEN linked \cup {s} ELSE linked
    /\ UNCHANGED <<ordered, row, call, owner, fresh, pdf, ever, attested, crossed, finished>>

(* ListDocumentsToSign shows the link of a signer who may be due.          *)
Listed(s) == status[s] \in {"pending", "viewed"} /\ doc = "pending" /\ s \in keyed

ListDocumentsToSign(s) ==
    /\ Listed(s)
    /\ linked' = linked \cup {s}
    /\ UNCHANGED <<ordered, row, call, owner, fresh, mailing, pdf, history>>

RecordView(s) ==
    /\ s \in linked
    /\ status[s] \in {"pending", "sent"}
    /\ status' = [status EXCEPT ![s] = "viewed"]
    /\ UNCHANGED <<ordered, doc, keyed, call, owner, guest, pdf, history>>

(* GetSignerByToken finds the signer unless a newer token has replaced the *)
(* one of the link.                                                        *)
Start(c, s, place) ==
    /\ call[c].at = "idle" /\ s \in linked
    /\ call' = [call EXCEPT ![c] = [Resting EXCEPT !.at = place, !.who = s]]
    /\ UNCHANGED <<ordered, row, owner, guest, pdf, history>>

SubmitSignature(c, s) == s \notin Signed /\ Start(c, s, "found")

(* PrepareSignature, up to the CompleteSignature that is given its id.     *)
PrepareSignature(c, s) == s \notin Signed /\ Start(c, s, "prepared")

DeclineSigning(c, s) == Start(c, s, "declining")

-----------------------------------------------------------------------------
(* SubmitSignature.                                                        *)

(* Mutant of MayFollow: whoever has answered lets the next one sign.       *)
MayFollowAnswered(s) == \A t \in Before(s) : status[t] \in {"signed", "declined"}

(* Those before have signed.                                               *)
MayFollow(s) == Before(s) \subseteq Signed

CheckOrder(c) ==
    /\ call[c].at = "found"
    /\ IF ordered => MayFollow(call[c].who) THEN Goto(c, "allowed") ELSE Return(c)
    /\ UNCHANGED <<ordered, row, owner, guest, pdf, history>>

(* The fields are filled and the signer is signed.                         *)
Sign(c) ==
    /\ call[c].at = "allowed"
    /\ status' = [status EXCEPT ![call[c].who] = "signed"]
    /\ ever' = ever \cup {call[c].who}
    /\ Goto(c, "signed")
    /\ UNCHANGED <<ordered, doc, keyed, owner, guest, pdf, failed, attested, crossed, finished>>

(* Mutant of Tally: the counts are those of before the signature.          *)
TallyOthers(c) ==
    /\ call[c].at = "signed"
    /\ call' = [call EXCEPT ![c].at = "tallied", ![c].last = Signed \ {call[c].who} = Signers]
    /\ UNCHANGED <<ordered, row, owner, guest, pdf, history>>

(* Mutant of Tally: who has declined counts as done.                       *)
TallyAnswered(c) ==
    /\ call[c].at = "signed"
    /\ call' = [call EXCEPT ![c].at = "tallied",
                            ![c].last = \A s \in Signers : status[s] \in {"signed", "declined"}]
    /\ UNCHANGED <<ordered, row, owner, guest, pdf, history>>

(* CountSignedSigners and CountTotalSigners, whose errors are dropped: a   *)
(* count that failed is 0.                                                 *)
Tally(c) ==
    /\ call[c].at = "signed"
    /\ \E counted \in Outcomes("count"), summed \in Outcomes("total") :
         /\ failed' = failed \cup (IF counted THEN {} ELSE {"count"})
                             \cup (IF summed THEN {} ELSE {"total"})
         /\ call' = [call EXCEPT ![c].at = "tallied",
                                 ![c].last = (IF counted THEN Cardinality(Signed) ELSE 0)
                                             = (IF summed THEN Cardinality(Signers) ELSE 0)]
    /\ UNCHANGED <<ordered, row, owner, guest, pdf, ever, attested, crossed, finished>>

(* generateSignedPDF signs for those who have signed when it looks, and    *)
(* uploads to the one signed key of the document.                          *)
ReadSigners(c) ==
    /\ call[c].at = "tallied"
    /\ call' = [call EXCEPT ![c].at = "generating", ![c].cut = (Signed = Signers)]
    /\ UNCHANGED <<ordered, row, owner, guest, pdf, history>>

PutSigned(c) ==
    \E ok \in Outcomes("other") :
        /\ Note(ok, "other")
        /\ pdf' = IF ok THEN call[c].cut ELSE pdf

Upload(c) ==
    /\ call[c].at = "generating"
    /\ PutSigned(c)
    /\ IF call[c].last \/ ordered
         THEN call' = [call EXCEPT ![c].at = IF call[c].last THEN "completing" ELSE "notifying",
                                   ![c].cut = FALSE]
         ELSE Return(c)
    /\ UNCHANGED <<ordered, row, owner, guest, ever, attested, crossed, finished>>

Complete(c) ==
    /\ call[c].at = "completing"
    /\ Return(c)
    /\ \E ok \in Outcomes("complete") :
         /\ Note(ok, "complete")
         /\ doc' = IF ok THEN "completed" ELSE doc
         /\ finished' = (finished \/ ok)
    /\ UNCHANGED <<ordered, status, keyed, owner, guest, pdf, ever, attested, crossed>>

(* Mutant of GetNextSigner: it goes on without a row.                      *)
GetNextSignerAlways(c) ==
    /\ call[c].at = "notifying"
    /\ LET waiting == {s \in Signers : status[s] \in {"pending", "viewed"}} IN
         \E s \in Signers \cup {None} :
            /\ IF waiting = {} THEN s = None ELSE s \in waiting /\ First(s, waiting)
            /\ call' = [call EXCEPT ![c] = [Resting EXCEPT !.at = "chosen", !.who = s]]
    /\ UNCHANGED <<ordered, row, owner, guest, pdf, history>>

(* notifyNextSigner, in the background.                                    *)
GetNextSigner(c) ==
    /\ call[c].at = "notifying"
    /\ LET waiting == {s \in Signers : status[s] \in {"pending", "viewed"}} IN
         IF waiting = {}
           THEN Return(c)
           ELSE \E s \in Signers :
                  /\ First(s, waiting)
                  /\ call' = [call EXCEPT ![c] = [Resting EXCEPT !.at = "chosen", !.who = s]]
    /\ UNCHANGED <<ordered, row, owner, guest, pdf, history>>

(* Mutant of SetToken: the link that was read with the signer is mailed.   *)
SetTokenForNext(c) ==
    /\ call[c].at = "chosen"
    /\ Renew(call[c].who, {})
    /\ Goto(c, "renewed")
    /\ UNCHANGED <<ordered, doc, status, owner, pdf, history>>

SetToken(c) ==
    /\ call[c].at = "chosen"
    /\ \E ok \in Outcomes("link") :
         /\ Note(ok, "link")
         /\ IF ok
              THEN /\ Renew(call[c].who, {c})
                   /\ Goto(c, "renewed")
                   /\ crossed' = (crossed \/ desk # "idle")
              ELSE Return(c) /\ UNCHANGED <<keyed, guest, crossed>>
    /\ UNCHANGED <<ordered, doc, status, owner, pdf, ever, attested, finished>>

MarkSent(c) ==
    /\ call[c].at = "renewed"
    /\ Return(c)
    /\ Invite(call[c].who, c)
    /\ UNCHANGED <<ordered, doc, keyed, owner, linked, pdf, ever, attested, crossed>>

-----------------------------------------------------------------------------
(* CompleteSignature: no second look at the signer or the order, no count. *)
Attest(c) ==
    /\ call[c].at = "prepared"
    /\ status' = [status EXCEPT ![call[c].who] = "signed"]
    /\ ever' = ever \cup {call[c].who}
    /\ attested' = attested \cup {call[c].who}
    /\ Goto(c, "attested")
    /\ UNCHANGED <<ordered, doc, keyed, owner, guest, pdf, failed, crossed, finished>>

ReadAttested(c) ==
    /\ call[c].at = "attested"
    /\ call' = [call EXCEPT ![c].at = "attesting", ![c].cut = (Signed = Signers)]
    /\ UNCHANGED <<ordered, row, owner, guest, pdf, history>>

UploadAttested(c) ==
    /\ call[c].at = "attesting"
    /\ PutSigned(c)
    /\ Return(c)
    /\ UNCHANGED <<ordered, row, owner, guest, ever, attested, crossed, finished>>

-----------------------------------------------------------------------------
(* DeclineSigning.                                                         *)
Decline(c) ==
    /\ call[c].at = "declining"
    /\ SetStatus(call[c].who, "declined")
    /\ Goto(c, "declined")
    /\ UNCHANGED <<ordered, doc, keyed, owner, guest, pdf, failed, ever, attested, crossed>>

SetDeclined(c) ==
    /\ call[c].at = "declined"
    /\ Return(c)
    /\ \E ok \in Outcomes("other") :
         /\ Note(ok, "other")
         /\ doc' = IF ok THEN "declined" ELSE doc
    /\ UNCHANGED <<ordered, status, keyed, owner, guest, pdf, ever, attested, crossed, finished>>

(* The server restarts: calls and background work end where they are.  It  *)
(* counts as a failure of what they had still to do.                       *)
Restart ==
    /\ FALSE \in Outcomes("other")
    /\ failed' = failed \cup {"other"}
         \cup {k \in {"complete"} : \E c \in Calls :
                  call[c].at \in {"signed", "tallied", "generating", "completing"}}
         \cup {k \in {"link"} : desk # "idle" \/ mailing # {} \/ \E c \in Calls :
                  call[c].at = "renewed"}
    /\ call' = [c \in Calls |-> Resting]
    /\ fresh' = {} /\ mailing' = {}
    /\ desk' = "idle" /\ todo' = {} /\ whom' = None
    /\ UNCHANGED <<ordered, row, sends, linked, pdf, ever, attested, crossed, finished>>

-----------------------------------------------------------------------------
Init ==
    /\ ordered \in BOOLEAN
    /\ doc = "draft"
    /\ status = [s \in Signers |-> "pending"]
    /\ keyed = {} /\ linked = {} /\ fresh = {} /\ mailing = {}
    /\ call = [c \in Calls |-> Resting]
    /\ pdf = FALSE
    /\ desk = "idle" /\ todo = {} /\ whom = None
    /\ sends = 0
    /\ failed = {} /\ ever = {} /\ attested = {} /\ crossed = FALSE /\ finished = FALSE

Next ==
    \/ Send \/ SendToken \/ SendSent \/ SendPending \/ VoidDocument
    \/ \E s \in Signers :
         \/ Mail(s) \/ ListDocumentsToSign(s) \/ RecordView(s)
         \/ \E c \in Calls :
              SubmitSignature(c, s) \/ PrepareSignature(c, s) \/ DeclineSigning(c, s)
    \/ \E c \in Calls :
         \/ CheckOrder(c) \/ Sign(c) \/ Tally(c) \/ ReadSigners(c) \/ Upload(c) \/ Complete(c)
         \/ GetNextSigner(c) \/ SetToken(c) \/ MarkSent(c)
         \/ Attest(c) \/ ReadAttested(c) \/ UploadAttested(c)
         \/ Decline(c) \/ SetDeclined(c)
    \/ Restart

Spec == Init /\ [][Next]_vars

-----------------------------------------------------------------------------
Places ==
    {"idle", "found", "allowed", "signed", "tallied", "generating", "completing",
     "notifying", "chosen", "renewed", "prepared", "attested", "attesting",
     "declining", "declined"}

Kinds == {"link", "count", "total", "complete", "other"}

(* Every variable has its type, and nobody has a link that does not exist. *)
TypeOK ==
    /\ ordered \in BOOLEAN
    /\ doc \in {"draft", "pending", "completed", "voided", "declined"}
    /\ status \in [Signers -> {"pending", "sent", "viewed", "signed", "declined"}]
    /\ keyed \subseteq Signers /\ linked \subseteq keyed /\ mailing \subseteq keyed
    /\ fresh \subseteq Calls \cup {Owner}
    /\ call \in [Calls -> [at : Places, who : Signers \cup {None},
                            last : BOOLEAN, cut : BOOLEAN]]
    /\ \A c \in Calls : call[c].at # "idle" => call[c].who \in Signers
    /\ \A c \in Calls : call[c].at = "renewed" => call[c].who \in keyed
    /\ pdf \in BOOLEAN
    /\ desk \in {"idle", "sending", "inviting"}
    /\ todo \subseteq Signers
    /\ whom \in Signers \cup {None}
    /\ desk = "inviting" => whom \in keyed
    /\ sends \in 0..MaxSends
    /\ failed \subseteq Kinds
    /\ ever \subseteq Signers /\ attested \subseteq ever
    /\ crossed \in BOOLEAN /\ finished \in BOOLEAN

-----------------------------------------------------------------------------
(* Of a document with an order, whoever signed on the signing page did so  *)
(* after everyone before them: the order is read before the fields are     *)
(* written, and signatures come and go in between.                         *)
OrderKept == ordered => \A s \in ever \ attested : Before(s) \subseteq ever

(* A document is completed only after all its signers have signed,         *)
(* whatever is voided, declined, sent again or undone on the way.  (If the *)
(* count of the signers fails, nobody signed may look like everybody.)     *)
CompletedIsSigned == doc = "completed" /\ "total" \notin failed => ever = Signers

Quiet == desk = "idle" /\ mailing = {} /\ \A c \in Calls : call[c].at = "idle"

(* Whoever signs last completes the document: when all is quiet and all    *)
(* have signed on the signing page, it has been completed since a          *)
(* signature was undone last, however the last calls overlapped, unless    *)
(* the statements that decide it have failed.                              *)
LastCompletes ==
    /\ Quiet /\ Signed = Signers /\ attested = {}
    /\ failed \cap {"count", "total", "complete"} = {}
    => finished

(* When all is quiet, whoever is due has the link that works, by mail or   *)
(* in the list of documents to sign: tokens that calls have renewed, and   *)
(* restarts between two of their steps, leave nobody locked out.  (Sending *)
(* again does, and so does a first signer who is done before the sending.) *)
DueCanSign ==
    /\ Quiet /\ doc = "pending" /\ sends = 1 /\ ~crossed
    /\ "link" \notin failed
    => \A s \in Signers \ Signed :
         (ordered => MayFollow(s)) => s \in linked \/ Listed(s)

(* The signed PDF of a completed document shows every signature.           *)
PdfComplete ==
    Quiet /\ doc = "completed" /\ failed = {} => pdf
===============================================================================
