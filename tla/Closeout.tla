------------------------------- MODULE Closeout -------------------------------
(***************************************************************************)
(* From an accepted candidate to its closeout packet (accept_candidate of   *)
(* src/acceptance.py, the receipt of src/pipeline.py, src/closeout.py): the *)
(* review and the consent of people are bound to a candidate and to a       *)
(* receipt, hold for a time, and may be overtaken by another candidate or   *)
(* another review before the packet is made.                                *)
(*                                                                         *)
(* A packet is made from what its caller hands in: receipts with their      *)
(* contents or their digests alone, changed or put together by hand, and a  *)
(* time of the caller's choice.  Its constructor reads the hashes that it   *)
(* finds in them; only rehydrate_closeout_packet derives hashes again, and  *)
(* only those of the packet and of its references.                          *)
(***************************************************************************)
EXTENDS Acceptance, Integers, Sequences

CONSTANTS
  Task,        \* a task with its execution
  Claim,       \* what a packet is said to be about: [baseline, candidate, patch], by digest
  Validity,    \* how long a review or a consent holds
  MaxReviews,  \* bound: reviews that are held
  MaxTime,     \* bound: the last time
  MaxEdits     \* bound: how often a holder changes a document and leaves its hash

ASSUME CloseoutAssumption ==
  /\ Validity \in Nat \ {0} /\ {MaxReviews, MaxTime, MaxEdits} \subseteq Nat
  /\ Claim \subseteq [baseline : Observation, candidate : CandidateBody, patch : Patch]

VARIABLES
  receipt,   \* the acceptance receipt in hand
  pipeline,  \* the pipeline receipt in hand
  review,    \* the review reference in hand: [task, id, content, packet, issued, expires],
             \* where id stands for the review and its digest
  consent,   \* the consent reference in hand, of the same form
  closed,    \* the packet in hand: a document with its history, whether the acceptance
             \* receipt it was made from was genuine, and whether it was rehydrated
  shown,     \* history: what each review was about, and when people reviewed and consented
  now,
  edits      \* how often a document was changed

handed == <<receipt, pipeline, review, consent>>
closeVars == <<handed, closed, shown, now, edits>>

CloseInit ==
  /\ receipt = NoDoc /\ pipeline = NoDoc /\ review = NoDoc /\ consent = NoDoc
  /\ closed = NoDoc /\ shown = <<>> /\ now = 0 /\ edits = 0

-----------------------------------------------------------------------------
\* plan_candidate_acceptance and accept_candidate
Accept(s) ==
  /\ Acceptable(s)
  /\ receipt' = Doc(AcceptanceBody(s))
  /\ closed' = NoDoc
  /\ UNCHANGED <<pipeline, review, consent, shown, now, edits>>

\* run_pipeline succeeds with the receipt in hand.
RunPipeline ==
  /\ Intact(receipt)
  /\ pipeline' = Doc([acceptance |-> receipt.hash])
  /\ closed' = NoDoc
  /\ UNCHANGED <<receipt, review, consent, shown, now, edits>>

\* People review the candidate they are shown, with one of the receipts as the packet.
Review(task, packet) ==
  /\ receipt # NoDoc /\ Len(shown) < MaxReviews
  /\ review' = Doc([task |-> task, id |-> Len(shown) + 1, content |-> receipt.body.candidate,
                    packet |-> packet.hash, issued |-> now, expires |-> now + Validity])
  /\ shown' = Append(shown, [task |-> task, candidate |-> receipt.body.candidate,
                             at |-> now, consents |-> {}])
  /\ closed' = NoDoc
  /\ UNCHANGED <<receipt, pipeline, consent, now, edits>>

Consent ==
  /\ Intact(review)
  /\ consent' = Doc([review.body EXCEPT !.issued = now, !.expires = now + Validity])
  /\ shown' = [shown EXCEPT ![review.body.id].consents = @ \cup {now}]
  /\ closed' = NoDoc
  /\ UNCHANGED <<receipt, pipeline, review, now, edits>>

Tick ==
  /\ now < MaxTime /\ now' = now + 1
  /\ closed' = NoDoc
  /\ UNCHANGED <<handed, shown, edits>>

-----------------------------------------------------------------------------
(***************************************************************************)
(* What a holder makes of a document, or puts together by hand under the    *)
(* hash of another: the contents are new, the hash is not.                  *)
(***************************************************************************)
Edited == edits < MaxEdits /\ edits' = edits + 1 /\ UNCHANGED <<shown, now>>

EditReceipt(claim) ==
  /\ receipt # NoDoc
  /\ receipt' = [receipt EXCEPT !.body.baseline = claim.baseline,
                                !.body.candidate = claim.candidate, !.body.patch = claim.patch]
  /\ closed' = NoDoc
  /\ Edited /\ UNCHANGED <<pipeline, review, consent>>

\* The pipeline receipt is made to name the acceptance receipt in hand.
EditPipeline ==
  /\ receipt # NoDoc /\ pipeline # NoDoc /\ pipeline.body.acceptance # receipt.hash
  /\ pipeline' = [pipeline EXCEPT !.body.acceptance = receipt.hash]
  /\ closed' = NoDoc
  /\ Edited /\ UNCHANGED <<receipt, review, consent>>

\* A reference is made to look like a recent one of another candidate.
Forged(ref, claim) ==
  [ref EXCEPT !.body.content = claim.candidate, !.body.issued = now, !.body.expires = now + Validity]

EditReview(claim) ==
  /\ review # NoDoc /\ review' = Forged(review, claim)
  /\ closed' = NoDoc
  /\ Edited /\ UNCHANGED <<receipt, pipeline, consent>>

EditConsent(claim) ==
  /\ consent # NoDoc /\ consent' = Forged(consent, claim)
  /\ closed' = NoDoc
  /\ Edited /\ UNCHANGED <<receipt, pipeline, review>>

EditPacket(claim) ==
  /\ closed # NoDoc
  /\ closed' = [closed EXCEPT !.body.claim = claim, !.replayed = FALSE]
  /\ Edited /\ UNCHANGED handed

-----------------------------------------------------------------------------
(***************************************************************************)
(* CloseoutPacket                                                           *)
(***************************************************************************)
\* The bindings of the receipts that are given with their contents, by the hashes in them.
\* (A pipeline receipt whose contents name no acceptance receipt is like its digest alone.)
ReceiptsFit(claim, given) ==
  /\ "pipeline" \in given => pipeline.body.acceptance = receipt.hash
  /\ "acceptance" \in given =>
       /\ claim.baseline = receipt.body.baseline
       /\ claim.candidate = receipt.body.candidate
       /\ claim.patch = receipt.body.patch

\* Mistaken: what was reviewed is not compared, only the receipt it went with.
ReferenceFitsReceipt(ref, k) ==
  /\ ref.body.task = k.task /\ ref.body.id = k.id
  /\ ref.body.packet \in {k.pipeline, k.acceptance}
  /\ ref.body.issued <= k.at /\ k.at < ref.body.expires

\* check_reference, and the window that derive_digests_and_hash tests at the packet's time.
ReferenceFits(ref, k) ==
  /\ ref.body.task = k.task /\ ref.body.id = k.id
  /\ ref.body.content = k.claim.candidate
  /\ ref.body.packet \in {k.pipeline, k.acceptance}
  /\ ref.body.issued <= k.at /\ k.at < ref.body.expires

\* A review and a consent must be of one task and of one review.
Together(r, c) == r.body.task = c.body.task /\ r.body.id = c.body.id

\* Either reference may be absent.
ReferencesFit(k) ==
  /\ \A ref \in {k.review, k.consent} \ {NoDoc} : ReferenceFits(ref, k)
  /\ NoDoc \notin {k.review, k.consent} => Together(k.review, k.consent)

PacketOf(p, r, c) ==
  [task |-> p.task, id |-> p.id, claim |-> p.claim, at |-> p.at,
   acceptance |-> receipt.hash, pipeline |-> pipeline.hash, review |-> r, consent |-> c]

Packet == [task : Task, id : 1 .. MaxReviews, claim : Claim, at : 0 .. MaxTime]

Close(p, given, r, c) ==
  /\ receipt # NoDoc /\ pipeline # NoDoc
  /\ ReceiptsFit(p.claim, given) /\ ReferencesFit(PacketOf(p, r, c))
  /\ closed' = [body |-> PacketOf(p, r, c), hash |-> PacketOf(p, r, c), replayed |-> FALSE,
                genuine |-> "acceptance" \in given /\ Intact(receipt)]
  /\ UNCHANGED <<handed, shown, now, edits>>

\* rehydrate_closeout_packet: the packet's hash and those of its references are derived again.
Rehydrate ==
  /\ Intact(closed) /\ ReferencesFit(closed.body)
  /\ \A ref \in {closed.body.review, closed.body.consent} \ {NoDoc} : Intact(ref)
  /\ closed' = [closed EXCEPT !.replayed = TRUE]
  /\ UNCHANGED <<handed, shown, now, edits>>

\* What is done with the packet in hand.
PacketNext == Rehydrate \/ \E claim \in Claim : EditPacket(claim)

\* What is done without it.
HandNext ==
  \/ \E s \in Submission : Accept(s)
  \/ \E task \in Task, packet \in {receipt, pipeline} \ {NoDoc} : Review(task, packet)
  \/ \E claim \in Claim : EditReceipt(claim) \/ EditReview(claim) \/ EditConsent(claim)
  \/ \E p \in Packet, given \in SUBSET {"acceptance", "pipeline"},
        r \in {NoDoc, review}, c \in {NoDoc, consent} : Close(p, given, r, c)
  \/ RunPipeline \/ EditPipeline \/ Consent \/ Tick

CloseNext == HandNext \/ PacketNext

CloseSpec == CloseInit /\ [][CloseNext]_closeVars

-----------------------------------------------------------------------------
(***************************************************************************)
(* An acceptance receipt stands for a patch whose tests passed on the very  *)
(* baseline that failed: although candidates, gates and hypotheses of other *)
(* attempts, and edited ones, are at hand, none is accepted for another.    *)
(* (The hash of the receipt is that of what was accepted, whatever becomes  *)
(* of the contents.)                                                        *)
(***************************************************************************)
ReceiptIsEarned ==
  receipt # NoDoc =>
    /\ ~receipt.hash.baseline.passed
    /\ <<receipt.hash.baseline, receipt.hash.candidate.patch>> \in Fixes

(***************************************************************************)
(* A packet that rehydrates with a review or a consent names the candidate  *)
(* and the task that the people of that review were shown, and a time at    *)
(* which their review and a consent they gave held, whichever candidate was *)
(* accepted since and whatever was made of the documents.  Its baseline and *)
(* patch are the candidate's and a fix that was tested when it was made     *)
(* from a genuine acceptance receipt with its contents; of a packet made    *)
(* from a digest alone, or from an edited receipt, that is not claimed.     *)
(***************************************************************************)
ClosedAsReviewed ==
  closed # NoDoc /\ closed.replayed =>
    LET k == closed.body
        held(t) == t <= k.at /\ k.at < t + Validity
    IN  /\ {k.review, k.consent} # {NoDoc} =>
             /\ k.id \in DOMAIN shown
             /\ shown[k.id].candidate = k.claim.candidate /\ shown[k.id].task = k.task
        /\ k.review # NoDoc => held(shown[k.id].at)
        /\ k.consent # NoDoc => \E t \in shown[k.id].consents : held(t)
        /\ closed.genuine =>
             /\ <<k.claim.baseline, k.claim.patch>> \in Fixes
             /\ k.claim.candidate.patch = k.claim.patch
=============================================================================
