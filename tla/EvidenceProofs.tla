---------------------------- MODULE EvidenceProofs ----------------------------
(***************************************************************************)
(* Three kinds of evidence that people and gates add up to: from accepted   *)
(* candidates to closeout packets, for every set of submissions, patches    *)
(* and baselines; the runs by which a prompt candidate is compared to its   *)
(* baseline, however many; and the chain of a squad's reports, for every    *)
(* set of ids.                                                              *)
(***************************************************************************)
EXTENDS Closeout, SelfEvolve, ReportChain, FiniteSetTheorems, NaturalsInduction,
        SequenceTheorems, TLAPS

Accepted == [baseline : Observation, candidate : CandidateBody, patch : Patch]

Piped == [acceptance : Accepted]

\* What is in a review or a consent reference.
Reference ==
  [task : Task, id : Nat, content : CandidateBody, packet : Accepted \cup Piped,
   issued : Nat, expires : Nat]

Held(Body) == {NoDoc} \cup [body : Body, hash : Body]

PacketBody ==
  [task : Task, id : 1 .. MaxReviews, claim : Claim, at : 0 .. MaxTime,
   acceptance : Accepted, pipeline : Piped, review : Held(Reference), consent : Held(Reference)]

Made == [body : PacketBody, hash : PacketBody, replayed : BOOLEAN, genuine : BOOLEAN]

Shown == [task : Task, candidate : CandidateBody, at : Nat, consents : SUBSET Nat]

CloseTypeOK ==
  /\ receipt \in Held(Accepted) /\ pipeline \in Held(Piped)
  /\ review \in Held(Reference) /\ consent \in Held(Reference)
  /\ closed \in {NoDoc} \cup Made
  /\ shown \in Seq(Shown)
  /\ now \in Nat

\* What an acceptance receipt vouches for.
Earned(b) ==
  /\ ~b.baseline.passed /\ b.patch = b.candidate.patch
  /\ <<b.baseline, b.patch>> \in Fixes

ReceiptSound == receipt # NoDoc => Earned(receipt.hash)

\* The hash of a reference is of a review that was held, in its time and about its candidate.
OfReview(b) ==
  /\ b.id \in 1 .. Len(shown)
  /\ shown[b.id].task = b.task /\ shown[b.id].candidate = b.content
  /\ b.expires = b.issued + Validity

AsReviewed(ref) == ref # NoDoc => OfReview(ref.hash) /\ shown[ref.hash.id].at = ref.hash.issued

AsConsented(ref) ==
  ref # NoDoc => OfReview(ref.hash) /\ ref.hash.issued \in shown[ref.hash.id].consents

\* The hash of a packet is of references as they were held; it is of a fix when the receipt
\* was genuine; and what was rehydrated fits together.
ClosedSound ==
  closed # NoDoc =>
    /\ AsReviewed(closed.hash.review) /\ AsConsented(closed.hash.consent)
    /\ closed.genuine =>
         /\ <<closed.hash.claim.baseline, closed.hash.claim.patch>> \in Fixes
         /\ closed.hash.claim.candidate.patch = closed.hash.claim.patch
    /\ closed.replayed =>
         /\ closed.body = closed.hash /\ ReferencesFit(closed.hash)
         /\ \A ref \in {closed.hash.review, closed.hash.consent} \ {NoDoc} : Intact(ref)

CloseInv ==
  CloseTypeOK /\ ReceiptSound /\ AsReviewed(review) /\ AsConsented(consent) /\ ClosedSound

-----------------------------------------------------------------------------
(***************************************************************************)
(* The acceptance gates: whatever documents are submitted, those that fit   *)
(* together are of one baseline, one patch, and a test run that passed.     *)
(***************************************************************************)
LEMMA GatesBind ==
  ASSUME NEW s \in Submission, Acceptable(s)
  PROVE  AcceptanceBody(s) \in Accepted /\ Earned(AcceptanceBody(s))
<1>1. s.baseline.hash \in Observation /\ s.candidate.hash \in CandidateBody
  BY SubmissionAssumption DEF SubmissionAssumption
<1>2. PICK c \in PassedCandidate : s.validated.hash = Validation(c)
  BY SubmissionAssumption DEF SubmissionAssumption
<1>3. s.validated.body.candidate = s.candidate.hash /\ s.validated.body = Validation(c)
  BY <1>2 DEF Acceptable, ValidationFits, Intact
<1>4. c = s.candidate.hash BY <1>3 DEF Validation
<1>5. s.candidate.hash.baseline = s.baseline.hash BY DEF Acceptable, CandidateFits, Intact
<1>6. <<s.baseline.hash, s.candidate.hash.patch>> \in Fixes
  BY <1>4, <1>5 DEF PassedCandidate
<1>7. ~s.baseline.hash.passed BY DEF Acceptable, Intact
<1>8. s.candidate.hash.patch \in Patch BY <1>1 DEF CandidateBody
<1> QED BY <1>1, <1>6, <1>7, <1>8 DEF AcceptanceBody, Accepted, Earned

\* Nothing is claimed of a packet that is not there.
LEMMA NonePacked == closed' = NoDoc => ClosedSound' /\ closed' \in {NoDoc} \cup Made
BY DEF ClosedSound

\* Holding one more review leaves what was shown before where it was.
LEMMA ShownStays ==
  ASSUME CloseTypeOK, NEW b \in Reference, NEW x \in Shown, shown' = Append(shown, x), OfReview(b)
  PROVE  OfReview(b)' /\ shown'[b.id] = shown[b.id]
<1>1. b.id \in 1 .. Len(shown) BY DEF OfReview
<1>2. b.id \in 1 .. Len(shown') /\ shown'[b.id] = shown[b.id] BY <1>1 DEF CloseTypeOK
<1> QED BY <1>2 DEF OfReview

\* A consent is added to one review, and takes nothing from any.
LEMMA ConsentsGrow ==
  ASSUME CloseTypeOK, NEW i \in 1 .. Len(shown), NEW t \in Nat,
         shown' = [shown EXCEPT ![i].consents = @ \cup {t}]
  PROVE  /\ shown' \in Seq(Shown) /\ Len(shown') = Len(shown)
         /\ \A n \in 1 .. Len(shown) :
              /\ shown'[n].task = shown[n].task /\ shown'[n].candidate = shown[n].candidate
              /\ shown'[n].at = shown[n].at /\ shown[n].consents \subseteq shown'[n].consents
         /\ t \in shown'[i].consents
<1>1. shown \in Seq(Shown) /\ DOMAIN shown = 1 .. Len(shown) BY DEF CloseTypeOK
<1>2. ASSUME NEW n \in 1 .. Len(shown)
      PROVE  shown'[n] = IF n = i THEN [shown[n] EXCEPT !.consents = @ \cup {t}] ELSE shown[n]
  BY <1>1, <1>2
<1>3. ASSUME NEW n \in 1 .. Len(shown)
      PROVE  /\ shown'[n] \in Shown
             /\ shown'[n].task = shown[n].task /\ shown'[n].candidate = shown[n].candidate
             /\ shown'[n].at = shown[n].at /\ shown[n].consents \subseteq shown'[n].consents
             /\ n = i => t \in shown'[n].consents
  <2>1. shown[n] \in Shown BY <1>1
  <2> QED BY <1>2, <2>1 DEF Shown
<1>4. shown' \in Seq(Shown) /\ Len(shown') = Len(shown)
  <2> DEFINE grown == [shown[i] EXCEPT !.consents = @ \cup {t}]
  <2>1. shown[i] \in Shown BY <1>1
  <2>2. grown \in Shown BY <2>1 DEF Shown
  <2>3. shown' = [shown EXCEPT ![i] = grown] OBVIOUS
  <2> HIDE DEF grown
  <2>4. [shown EXCEPT ![i] = grown] \in Seq(Shown)
        /\ Len([shown EXCEPT ![i] = grown]) = Len(shown)
    BY <1>1, <2>2, ExceptSeq
  <2> QED BY <2>3, <2>4
<1> QED BY <1>3, <1>4

-----------------------------------------------------------------------------
LEMMA CloseInitial == CloseInit => CloseInv
BY DEF CloseInit, CloseInv, CloseTypeOK, Held, ReceiptSound, AsReviewed, AsConsented, ClosedSound

LEMMA AcceptKeeps ==
  ASSUME CloseInv, NEW s \in Submission, Accept(s) PROVE CloseInv'
<1>1. AcceptanceBody(s) \in Accepted /\ Earned(AcceptanceBody(s)) BY GatesBind DEF Accept
<1>2. receipt' = Doc(AcceptanceBody(s)) BY DEF Accept
<1>3. CloseTypeOK' BY <1>1, <1>2, NonePacked DEF CloseInv, CloseTypeOK, Accept, Held, Doc
<1>4. ReceiptSound' BY <1>1, <1>2 DEF ReceiptSound, Doc
<1>5. AsReviewed(review)' /\ AsConsented(consent)'
  BY DEF CloseInv, AsReviewed, AsConsented, OfReview, Accept
<1> QED BY <1>3, <1>4, <1>5, NonePacked DEF CloseInv, Accept

LEMMA RunPipelineKeeps == CloseInv /\ RunPipeline => CloseInv'
<1> SUFFICES ASSUME CloseInv, RunPipeline PROVE CloseInv'
  OBVIOUS
<1>1. receipt.hash \in Accepted BY DEF CloseInv, CloseTypeOK, Held, RunPipeline, Intact
<1>2. CloseTypeOK' BY <1>1, NonePacked DEF CloseInv, CloseTypeOK, Held, RunPipeline, Doc, Piped
<1>3. ReceiptSound' BY DEF CloseInv, ReceiptSound, RunPipeline
<1>4. AsReviewed(review)' /\ AsConsented(consent)'
  BY DEF CloseInv, AsReviewed, AsConsented, OfReview, RunPipeline
<1> QED BY <1>2, <1>3, <1>4, NonePacked DEF CloseInv, RunPipeline

LEMMA ReviewKeeps ==
  ASSUME CloseInv, NEW task \in Task, NEW packet \in {receipt, pipeline} \ {NoDoc},
         Review(task, packet)
  PROVE  CloseInv'
<1> DEFINE ref == [task |-> task, id |-> Len(shown) + 1, content |-> receipt.body.candidate,
                   packet |-> packet.hash, issued |-> now, expires |-> now + Validity]
           seen == [task |-> task, candidate |-> receipt.body.candidate, at |-> now,
                    consents |-> {}]
<1>1. receipt.body.candidate \in CandidateBody
  BY DEF CloseInv, CloseTypeOK, Held, Accepted, Review
<1>2. packet.hash \in Accepted \cup Piped BY DEF CloseInv, CloseTypeOK, Held
<1>3. Len(shown) \in Nat /\ now \in Nat /\ now + Validity \in Nat
  BY CloseoutAssumption DEF CloseoutAssumption, CloseInv, CloseTypeOK
<1>4. ref \in Reference BY <1>1, <1>2, <1>3 DEF Reference
<1>5. seen \in Shown BY <1>1, <1>3 DEF Shown
<1>6. review' = Doc(ref) /\ shown' = Append(shown, seen) BY DEF Review
<1>7. shown' \in Seq(Shown) /\ Len(shown') = Len(shown) + 1 /\ shown'[Len(shown) + 1] = seen
  BY <1>5, <1>6 DEF CloseInv, CloseTypeOK
<1>8. CloseTypeOK'
  <2>1. review' \in Held(Reference) BY <1>4, <1>6 DEF Held, Doc
  <2> QED BY <1>7, <2>1, NonePacked DEF CloseInv, CloseTypeOK, Review
<1>9. ReceiptSound' BY DEF CloseInv, ReceiptSound, Review
<1>10. AsReviewed(review)'
  <2>1. review'.hash = ref BY <1>6 DEF Doc
  <2>2. Len(shown) + 1 \in 1 .. Len(shown') BY <1>3, <1>7
  <2> QED BY <1>7, <2>1, <2>2 DEF AsReviewed, OfReview
<1>11. AsConsented(consent)'
  <2>1. consent # NoDoc => consent.hash \in Reference BY DEF CloseInv, CloseTypeOK, Held
  <2>2. CloseTypeOK BY DEF CloseInv
  <2>3. consent # NoDoc =>
          OfReview(consent.hash)' /\ shown'[consent.hash.id] = shown[consent.hash.id]
    BY <1>5, <1>6, <2>1, <2>2, ShownStays DEF CloseInv, AsConsented, OfReview, Review
  <2> QED BY <2>3 DEF CloseInv, AsConsented, OfReview, Review
<1> QED BY <1>8, <1>9, <1>10, <1>11, NonePacked DEF CloseInv, Review

LEMMA ConsentKeeps == CloseInv /\ Consent => CloseInv'
<1> SUFFICES ASSUME CloseInv, Consent PROVE CloseInv'
  OBVIOUS
<1> DEFINE ref == [review.body EXCEPT !.issued = now, !.expires = now + Validity]
           i == review.body.id
<1>1. review # NoDoc /\ review.body = review.hash /\ review.body \in Reference
  BY DEF CloseInv, CloseTypeOK, Held, Consent, Intact
<1>2. now \in Nat /\ now + Validity \in Nat
  BY CloseoutAssumption DEF CloseoutAssumption, CloseInv, CloseTypeOK
<1>3. /\ ref \in Reference /\ ref.id = i /\ ref.task = review.hash.task
      /\ ref.content = review.hash.content
      /\ ref.issued = now /\ ref.expires = now + Validity
  BY <1>1, <1>2 DEF Reference
<1>4. consent' = Doc(ref) BY DEF Consent
<1>5. i \in 1 .. Len(shown) /\ OfReview(review.hash) /\ shown[i].at = review.hash.issued
  BY <1>1 DEF CloseInv, AsReviewed, OfReview
<1>6. shown' = [shown EXCEPT ![i].consents = @ \cup {now}] BY DEF Consent
<1> HIDE DEF ref, i
<1>7. /\ shown' \in Seq(Shown) /\ Len(shown') = Len(shown)
      /\ \A n \in 1 .. Len(shown) :
           /\ shown'[n].task = shown[n].task /\ shown'[n].candidate = shown[n].candidate
           /\ shown'[n].at = shown[n].at
      /\ now \in shown'[i].consents
  BY <1>2, <1>5, <1>6, ConsentsGrow DEF CloseInv
<1>8. CloseTypeOK'
  <2>1. consent' \in Held(Reference) BY <1>3, <1>4 DEF Held, Doc
  <2> QED BY <1>7, <2>1, NonePacked DEF CloseInv, CloseTypeOK, Consent
<1>9. ReceiptSound' BY DEF CloseInv, ReceiptSound, Consent
<1>10. AsReviewed(review)'
  <2>1. review' = review BY DEF Consent
  <2>2. review.hash.id = i BY <1>1 DEF i
  <2> QED BY <1>5, <1>7, <2>1, <2>2 DEF AsReviewed, OfReview
<1>11. AsConsented(consent)'
  <2>1. consent'.hash = ref BY <1>4 DEF Doc
  <2>2. review.hash.id = i BY <1>1 DEF i
  <2>3. shown[i].task = review.hash.task /\ shown[i].candidate = review.hash.content
    BY <1>5, <2>2 DEF OfReview
  <2> QED BY <1>3, <1>5, <1>7, <2>1, <2>3 DEF AsConsented, OfReview
<1> QED BY <1>8, <1>9, <1>10, <1>11, NonePacked DEF CloseInv, Consent

LEMMA TickKeeps == CloseInv /\ Tick => CloseInv'
BY NonePacked
   DEF CloseInv, CloseTypeOK, ReceiptSound, AsReviewed, AsConsented, OfReview, Tick, handed

-----------------------------------------------------------------------------
\* Editing changes the contents of a document, never its hash.
LEMMA EditsKeep ==
  ASSUME CloseInv, NEW claim \in Claim,
         EditReceipt(claim) \/ EditReview(claim) \/ EditConsent(claim)
  PROVE  CloseInv'
<1>1. /\ claim.baseline \in Observation /\ claim.candidate \in CandidateBody
      /\ claim.patch \in Patch
  BY CloseoutAssumption DEF CloseoutAssumption
<1>2. now \in Nat /\ now + Validity \in Nat
  BY CloseoutAssumption DEF CloseoutAssumption, CloseInv, CloseTypeOK
<1>3. shown' = shown /\ now' = now /\ closed' = NoDoc
  BY DEF EditReceipt, EditReview, EditConsent, Edited
<1>4. receipt' \in Held(Accepted) /\ ReceiptSound'
  <2>1. CASE EditReceipt(claim)
    <3>1. receipt # NoDoc /\ receipt.body \in Accepted /\ receipt.hash \in Accepted
          /\ receipt \in [body : Accepted, hash : Accepted]
      BY <2>1 DEF EditReceipt, CloseInv, CloseTypeOK, Held
    <3>2. receipt' \in [body : Accepted, hash : Accepted] /\ receipt'.hash = receipt.hash
      BY <1>1, <2>1, <3>1 DEF EditReceipt, Accepted
    <3> QED BY <3>1, <3>2 DEF Held, CloseInv, ReceiptSound
  <2>2. CASE receipt' = receipt BY <2>2 DEF CloseInv, CloseTypeOK, ReceiptSound
  <2> QED BY <2>1, <2>2 DEF EditReview, EditConsent
<1>5. pipeline' = pipeline BY DEF EditReceipt, EditReview, EditConsent
<1>6. ASSUME NEW ref \in [body : Reference, hash : Reference]
      PROVE  Forged(ref, claim) \in [body : Reference, hash : Reference]
             /\ Forged(ref, claim).hash = ref.hash
  BY <1>1, <1>2, <1>6 DEF Forged, Reference
<1>7. review' \in Held(Reference) /\ AsReviewed(review)'
  <2>1. CASE EditReview(claim)
    <3>1. review # NoDoc /\ review \in [body : Reference, hash : Reference]
      BY <2>1 DEF EditReview, CloseInv, CloseTypeOK, Held
    <3>2. review' = Forged(review, claim) BY <2>1 DEF EditReview
    <3>3. review' \in Held(Reference) /\ review'.hash = review.hash
      BY <1>6, <3>1, <3>2 DEF Held
    <3> QED BY <1>3, <3>1, <3>3 DEF CloseInv, AsReviewed, OfReview
  <2>2. CASE review' = review BY <1>3, <2>2 DEF CloseInv, CloseTypeOK, AsReviewed, OfReview
  <2> QED BY <2>1, <2>2 DEF EditReceipt, EditConsent
<1>8. consent' \in Held(Reference) /\ AsConsented(consent)'
  <2>1. CASE EditConsent(claim)
    <3>1. consent # NoDoc /\ consent \in [body : Reference, hash : Reference]
      BY <2>1 DEF EditConsent, CloseInv, CloseTypeOK, Held
    <3>2. consent' = Forged(consent, claim) BY <2>1 DEF EditConsent
    <3>3. consent' \in Held(Reference) /\ consent'.hash = consent.hash
      BY <1>6, <3>1, <3>2 DEF Held
    <3> QED BY <1>3, <3>1, <3>3 DEF CloseInv, AsConsented, OfReview
  <2>2. CASE consent' = consent BY <1>3, <2>2 DEF CloseInv, CloseTypeOK, AsConsented, OfReview
  <2> QED BY <2>1, <2>2 DEF EditReceipt, EditReview
<1>9. CloseTypeOK' BY <1>3, <1>4, <1>5, <1>7, <1>8, NonePacked DEF CloseInv, CloseTypeOK
<1> QED BY <1>3, <1>4, <1>7, <1>8, <1>9, NonePacked DEF CloseInv

LEMMA PipelineEditKeeps == CloseInv /\ EditPipeline => CloseInv'
<1> SUFFICES ASSUME CloseInv, EditPipeline PROVE CloseInv'
  OBVIOUS
<1>1. receipt.hash \in Accepted /\ pipeline \in [body : Piped, hash : Piped]
  BY DEF EditPipeline, CloseInv, CloseTypeOK, Held
<1>2. pipeline' \in Held(Piped) BY <1>1 DEF EditPipeline, Piped, Held
<1>3. CloseTypeOK' BY <1>2, NonePacked DEF CloseInv, CloseTypeOK, EditPipeline, Edited
<1>4. ReceiptSound' /\ AsReviewed(review)' /\ AsConsented(consent)'
  BY DEF CloseInv, ReceiptSound, AsReviewed, AsConsented, OfReview, EditPipeline, Edited
<1> QED BY <1>3, <1>4, NonePacked DEF CloseInv, EditPipeline

\* What is not the packet's stays, and so does what is known of it.
LEMMA HandedStay ==
  ASSUME CloseInv, UNCHANGED <<handed, shown, now>>
  PROVE  /\ (CloseTypeOK /\ closed' \in {NoDoc} \cup Made => CloseTypeOK')
         /\ ReceiptSound' /\ AsReviewed(review)' /\ AsConsented(consent)'
BY DEF CloseInv, CloseTypeOK, ReceiptSound, AsReviewed, AsConsented, OfReview, handed

LEMMA CloseKeeps ==
  ASSUME CloseInv, NEW p \in Packet, NEW given \in SUBSET {"acceptance", "pipeline"},
         NEW r \in {NoDoc, review}, NEW c \in {NoDoc, consent}, Close(p, given, r, c)
  PROVE  CloseInv'
<1> DEFINE k == PacketOf(p, r, c)
<1>1. UNCHANGED <<handed, shown, now>> BY DEF Close
<1>2. k \in PacketBody
  <2>1. receipt.hash \in Accepted /\ pipeline.hash \in Piped
    BY DEF Close, CloseInv, CloseTypeOK, Held
  <2>2. r \in Held(Reference) /\ c \in Held(Reference) BY DEF CloseInv, CloseTypeOK, Held
  <2> QED BY <2>1, <2>2 DEF PacketOf, PacketBody, Packet
<1>3. /\ closed' = [body |-> k, hash |-> k, replayed |-> FALSE,
                    genuine |-> "acceptance" \in given /\ Intact(receipt)]
      /\ ReceiptsFit(p.claim, given) /\ receipt # NoDoc
  BY DEF Close
<1>4. closed' \in Made BY <1>2, <1>3 DEF Made
<1>5. AsReviewed(r)' /\ AsConsented(c)'
  BY <1>1 DEF CloseInv, AsReviewed, AsConsented, OfReview
<1>6. k.review = r /\ k.consent = c /\ k.claim = p.claim BY DEF PacketOf
<1>7. ASSUME "acceptance" \in given, Intact(receipt)
      PROVE  /\ <<p.claim.baseline, p.claim.patch>> \in Fixes
             /\ p.claim.candidate.patch = p.claim.patch
  BY <1>3, <1>7 DEF CloseInv, ReceiptSound, Earned, ReceiptsFit, Intact
<1> HIDE DEF k
<1>8. ClosedSound' BY <1>3, <1>5, <1>6, <1>7 DEF ClosedSound, AsReviewed, AsConsented, OfReview
<1> QED BY <1>1, <1>4, <1>8, HandedStay DEF CloseInv

LEMMA RehydrateKeeps == CloseInv /\ Rehydrate => CloseInv'
<1> SUFFICES ASSUME CloseInv, Rehydrate PROVE CloseInv'
  OBVIOUS
<1>1. UNCHANGED <<handed, shown, now>> BY DEF Rehydrate
<1>2. closed # NoDoc /\ closed \in Made /\ closed.body = closed.hash
  BY DEF Rehydrate, Intact, CloseInv, CloseTypeOK
<1>3. closed' \in Made /\ closed'.body = closed.body /\ closed'.hash = closed.hash
      /\ closed'.genuine = closed.genuine
  BY <1>2 DEF Rehydrate, Made
<1>4. ClosedSound'
  <2> DEFINE k == closed.hash
  <2>1. AsReviewed(k.review) /\ AsConsented(k.consent) BY <1>2 DEF CloseInv, ClosedSound
  <2>2. closed.genuine =>
          <<k.claim.baseline, k.claim.patch>> \in Fixes /\ k.claim.candidate.patch = k.claim.patch
    BY <1>2 DEF CloseInv, ClosedSound
  <2>3. ReferencesFit(k) /\ \A ref \in {k.review, k.consent} \ {NoDoc} : Intact(ref)
    BY <1>2 DEF Rehydrate
  <2>4. closed'.hash = k /\ closed'.body = k BY <1>2, <1>3
  <2> HIDE DEF k
  <2>5. ReferencesFit(closed'.hash)
        /\ \A ref \in {closed'.hash.review, closed'.hash.consent} \ {NoDoc} : Intact(ref)
    BY <2>3, <2>4
  <2>6. AsReviewed(closed.hash.review)' /\ AsConsented(closed.hash.consent)'
    BY <1>1, <2>1, <2>4 DEF AsReviewed, AsConsented, OfReview
  <2>7. (ReferencesFit(closed.hash))'
        /\ (\A ref \in {closed.hash.review, closed.hash.consent} \ {NoDoc} : Intact(ref))'
    BY <2>5 DEF ReferencesFit, ReferenceFits, Together, Intact
  <2> QED BY <1>3, <2>2, <2>4, <2>6, <2>7 DEF ClosedSound
<1> QED BY <1>1, <1>3, <1>4, HandedStay DEF CloseInv

LEMMA EditPacketKeeps ==
  ASSUME CloseInv, NEW claim \in Claim, EditPacket(claim) PROVE CloseInv'
<1>1. UNCHANGED <<handed, shown, now>> BY DEF EditPacket, Edited
<1>2. closed # NoDoc /\ closed \in Made BY DEF EditPacket, CloseInv, CloseTypeOK
<1>3. /\ closed' \in Made /\ closed'.hash = closed.hash
      /\ closed'.genuine = closed.genuine /\ ~closed'.replayed
  BY <1>2 DEF EditPacket, Made, PacketBody
<1>4. ClosedSound'
  BY <1>1, <1>2, <1>3 DEF CloseInv, ClosedSound, AsReviewed, AsConsented, OfReview
<1> QED BY <1>1, <1>3, <1>4, HandedStay DEF CloseInv

-----------------------------------------------------------------------------
LEMMA CloseStep == CloseInv /\ [CloseNext]_closeVars => CloseInv'
<1> SUFFICES ASSUME CloseInv, [CloseNext]_closeVars PROVE CloseInv'
  OBVIOUS
<1>1. CASE UNCHANGED closeVars
  <2>1. UNCHANGED <<handed, shown, now>> /\ closed' = closed BY <1>1 DEF closeVars
  <2>2. ClosedSound'
    BY <2>1 DEF CloseInv, ClosedSound, AsReviewed, AsConsented, OfReview, ReferencesFit,
                ReferenceFits, Together, Intact
  <2> QED BY <2>1, <2>2, HandedStay DEF CloseInv, CloseTypeOK
<1>2. CASE HandNext
  <2>1. CASE \E s \in Submission : Accept(s) BY <2>1, AcceptKeeps
  <2>2. CASE \E task \in Task, packet \in {receipt, pipeline} \ {NoDoc} : Review(task, packet)
    BY <2>2, ReviewKeeps
  <2>3. CASE \E claim \in Claim : EditReceipt(claim) \/ EditReview(claim) \/ EditConsent(claim)
    BY <2>3, EditsKeep
  <2>4. CASE \E p \in Packet, given \in SUBSET {"acceptance", "pipeline"},
               r \in {NoDoc, review}, c \in {NoDoc, consent} : Close(p, given, r, c)
    BY <2>4, CloseKeeps
  <2>5. CASE EditPipeline BY <2>5, PipelineEditKeeps
  <2>6. CASE RunPipeline BY <2>6, RunPipelineKeeps
  <2>7. CASE Consent BY <2>7, ConsentKeeps
  <2>8. CASE Tick BY <2>8, TickKeeps
  <2> QED BY <1>2, <2>1, <2>2, <2>3, <2>4, <2>5, <2>6, <2>7, <2>8 DEF HandNext
<1>3. CASE PacketNext BY <1>3, RehydrateKeeps, EditPacketKeeps DEF PacketNext
<1> QED BY <1>1, <1>2, <1>3 DEF CloseNext

(***************************************************************************)
(* The inductive invariant: the hash of an acceptance receipt is of a       *)
(* candidate whose tests passed on its baseline, the hash of a reference is *)
(* of what was shown or consented to in a review, and the hash of a packet  *)
(* is of such references, whatever the contents in hand have become.        *)
(***************************************************************************)
THEOREM CloseInvariant == CloseSpec => []CloseInv
<1> QED BY CloseInitial, CloseStep, PTL DEF CloseSpec

(***************************************************************************)
(* accept_candidate (acceptance.py:717) issues a receipt only for a patch   *)
(* whose tests passed on the baseline that failed, whatever is submitted.   *)
(***************************************************************************)
THEOREM EveryReceiptIsEarned == CloseSpec => []ReceiptIsEarned
<1>1. CloseInv => ReceiptIsEarned
  BY DEF CloseInv, ReceiptSound, Earned, ReceiptIsEarned
<1> QED BY <1>1, CloseInvariant, PTL

\* References that have their own hash and fit the packet were held about its candidate.
LEMMA RehydratedAsReviewed == CloseInv => ClosedAsReviewed
<1> SUFFICES ASSUME CloseInv, closed # NoDoc, closed.replayed PROVE ClosedAsReviewed
  BY DEF ClosedAsReviewed
<1> DEFINE k == closed.body
           held(t) == t <= k.at /\ k.at < t + Validity
<1>1. /\ k = closed.hash /\ ReferencesFit(k)
      /\ \A ref \in {k.review, k.consent} \ {NoDoc} : Intact(ref)
      /\ AsReviewed(k.review) /\ AsConsented(k.consent)
      /\ closed.genuine =>
           /\ <<k.claim.baseline, k.claim.patch>> \in Fixes
           /\ k.claim.candidate.patch = k.claim.patch
  BY DEF CloseInv, ClosedSound
<1> HIDE DEF k
<1>2. ASSUME NEW ref \in {k.review, k.consent} \ {NoDoc}
      PROVE  /\ k.id \in DOMAIN shown /\ ref.hash.id = k.id
             /\ shown[k.id].candidate = k.claim.candidate /\ shown[k.id].task = k.task
             /\ held(ref.hash.issued)
  <2>1. ref.hash = ref.body BY <1>1, <1>2 DEF Intact
  <2>2. ReferenceFits(ref, k) BY <1>1, <1>2 DEF ReferencesFit
  <2>3. OfReview(ref.hash) BY <1>1, <1>2 DEF AsReviewed, AsConsented
  <2>4. DOMAIN shown = 1 .. Len(shown) BY DEF CloseInv, CloseTypeOK
  <2> QED BY <2>1, <2>2, <2>3, <2>4 DEF ReferenceFits, OfReview
<1>3. k.review # NoDoc => held(shown[k.id].at) BY <1>1, <1>2 DEF AsReviewed
<1>4. k.consent # NoDoc => \E t \in shown[k.id].consents : held(t)
  BY <1>1, <1>2 DEF AsConsented
<1>5. {k.review, k.consent} # {NoDoc} =>
        /\ k.id \in DOMAIN shown
        /\ shown[k.id].candidate = k.claim.candidate /\ shown[k.id].task = k.task
  BY <1>2
<1> QED BY <1>1, <1>3, <1>4, <1>5 DEF ClosedAsReviewed, k

(***************************************************************************)
(* A closeout packet that rehydrate_closeout_packet (closeout.py:661) hands *)
(* back with its references is about the candidate that the people of one   *)
(* review were shown, at a time when what they said held; and about a       *)
(* tested fix when it was made from a genuine acceptance receipt.           *)
(***************************************************************************)
THEOREM EveryPacketIsAsReviewed == CloseSpec => []ClosedAsReviewed
<1> QED BY RehydratedAsReviewed, CloseInvariant, PTL

-----------------------------------------------------------------------------
(***************************************************************************)
(* The report chain.                                                        *)
(***************************************************************************)
\* A chain that append_report returned is valid, and the leader is its fourth report.
ChainSound == chain \in Seq(Report) /\ ValidChain(chain) /\ Len(chain) <= 4

-----------------------------------------------------------------------------
\* The turn of every position, unfolded.
LEMMA Turns ==
  /\ Turn(1) = <<"reviewer_a", 1>> /\ Turn(2) = <<"reviewer_b", 1>>
  /\ Turn(3) = <<"reviewer_a", 2>>
  /\ \A n \in Nat : n > 3 => Turn(n) = <<Leader, 3>>
<1>1. Len(ReviewSequence) = 3 BY DEF ReviewSequence
<1>2. /\ ReviewSequence[1] = <<"reviewer_a", 1>> /\ ReviewSequence[2] = <<"reviewer_b", 1>>
      /\ ReviewSequence[3] = <<"reviewer_a", 2>>
  BY DEF ReviewSequence
<1> QED BY <1>1, <1>2 DEF Turn

\* A valid chain has the leader in the fourth place only, and ends with it.
LEMMA LeaderLast ==
  ASSUME NEW reports \in Seq(Report), ValidChain(reports), NEW i \in DOMAIN reports
  PROVE  /\ reports[i].role = Leader => i = Len(reports) /\ i > 3
         /\ i > 3 => reports[i].role = Leader
<1>1. i \in Nat /\ i >= 1 OBVIOUS
<1>2. /\ reports[i].role = Leader => i = Len(reports)
      /\ <<reports[i].role, reports[i].round>> = Turn(i)
  BY DEF ValidChain, InPlace
<1>3. CASE i <= 3
  <2>1. i = 1 \/ i = 2 \/ i = 3 BY <1>1, <1>3
  <2>2. reports[i].role \in {"reviewer_a", "reviewer_b"} BY <1>2, <2>1, Turns
  <2> QED BY <1>3, <2>2 DEF Leader
<1>4. CASE i > 3
  <2>1. reports[i].role = Leader BY <1>1, <1>2, <1>4, Turns
  <2> QED BY <1>2, <1>4, <2>1
<1> QED BY <1>1, <1>3, <1>4

\* A report after the first refers to one before it.
LEMMA RefersToEarlier ==
  ASSUME ChainSound, NEW i \in DOMAIN chain, i > 1
  PROVE  \E j \in Direct(i) : j < i
<1>1. chain[i].refs \subseteq IdsBefore(chain, i) /\ chain[i].refs # {}
  BY DEF ChainSound, ValidChain, RefersBack
<1>2. PICK j \in 1 .. i - 1 : chain[j].id \in chain[i].refs BY <1>1 DEF IdsBefore
<1>3. i \in Nat /\ i <= Len(chain) BY DEF ChainSound
<1>4. j \in DOMAIN chain /\ j < i BY <1>2, <1>3 DEF ChainSound
<1> QED BY <1>2, <1>4 DEF Direct

-----------------------------------------------------------------------------
LEMMA InitSound == ChainInit => ChainSound
BY DEF ChainInit, ChainSound, ValidChain

\* Nothing valid comes after the leader.
LEMMA NoneAfterLeader ==
  ASSUME NEW reports \in Seq(Report), Len(reports) <= 4, NEW report \in Report,
         ValidChain(Append(reports, report))
  PROVE  Append(reports, report) \in Seq(Report) /\ Len(Append(reports, report)) <= 4
<1> DEFINE longer == Append(reports, report)
<1>1. Len(reports) \in Nat OBVIOUS
<1>2. longer \in Seq(Report) /\ Len(longer) = Len(reports) + 1 OBVIOUS
<1>3. Len(reports) # 4
  <2> SUFFICES ASSUME Len(reports) = 4 PROVE FALSE
    OBVIOUS
  <2>1. Len(longer) = 5 BY <1>2
  <2>2. 4 \in DOMAIN longer BY <1>2, <2>1
  <2> HIDE DEF longer
  <2>3. longer[4].role = Leader => 4 = Len(longer) BY <1>2, <2>2, LeaderLast DEF longer
  <2>4. 4 > 3 => longer[4].role = Leader BY <1>2, <2>2, LeaderLast DEF longer
  <2> QED BY <2>1, <2>3, <2>4
<1>4. \A n \in Nat : n <= 4 /\ n # 4 => n + 1 <= 4 OBVIOUS
<1>5. Len(longer) <= 4 BY <1>1, <1>2, <1>3, <1>4
<1> QED BY <1>2, <1>5

\* append_report validates what it returns.
LEMMA StepSound == ChainSound /\ [ChainNext]_chain => ChainSound'
<1> SUFFICES ASSUME ChainSound, [ChainNext]_chain PROVE ChainSound'
  OBVIOUS
<1>1. CASE UNCHANGED chain BY <1>1 DEF ChainSound
<1>2. ASSUME NEW report \in Report, AppendReport(report) PROVE ChainSound'
  <2>1. chain' = Append(chain, report) /\ ValidChain(Append(chain, report))
    BY <1>2 DEF AppendReport
  <2>2. Append(chain, report) \in Seq(Report) /\ Len(Append(chain, report)) <= 4
    BY <2>1, NoneAfterLeader DEF ChainSound
  <2> QED BY <2>1, <2>2 DEF ChainSound
<1> QED BY <1>1, <1>2 DEF ChainNext

(***************************************************************************)
(* The chain that append_report (report_chain.py:284) grows is valid and is *)
(* over with the fourth report, whatever is appended.                       *)
(***************************************************************************)
THEOREM ChainStaysSound == ChainSpec => []ChainSound
<1> QED BY InitSound, StepSound, PTL DEF ChainSpec

-----------------------------------------------------------------------------
\* A set of positions that is closed under reference reaches down to the first.
LEMMA ReachesFirst ==
  ASSUME ChainSound, NEW S \in SUBSET DOMAIN chain, S # {},
         \A i \in S : Direct(i) \subseteq S
  PROVE  1 \in S
<1>1. ASSUME NEW i \in S, i > 1 PROVE \E j \in S : j < i
  <2>1. PICK j \in Direct(i) : j < i BY <1>1, RefersToEarlier
  <2> QED BY <2>1
<1>2. \A i \in S : i \in 1 .. 4 BY DEF ChainSound
<1>3. ~(2 \in S) \/ 1 \in S BY <1>1, <1>2
<1>4. ~(3 \in S) \/ 1 \in S
  <2>1. CASE 3 \in S
    <3>1. PICK j \in S : j < 3 BY <1>1, <2>1
    <3>2. j = 1 \/ j = 2 BY <1>2, <3>1
    <3> QED BY <1>3, <3>1, <3>2
  <2> QED BY <2>1
<1>5. ~(4 \in S) \/ 1 \in S
  <2>1. CASE 4 \in S
    <3>1. PICK j \in S : j < 4 BY <1>1, <2>1
    <3>2. j = 1 \/ j = 2 \/ j = 3 BY <1>2, <3>1
    <3> QED BY <1>3, <1>4, <3>1, <3>2
  <2> QED BY <2>1
<1>6. PICK i \in S : TRUE OBVIOUS
<1> QED BY <1>2, <1>3, <1>4, <1>5, <1>6

(***************************************************************************)
(* Every report rests on the first one, through the references of           *)
(* report_chain.py:251-260, and the leader's synthesis is the fourth and    *)
(* last report.                                                             *)
(***************************************************************************)
THEOREM EveryReportRestsOnFirst == ChainSpec => []RestsOnFirst
<1>1. ASSUME ChainSound PROVE RestsOnFirst
  <2>1. ASSUME NEW i \in DOMAIN chain, chain[i].role = Leader PROVE i = 4 /\ Len(chain) = 4
    <3>1. i = Len(chain) /\ i > 3 BY <1>1, <2>1, LeaderLast DEF ChainSound
    <3> QED BY <1>1, <3>1 DEF ChainSound
  <2>2. ASSUME NEW S \in SUBSET DOMAIN chain, S # {}, \A i \in S : Direct(i) \subseteq S
        PROVE  1 \in S
    BY <1>1, <2>2, ReachesFirst
  <2> QED BY <2>1, <2>2 DEF RestsOnFirst
<1> QED BY <1>1, ChainStaysSound, PTL

-----------------------------------------------------------------------------
\* A set with 0 and the successor of each of its numbers has all numbers.
LEMMA AllNaturals ==
  ASSUME NEW N \in SUBSET Nat, 0 \in N, \A n \in N : n + 1 \in N
  PROVE  N = Nat
<1>1. SUFFICES ASSUME Nat \ N # {} PROVE FALSE
  OBVIOUS
<1>2. PICK m \in Nat \ N : \A k \in Nat \ N : ~(<<k, m>> \in OpToRel(<, Nat))
  BY <1>1, NatLessThanWellFounded, WFMin
<1>3. m # 0 /\ m - 1 \in Nat /\ <<m - 1, m>> \in OpToRel(<, Nat)
  BY <1>2 DEF OpToRel
<1>4. m - 1 \in N
  BY <1>2, <1>3
<1>5. m \in Nat /\ m \notin N
  BY <1>2
<1>6. \A k \in Nat : k = m - 1 => k + 1 = m
  BY <1>5
<1>7. QED
  BY <1>3, <1>4, <1>5, <1>6

\* A set of subsets of a finite set with the empty one and, of each, those
\* with one element more, has all of them.
LEMMA AllSubsets ==
  ASSUME NEW S, IsFiniteSet(S), NEW C, {} \in C,
         \A T \in SUBSET S : \A x \in S \ T : T \in C => T \cup {x} \in C
  PROVE  SUBSET S \subseteq C
<1> DEFINE N == {n \in Nat : \A T \in SUBSET S : Cardinality(T) = n => T \in C}
<1>1. \A T \in SUBSET S : IsFiniteSet(T) /\ Cardinality(T) \in Nat
  BY FS_Subset, FS_CardinalityType
<1>2. 0 \in N
  BY <1>1, FS_EmptySet
<1>3. ASSUME NEW n \in N PROVE n + 1 \in N
  <2> SUFFICES ASSUME NEW T \in SUBSET S, Cardinality(T) = n + 1 PROVE T \in C
    OBVIOUS
  <2>1. PICK x : x \in T
    BY <1>1, FS_EmptySet
  <2>2. Cardinality(T \ {x}) = n
    BY <1>1, <2>1, FS_RemoveElement
  <2>3. T \ {x} \in C /\ x \in S \ (T \ {x}) /\ (T \ {x}) \cup {x} = T
    BY <2>1, <2>2
  <2>4. QED
    BY <2>3
<1> HIDE DEF N
<1>4. N = Nat
  <2>1. N \in SUBSET Nat
    BY DEF N
  <2>2. QED
    BY <1>2, <1>3, <2>1, AllNaturals
<1>5. QED
  BY <1>1, <1>4 DEF N

-----------------------------------------------------------------------------
(***************************************************************************)
(* Sums over the subsets of a finite set.  The folds take out some element  *)
(* of a set first (CHOOSE); that it does not matter which is FoldSums.      *)
(***************************************************************************)
Pick(s) == CHOOSE x \in s : TRUE

\* f is the function that folds + over the subsets of S with weights w.
FoldOf(f, w, S) ==
  f = [s \in SUBSET S |-> IF s = {} THEN 0 ELSE w[Pick(s)] + f[s \ {Pick(s)}]]

Sums(f, w, S) ==
  /\ f \in [SUBSET S -> Int] /\ f[{}] = 0
  /\ \A T \in SUBSET S : \A x \in T : f[T] = w[x] + f[T \ {x}]

LEMMA Picked ==
  ASSUME NEW S, NEW T \in SUBSET S, T # {}
  PROVE  Pick(T) \in T /\ Pick(T) \in S
BY DEF Pick

LEMMA FoldExists ==
  ASSUME NEW S, IsFiniteSet(S), NEW w
  PROVE  \E f : FoldOf(f, w, S)
<1> DEFINE After(f) == [s \in SUBSET S |-> IF s = {} THEN 0 ELSE w[Pick(s)] + f[s \ {Pick(s)}]]
           Right(n, f) == /\ f = [s \in SUBSET S |-> f[s]]
                          /\ \A T \in SUBSET S : Cardinality(T) <= n => f[T] = After(f)[T]
           N == {n \in Nat : \E f : Right(n, f)}
<1>1. \A T \in SUBSET S : IsFiniteSet(T) /\ Cardinality(T) \in Nat
  BY FS_Subset, FS_CardinalityType
<1>2. 0 \in N
  <2> DEFINE zero == [s \in SUBSET S |-> 0]
  <2>1. \A T \in SUBSET S : Cardinality(T) <= 0 => T = {}
    BY <1>1, FS_EmptySet
  <2>2. Right(0, zero)
    BY <2>1
  <2>3. QED
    BY <2>2
<1>3. ASSUME NEW n \in N PROVE n + 1 \in N
  <2>1. n \in Nat /\ \E f : Right(n, f)
    OBVIOUS
  <2> PICK f : Right(n, f)
    BY <2>1
  <2> DEFINE g == After(f)
  <2>2. \A T \in SUBSET S : Cardinality(T) <= n => g[T] = f[T]
    OBVIOUS
  <2>3. ASSUME NEW T \in SUBSET S, Cardinality(T) <= n + 1 PROVE g[T] = After(g)[T]
    <3>1. CASE T = {}
      BY <3>1
    <3>2. CASE T # {}
      <4>1. Cardinality(T \ {Pick(T)}) <= n /\ T \ {Pick(T)} \in SUBSET S
        <5>1. Pick(T) \in T /\ IsFiniteSet(T) /\ Cardinality(T) \in Nat
          BY <1>1, <3>2, Picked
        <5>2. Cardinality(T \ {Pick(T)}) = Cardinality(T) - 1
          BY <5>1, FS_RemoveElement
        <5>3. QED
          BY <2>1, <2>3, <5>1, <5>2
      <4>2. g[T \ {Pick(T)}] = f[T \ {Pick(T)}]
        BY <2>2, <4>1
      <4>3. QED
        BY <3>2, <4>2
    <3>3. QED
      BY <3>1, <3>2
  <2>4. Right(n + 1, g)
    BY <2>3, Zenon
  <2>5. \E h : Right(n + 1, h)
    BY <2>4, Zenon
  <2>6. n + 1 \in Nat
    BY <2>1
  <2>7. QED
    BY <2>5, <2>6, Zenon
<1> HIDE DEF N
<1>4. N = Nat
  <2>1. N \in SUBSET Nat
    BY DEF N
  <2>2. QED
    BY <1>2, <1>3, <2>1, AllNaturals
<1>5. Cardinality(S) \in Nat /\ \A T \in SUBSET S : Cardinality(T) <= Cardinality(S)
  BY FS_Subset, FS_CardinalityType
<1>6. PICK f : Right(Cardinality(S), f)
  BY <1>4, <1>5 DEF N
<1>7. \A T \in SUBSET S : f[T] = After(f)[T]
  BY <1>5, <1>6
<1>8. f = After(f)
  BY <1>6, <1>7
<1>9. QED
  BY <1>8 DEF FoldOf

\* Whichever element is taken out first.
LEMMA FoldSums ==
  ASSUME NEW S, IsFiniteSet(S), NEW w \in [S -> Int], NEW f, FoldOf(f, w, S)
  PROVE  Sums(f, w, S)
<1>0. /\ f[{}] = 0
      /\ \A T \in SUBSET S : T # {} => f[T] = w[Pick(T)] + f[T \ {Pick(T)}]
  <2> DEFINE g == [s \in SUBSET S |-> IF s = {} THEN 0 ELSE w[Pick(s)] + f[s \ {Pick(s)}]]
  <2>1. g[{}] = 0 /\ \A T \in SUBSET S : T # {} => g[T] = w[Pick(T)] + f[T \ {Pick(T)}]
    OBVIOUS
  <2>2. f = g
    BY DEF FoldOf
  <2> HIDE DEF g
  <2>3. QED
    BY <2>1, <2>2
<1> DEFINE Any(T) == f[T] \in Int /\ \A x \in T : f[T] = w[x] + f[T \ {x}]
           N == {n \in Nat : \A T \in SUBSET S : Cardinality(T) <= n => Any(T)}
<1>1. \A T \in SUBSET S : IsFiniteSet(T) /\ Cardinality(T) \in Nat
  BY FS_Subset, FS_CardinalityType
<1>2. f[{}] = 0
  BY <1>0
<1>3. 0 \in N
  <2>1. \A T \in SUBSET S : Cardinality(T) <= 0 => T = {}
    BY <1>1, FS_EmptySet
  <2>2. QED
    BY <1>2, <2>1
<1>4. ASSUME NEW n \in N PROVE n + 1 \in N
  <2> SUFFICES ASSUME NEW T \in SUBSET S, Cardinality(T) <= n + 1 PROVE Any(T)
    OBVIOUS
  <2>1. CASE T = {}
    BY <1>2, <2>1
  <2>2. CASE T # {}
    <3> DEFINE c == Pick(T)
    <3>1. c \in T /\ c \in S
      BY <2>2, Picked
    <3> HIDE DEF c
    <3>2. f[T] = w[c] + f[T \ {c}]
      BY <1>0, <2>2, Zenon DEF c
    <3>3. \A x \in T : Any(T \ {x})
      <4> TAKE x \in T
      <4>1. Cardinality(T \ {x}) = Cardinality(T) - 1
        BY <1>1, FS_RemoveElement
      <4>2. n \in Nat /\ Cardinality(T) \in Nat /\ T \ {x} \in SUBSET S
        BY <1>1
      <4>3. Cardinality(T \ {x}) <= n
        BY <4>1, <4>2
      <4>4. QED
        BY <4>2, <4>3
    <3>4. f[T] \in Int
      <4>1. w[c] \in Int /\ f[T \ {c}] \in Int
        BY <3>1, <3>3
      <4>2. QED
        BY <3>2, <4>1
    <3>5. ASSUME NEW x \in T, x # c PROVE f[T] = w[x] + f[T \ {x}]
      <4>1. f[T \ {c}] = w[x] + f[(T \ {c}) \ {x}] /\ f[T \ {x}] = w[c] + f[(T \ {x}) \ {c}]
        BY <3>1, <3>3, <3>5
      <4>2. (T \ {c}) \ {x} = (T \ {x}) \ {c}
        OBVIOUS
      <4>3. PICK u, v, r, a : /\ u = f[T \ {c}] /\ v = f[T \ {x}] /\ r = f[(T \ {c}) \ {x}]
                              /\ a = f[T]
        OBVIOUS
      <4>4. u \in Int /\ v \in Int /\ w[c] \in Int /\ w[x] \in Int
        BY <3>1, <3>3, <4>3
      <4>5. a = w[c] + u /\ u = w[x] + r /\ v = w[c] + r
        BY <3>2, <4>1, <4>2, <4>3
      <4>6. r \in Int
        <5>1. (T \ {c}) \ {x} \in SUBSET S /\ Cardinality((T \ {c}) \ {x}) <= n
          <6>1. Cardinality(T \ {c}) = Cardinality(T) - 1
            BY <1>1, <3>1, FS_RemoveElement
          <6>2. Cardinality((T \ {c}) \ {x}) = Cardinality(T \ {c}) - 1
            BY <1>1, <3>5, FS_RemoveElement
          <6>3. n \in Nat /\ Cardinality(T) \in Nat
            BY <1>1
          <6>4. QED
            BY <6>1, <6>2, <6>3
        <5>2. Any((T \ {c}) \ {x})
          BY <5>1
        <5>3. QED
          BY <4>3, <5>2
      <4>7. a = w[x] + v
        BY <4>4, <4>5, <4>6
      <4>8. QED
        BY <4>3, <4>7
    <3>6. QED
      BY <3>1, <3>2, <3>4, <3>5
  <2>3. QED
    BY <2>1, <2>2
<1> HIDE DEF N
<1>5. N = Nat
  <2>1. N \in SUBSET Nat
    BY DEF N
  <2>2. QED
    BY <1>3, <1>4, <2>1, AllNaturals
<1>6. ASSUME NEW T \in SUBSET S PROVE Any(T)
  BY <1>1, <1>5 DEF N
<1>7. f = [s \in SUBSET S |-> f[s]]
  BY DEF FoldOf
<1>8. QED
  BY <1>2, <1>6, <1>7 DEF Sums
-----------------------------------------------------------------------------
(***************************************************************************)
(* The sum of the squared differences over all pairs is twice n times the   *)
(* sum of the squares less the square of the sum.                           *)
(***************************************************************************)
Squares(w, g, D) == w \in [D -> Int] /\ \A i \in D : w[i] = g[i] * g[i]

Differences(w, g, D) ==
  /\ w \in [D \X D -> Int]
  /\ \A i, j \in D : w[<<i, j>>] = (g[i] - g[j]) * (g[i] - g[j])

\* y is the sum of x and of (a - g[i])^2 over m indexes i, with q and r the sums of the
\* squares and of the values g[i]; one index more, with the value b.
RowOf(y, x, m, a, q, r) ==
  /\ x \in Int /\ m \in Int /\ a \in Int /\ q \in Int /\ r \in Int
  /\ y = x + m * (a * a) + q - 2 * (a * r)

RowGrows(y1, m1, q1, r1, y, m, a, q, r, b) ==
  /\ b \in Int
  /\ y1 = (a - b) * (a - b) + y /\ m1 = m + 1 /\ q1 = b * b + q /\ r1 = b + r

\* y is the sum of (g[i] - g[j])^2 for m indexes i and n indexes j; one index i more.
BlockOf(y, m, n, q, r, u, v) ==
  /\ m \in Int /\ n \in Int /\ q \in Int /\ r \in Int /\ u \in Int /\ v \in Int
  /\ y = m * u + n * q - 2 * (r * v)

BlockGrows(m1, q1, r1, m, a, q, r) == m1 = m + 1 /\ q1 = a * a + q /\ r1 = a + r

LEMMA RowGrown ==
  ASSUME NEW y, NEW x, NEW m, NEW a, NEW q, NEW r, NEW b, NEW y1, NEW m1, NEW q1, NEW r1,
         RowOf(y, x, m, a, q, r), RowGrows(y1, m1, q1, r1, y, m, a, q, r, b)
  PROVE  RowOf(y1, x, m1, a, q1, r1)
<1>1. x \in Int /\ m \in Int /\ a \in Int /\ q \in Int /\ r \in Int /\ b \in Int
  BY DEF RowOf, RowGrows
<1>2. (a - b) * (a - b) + (x + m * (a * a) + q - 2 * (a * r))
        = x + (m + 1) * (a * a) + (b * b + q) - 2 * (a * (b + r))
  BY <1>1
<1>3. y1 = x + m1 * (a * a) + q1 - 2 * (a * r1)
  BY <1>2, Zenon DEF RowOf, RowGrows
<1>4. m1 \in Int /\ q1 \in Int /\ r1 \in Int
  BY <1>1 DEF RowGrows
<1>5. QED
  BY <1>1, <1>3, <1>4, Zenon DEF RowOf

LEMMA BlockGrown ==
  ASSUME NEW y, NEW m, NEW n, NEW a, NEW q, NEW r, NEW u, NEW v, NEW y1, NEW m1, NEW q1, NEW r1,
         BlockOf(y, m, n, q, r, u, v), BlockGrows(m1, q1, r1, m, a, q, r), RowOf(y1, y, n, a, u, v)
  PROVE  BlockOf(y1, m1, n, q1, r1, u, v)
<1>1. m \in Int /\ n \in Int /\ a \in Int /\ q \in Int /\ r \in Int /\ u \in Int /\ v \in Int
  BY DEF BlockOf, RowOf
<1>2. (m * u + n * q - 2 * (r * v)) + n * (a * a) + u - 2 * (a * v)
        = (m + 1) * u + n * (a * a + q) - 2 * ((a + r) * v)
  BY <1>1
<1>3. y1 = m1 * u + n * q1 - 2 * (r1 * v)
  BY <1>2, Zenon DEF BlockOf, RowOf, BlockGrows
<1>4. m1 \in Int /\ q1 \in Int /\ r1 \in Int
  BY <1>1 DEF BlockGrows
<1>5. QED
  BY <1>1, <1>3, <1>4, Zenon DEF BlockOf

\* With x in the set as well, the sum is w[x] more.
OneMore(f, w, T, x) == f[T] \in Int /\ f[T \cup {x}] = w[x] + f[T]

LEMMA SumsAdd ==
  ASSUME NEW S, NEW w, NEW f, Sums(f, w, S), NEW T \in SUBSET S, NEW x \in S \ T
  PROVE  OneMore(f, w, T, x)
<1>1. T \cup {x} \in SUBSET S /\ (T \cup {x}) \ {x} = T
  OBVIOUS
<1>2. QED
  BY <1>1 DEF Sums, OneMore

LEMMA CardAdd ==
  ASSUME NEW D, IsFiniteSet(D), NEW T \in SUBSET D, NEW x \in D \ T
  PROVE  Cardinality(T) \in Int /\ Cardinality(T \cup {x}) = Cardinality(T) + 1
<1>1. IsFiniteSet(T) /\ Cardinality(T) \in Nat
  BY FS_Subset, FS_CardinalityType
<1>2. Cardinality(T \cup {x}) = IF x \in T THEN Cardinality(T) ELSE Cardinality(T) + 1
  BY <1>1, FS_AddElement, Zenon
<1>3. QED
  BY <1>1, <1>2

LEMMA RowSum ==
  ASSUME NEW D, IsFiniteSet(D), NEW g \in [D -> Int],
         NEW sq, Squares(sq, g, D), NEW df, Differences(df, g, D),
         NEW G, Sums(G, g, D), NEW Q, Sums(Q, sq, D), NEW F, Sums(F, df, D \X D),
         NEW i \in D, NEW X \in SUBSET (D \X D), \A j \in D : <<i, j>> \notin X
  PROVE  RowOf(F[X \cup ({i} \X D)], F[X], Cardinality(D), g[i], Q[D], G[D])
<1> DEFINE Y(B) == X \cup ({i} \X B)
           Right(B) == RowOf(F[Y(B)], F[X], Cardinality(B), g[i], Q[B], G[B])
           C == {B \in SUBSET D : Right(B)}
<1>1. F[X] \in Int /\ g[i] \in Int
  BY DEF Sums
<1>2. {} \in C
  <2>1. Y({}) = X /\ Cardinality({}) = 0 /\ Q[{}] = 0 /\ G[{}] = 0
    BY FS_EmptySet DEF Sums
  <2>2. \A x, a \in Int : x = x + 0 * (a * a) + 0 - 2 * (a * 0)
    OBVIOUS
  <2>3. RowOf(F[X], F[X], 0, g[i], 0, 0)
    BY <1>1, <2>2 DEF RowOf
  <2> HIDE DEF Y
  <2>4. QED
    BY <2>1, <2>3
<1>3. ASSUME NEW B \in SUBSET D, NEW j \in D \ B, B \in C PROVE B \cup {j} \in C
  <2>1. /\ Y(B) \in SUBSET (D \X D) /\ <<i, j>> \in (D \X D) \ Y(B)
        /\ Y(B \cup {j}) = Y(B) \cup {<<i, j>>}
    OBVIOUS
  <2>2. Right(B)
    BY <1>3
  <2> HIDE DEF Y, Right, C
  <2>3. OneMore(F, df, Y(B), <<i, j>>)
    BY <2>1, SumsAdd
  <2>4. OneMore(Q, sq, B, j) /\ OneMore(G, g, B, j)
    BY SumsAdd
  <2>5. Cardinality(B \cup {j}) = Cardinality(B) + 1
    BY CardAdd
  <2>6. /\ df[<<i, j>>] = (g[i] - g[j]) * (g[i] - g[j])
        /\ sq[j] = g[j] * g[j] /\ g[j] \in Int
    BY DEF Differences, Squares
  <2>7. RowGrows(F[Y(B \cup {j})], Cardinality(B \cup {j}), Q[B \cup {j}], G[B \cup {j}],
                 F[Y(B)], Cardinality(B), g[i], Q[B], G[B], g[j])
    BY <2>1, <2>3, <2>4, <2>5, <2>6, Zenon DEF RowGrows, OneMore
  <2>8. Right(B \cup {j})
    BY <2>2, <2>7, RowGrown DEF Right
  <2>9. QED
    BY <2>8 DEF C
<1> HIDE DEF C
<1>4. SUBSET D \subseteq C
  BY <1>2, <1>3, AllSubsets
<1>5. QED
  BY <1>4 DEF C

LEMMA PairSum ==
  ASSUME NEW D, IsFiniteSet(D), NEW g \in [D -> Int],
         NEW sq, Squares(sq, g, D), NEW df, Differences(df, g, D),
         NEW G, Sums(G, g, D), NEW Q, Sums(Q, sq, D), NEW F, Sums(F, df, D \X D)
  PROVE  BlockOf(F[D \X D], Cardinality(D), Cardinality(D), Q[D], G[D], Q[D], G[D])
<1> DEFINE Right(A) ==
             BlockOf(F[A \X D], Cardinality(A), Cardinality(D), Q[A], G[A], Q[D], G[D])
           C == {A \in SUBSET D : Right(A)}
<1>1. Q[D] \in Int /\ G[D] \in Int /\ Cardinality(D) \in Int
  BY FS_CardinalityType DEF Sums
<1>2. {} \in C
  <2>1. {} \X D = {} /\ Cardinality({}) = 0 /\ Q[{}] = 0 /\ G[{}] = 0 /\ F[{}] = 0
    BY FS_EmptySet DEF Sums
  <2>2. \A n, u, v \in Int : 0 = 0 * u + n * 0 - 2 * (0 * v)
    OBVIOUS
  <2>3. BlockOf(0, 0, Cardinality(D), 0, 0, Q[D], G[D])
    BY <1>1, <2>2 DEF BlockOf
  <2>4. QED
    BY <2>1, <2>3
<1>3. ASSUME NEW A \in SUBSET D, NEW i \in D \ A, A \in C PROVE A \cup {i} \in C
  <2>1. /\ A \X D \in SUBSET (D \X D) /\ \A j \in D : <<i, j>> \notin A \X D
        /\ (A \cup {i}) \X D = (A \X D) \cup ({i} \X D)
    OBVIOUS
  <2>2. Right(A)
    BY <1>3
  <2> HIDE DEF Right, C
  <2>3. RowOf(F[(A \cup {i}) \X D], F[A \X D], Cardinality(D), g[i], Q[D], G[D])
    BY <2>1, RowSum
  <2>4. OneMore(Q, sq, A, i) /\ OneMore(G, g, A, i)
    BY SumsAdd
  <2>5. Cardinality(A \cup {i}) = Cardinality(A) + 1
    BY CardAdd
  <2>6. sq[i] = g[i] * g[i]
    BY DEF Squares
  <2>7. BlockGrows(Cardinality(A \cup {i}), Q[A \cup {i}], G[A \cup {i}],
                   Cardinality(A), g[i], Q[A], G[A])
    BY <2>4, <2>5, <2>6, Zenon DEF BlockGrows, OneMore
  <2>8. Right(A \cup {i})
    BY <2>2, <2>3, <2>7, BlockGrown DEF Right
  <2>9. QED
    BY <2>8 DEF C
<1> HIDE DEF C
<1>4. SUBSET D \subseteq C
  BY <1>2, <1>3, AllSubsets
<1>5. QED
  BY <1>4 DEF C

-----------------------------------------------------------------------------
\* The folds of SelfEvolve are such sums.
LEMMA TotalIsSum ==
  ASSUME NEW g, IsFiniteSet(DOMAIN g), g \in [DOMAIN g -> Int]
  PROVE  \E G : Sums(G, g, DOMAIN g) /\ Total(g) = G[DOMAIN g]
<1> DEFINE G == CHOOSE f : FoldOf(f, g, DOMAIN g)
<1>1. FoldOf(G, g, DOMAIN g) BY FoldExists, Zenon
<1>2. Total(g) = G[DOMAIN g]
  BY Zenon DEF Total, FoldFunction, FoldFunctionOnSet, MapThenFoldSet, FoldOf, Pick
<1> QED BY <1>1, <1>2, FoldSums, Zenon

LEMMA SpreadIsSum ==
  ASSUME NEW D, IsFiniteSet(D), NEW g \in [D -> Int]
  PROVE  \E df, F : /\ Differences(df, g, D) /\ Sums(F, df, D \X D)
                    /\ Spread(g, D) = F[D \X D]
<1> DEFINE S == D \X D
           df == [p \in S |-> Apart(g, p[1], p[2])]
           Into(f) == [s \in SUBSET S |->
                        IF s = {} THEN 0
                        ELSE Apart(g, Pick(s)[1], Pick(s)[2]) + f[s \ {Pick(s)}]]
           F == CHOOSE f : f = Into(f)
<1>1. IsFiniteSet(S) BY FS_Product
<1>2. Differences(df, g, D) BY DEF Differences, Apart
<1>3. PICK h : FoldOf(h, df, S) BY <1>1, FoldExists, Zenon
<1>4. \A s \in SUBSET S : s # {} => Apart(g, Pick(s)[1], Pick(s)[2]) = df[Pick(s)]
  BY Picked
<1>5. \A f : Into(f) = [s \in SUBSET S |-> IF s = {} THEN 0 ELSE df[Pick(s)] + f[s \ {Pick(s)}]]
  BY <1>4
<1>6. \E f : f = Into(f) BY <1>3, <1>5 DEF FoldOf
<1>7. F = Into(F) BY <1>6
<1>8. FoldOf(F, df, S) BY <1>5, <1>7 DEF FoldOf
<1>9. Spread(g, D) = F[S]
  BY Zenon DEF Spread, MapThenSumSet, MapThenFoldSet, Pick
<1> HIDE DEF F, df
<1>10. df \in [S -> Int] BY <1>2 DEF Differences
<1> QED BY <1>1, <1>2, <1>8, <1>9, <1>10, FoldSums

(***************************************************************************)
(* The variance that self_evolve.py:543 bounds, taken from the sum and the  *)
(* sum of the squares, is bounded exactly when the gains of the runs do not *)
(* lie far apart from each other, whatever the number of runs.              *)
(***************************************************************************)
THEOREM SteadyIsPairwise ==
  ASSUME NEW n \in Nat, NEW g \in [1 .. n -> Int]
  PROVE  Steady(g) <=> Spread(g, 1 .. n) <= 2 * MaxGainVariance * n * n
<1> DEFINE D == 1 .. n
           sq == [i \in D |-> g[i] * g[i]]
<1>1. IsFiniteSet(D) /\ Cardinality(D) = n BY FS_Interval
<1>2. DOMAIN g = D /\ DOMAIN sq = D /\ sq \in [D -> Int] /\ Squares(sq, g, D) BY DEF Squares
<1>3. g \in Seq(Int) /\ Len(g) = n
  <2>1. g \in Seq(Int) BY <1>2
  <2> QED BY <1>2, <2>1
<1>4. Steady(g) <=> n * Total(sq) - Total(g) * Total(g) <= MaxGainVariance * n * n
  BY <1>2, <1>3, Zenon DEF Steady
<1> HIDE DEF D, sq
<1>5. PICK G : Sums(G, g, D) /\ Total(g) = G[D] BY <1>1, <1>2, TotalIsSum
<1>6. PICK Q : Sums(Q, sq, D) /\ Total(sq) = Q[D] BY <1>1, <1>2, TotalIsSum
<1>7. PICK df, F : Differences(df, g, D) /\ Sums(F, df, D \X D) /\ Spread(g, D) = F[D \X D]
  BY <1>1, <1>2, SpreadIsSum
<1>8. BlockOf(Spread(g, D), n, n, Total(sq), Total(g), Total(sq), Total(g))
  BY <1>1, <1>2, <1>5, <1>6, <1>7, PairSum
<1>9. \A q, r \in Int : /\ n * q - r * r \in Int /\ n * q + n * q - 2 * (r * r) \in Int
                         /\ n * q + n * q - 2 * (r * r) = 2 * (n * q - r * r)
  OBVIOUS
<1>10. \A a, c \in Int : a <= 100 * c <=> 2 * a <= 2 * 100 * c
  OBVIOUS
<1>11. n * n \in Int /\ 100 * n * n = 100 * (n * n) /\ 2 * 100 * n * n = 2 * 100 * (n * n)
  OBVIOUS
<1> QED BY <1>4, <1>8, <1>9, <1>10, <1>11 DEF BlockOf, D, MaxGainVariance

\* What the gates see of two evaluations that can be compared.
LEMMA GainsTyped ==
  ASSUME NEW old \in Seq(Int), NEW new \in Seq(Int), NEW n, Len(old) = n, Len(new) = n
  PROVE  n \in Nat /\ Gains(old, new) \in [1 .. n -> Int]
BY DEF Gains

LEMMA BoundEvaluation ==
  ASSUME NEW e \in Evaluation, NEW prompt, NEW split, Bindable(e, prompt, split)
  PROVE  LET b == BindEvaluation(e, prompt, split)
         IN  b.prompt = prompt /\ b.seen \in Seq(Int) /\ b.held \in Seq(Int)
BY EvolutionAssumption DEF BindEvaluation, Bindable

LEMMA NoRejection ==
  ASSUME NEW old, NEW new, NEW gates, Rejection(old, new, gates) = NoDoc
  PROVE  /\ \A i \in DOMAIN Gains(old.seen, new.seen) : ~(Gains(old.seen, new.seen)[i] < 0)
         /\ Steady(Gains(old.seen, new.seen)) /\ Steady(Gains(old.held, new.held))
<1> NoDoc \notin RejectionReason BY EvolutionAssumption
<1> QED BY DEF Rejection, RejectionReason

LEMMA EvolveKeeps == EvolvedIsSteady /\ [EvolveNext]_evolved => EvolvedIsSteady'
<1> SUFFICES ASSUME EvolvedIsSteady, [EvolveNext]_evolved PROVE EvolvedIsSteady'
  OBVIOUS
<1>1. CASE UNCHANGED evolved BY <1>1 DEF EvolvedIsSteady
<1>2. ASSUME NEW prompt \in Prompt, NEW before \in Evaluation, NEW after \in Evaluation,
             NEW gates \in Gates, Evolve(prompt, before, after, gates), evolved'.reason = NoDoc
      PROVE  EvolvedIsSteady'
  <2> DEFINE old == BindEvaluation(before, prompt, "baseline")
             new == BindEvaluation(after, prompt, "holdout")
             n == gates.runs
             seen == Gains(old.seen, new.seen)
             held == Gains(old.held, new.held)
  <2>1. /\ old.prompt = prompt /\ old.seen \in Seq(Int) /\ old.held \in Seq(Int)
        /\ new.prompt = prompt /\ new.seen \in Seq(Int) /\ new.held \in Seq(Int)
    BY <1>2, BoundEvaluation DEF Evolve
  <2>2. /\ Comparable(old, new, gates) /\ Rejection(old, new, gates) = NoDoc
        /\ evolved'.prompt = prompt /\ evolved'.old = old /\ evolved'.new = new
        /\ evolved'.gates = gates
    BY <1>2 DEF Evolve
  <2> HIDE DEF old, new
  <2>3. /\ Len(old.seen) = n /\ Len(new.seen) = n /\ Len(old.held) = n /\ Len(new.held) = n
        /\ old.manifest = new.manifest
    BY <2>2 DEF Comparable
  <2>4. n \in Nat /\ seen \in [1 .. n -> Int] /\ held \in [1 .. n -> Int]
    BY <2>1, <2>3, GainsTyped
  <2>5. /\ \A i \in DOMAIN seen : ~(seen[i] < 0)
        /\ Steady(seen) /\ Steady(held)
    BY <2>2, NoRejection
  <2>6. \A i \in 1 .. n : new.seen[i] >= old.seen[i]
    <3> TAKE i \in 1 .. n
    <3>1. /\ i \in DOMAIN old.seen /\ new.seen[i] \in Int /\ old.seen[i] \in Int
          /\ i \in DOMAIN seen
      BY <2>1, <2>3, <2>4
    <3>2. seen[i] = new.seen[i] - old.seen[i] BY <3>1 DEF Gains
    <3> HIDE DEF seen, n
    <3> QED BY <2>5, <3>1, <3>2
  <2> HIDE DEF n, seen, held
  <2>7. /\ Spread(seen, 1 .. n) <= 2 * MaxGainVariance * n * n
        /\ Spread(held, 1 .. n) <= 2 * MaxGainVariance * n * n
    BY <2>4, <2>5, SteadyIsPairwise
  <2> QED BY <2>1, <2>2, <2>3, <2>6, <2>7 DEF EvolvedIsSteady, n, seen, held
<1>3. ASSUME evolved'.reason # NoDoc PROVE EvolvedIsSteady' BY <1>3 DEF EvolvedIsSteady
<1> QED BY <1>1, <1>2, <1>3 DEF EvolveNext

(***************************************************************************)
(* The gates of evaluate_self_evolve (self_evolve.py) let no candidate      *)
(* through that is worse in a run of the dataset it was tuned on, or whose  *)
(* gains of any two runs lie further apart than the variance allows, in     *)
(* either split and for any number of runs.                                 *)
(***************************************************************************)
THEOREM EvolutionIsSteady == EvolveInit /\ [][EvolveNext]_evolved => []EvolvedIsSteady
<1>1. EvolveInit => EvolvedIsSteady BY DEF EvolveInit, EvolvedIsSteady
<1> QED BY <1>1, EvolveKeeps, PTL
=============================================================================
