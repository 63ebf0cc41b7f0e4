----------------------------- MODULE Recognition -----------------------------
(* Who a face or an ID card says is in the room.  A student consents to     *)
(* face check-in; a lecturer enrols them from photos, matches the face in   *)
(* front of the terminal to the enrolled students of the unit and confirms  *)
(* the match with a signed token; a terminal records the holder of a card   *)
(* or of a registration number.  Every step that waits for the face service *)
(* or for the database is a step of its own, so the requests interleave.    *)
EXTENDS Integers, FiniteSets, SequencesExt

CONSTANTS
  Pupils, Photos, Cards,
  Likeness(_, _),       \* similarity of two photos, -Certain .. Certain
  Certain,              \* the similarity of a photo to itself
  MatchThreshold, MatchMargin, DuplicateThreshold,  \* FACE_MATCH_THRESHOLD, ...
  PhotosEach,           \* photos of one enrolment
  TokenTtl,             \* FACE_MATCH_TOKEN_TTL_SECONDS
  Lessons,              \* sessions of the lecturer's unit with face and card on
  Stranger,             \* nobody
  Enrolments, Taps,     \* requests under way: enrolments; a terminal's taps
  MaxAsked, MaxClock    \* bounds: requests ever made; the clock

\* What the constants must satisfy.
RecognitionAssumption ==
  /\ {PhotosEach, TokenTtl, MaxAsked, MaxClock, Certain} \subseteq Nat
  /\ {MatchThreshold, MatchMargin, DuplicateThreshold} \subseteq Int
  /\ IsFiniteSet(Pupils)
  /\ \A p, q \in Photos : Likeness(p, q) \in -Certain .. Certain /\ Likeness(p, q) = Likeness(q, p)
  /\ \A p \in Photos : Likeness(p, p) = Certain
  /\ MatchThreshold <= DuplicateThreshold
  /\ Stranger \notin Pupils

VARIABLES
  person,     \* pupil -> [deleted, consent, active]: the account, its consent, ACTIVE on the unit
  template,   \* pupil -> the photos enrolled, {} when none
  card,       \* card -> [holder, status]
  live,       \* the classes accepting check-ins
  present,    \* attendance_records: [class, pupil, method]
  tokens,     \* match tokens handed out: [class, pupil, expires]
  enrolling,  \* enrolFace calls: [phase, pupil, photos, others]
  tap,        \* a terminal's calls: [phase, class, pupil, method]
  clock, asked

recognitionVars == <<person, template, card, live, present, tokens, enrolling, tap, clock, asked>>
unattended == <<live, present, tokens, tap>>

NotEnrolling == [phase |-> "idle", pupil |-> Stranger, photos |-> {}, others |-> <<>>]
NoTap == [phase |-> "idle", class |-> Stranger, pupil |-> Stranger, method |-> "FACE"]
Unissued == [holder |-> Stranger, status |-> "UNISSUED"]

-----------------------------------------------------------------------------
(* Comparing templates: face.match.ts. *)

Highest(S) == CHOOSE s \in S : \A t \in S : s >= t

\* scoreCandidate: the best of a pupil's templates.
ScoreOf(probe, photos) == Highest({-Certain} \cup {Likeness(probe, p) : p \in photos})

Unmatched == [pupil |-> Stranger, score |-> -Certain - 1, runnerUp |-> -Certain - 1]

\* One round of bestMatch's loop: the best so far and the runner-up.
Better(best, candidate) ==
  IF candidate.score > best.score
  THEN [pupil |-> candidate.pupil, score |-> candidate.score, runnerUp |-> best.score]
  ELSE [best EXCEPT !.runnerUp = Highest({@, candidate.score})]

\* bestMatch over candidates in the order the database gives them; its MATCH, or the stranger.
BestMatch(probe, candidates, held, threshold, margin) ==
  LET scores == [i \in 1 .. Len(candidates) |-> [pupil |-> candidates[i], score |-> ScoreOf(probe, held[candidates[i]])]]
      best == FoldLeft(Better, Unmatched, scores)
  IN IF best.score >= threshold /\ (best.runnerUp >= -Certain => best.score - best.runnerUp >= margin)
     THEN best.pupil ELSE Stranger

\* minPairwiseSimilarity reaches the threshold.
Agree(photos) == \A p, q \in photos : Likeness(p, q) >= MatchThreshold

-----------------------------------------------------------------------------
RecognitionInit ==
  /\ person = [s \in Pupils |-> [deleted |-> FALSE, consent |-> FALSE, active |-> TRUE]]
  /\ template = [s \in Pupils |-> {}]
  /\ card = [c \in Cards |-> Unissued]
  /\ live = Lessons
  /\ present = {}
  /\ tokens = {}
  /\ enrolling = [e \in Enrolments |-> NotEnrolling]
  /\ tap = [t \in Taps |-> NoTap]
  /\ clock = 0
  /\ asked = 0

Ask == asked < MaxAsked /\ asked' = asked + 1

\* giveConsent.
GiveConsent(s) ==
  /\ ~person[s].deleted /\ ~person[s].consent
  /\ person' = [person EXCEPT ![s].consent = TRUE]
  /\ UNCHANGED <<template, card, enrolling, clock, asked, unattended>>

\* withdrawConsent: the consent and the templates go in one transaction.
WithdrawConsent(s) ==
  /\ Ask
  /\ person[s].consent
  /\ person' = [person EXCEPT ![s].consent = FALSE]
  /\ template' = [template EXCEPT ![s] = {}]
  /\ UNCHANGED <<card, enrolling, clock, unattended>>

\* The roster sync drops a pupil from the unit, or brings them back.
Reroster(s) ==
  /\ Ask
  /\ ~person[s].deleted
  /\ person' = [person EXCEPT ![s].active = ~@]
  /\ UNCHANGED <<template, card, enrolling, clock, unattended>>

\* anonymiseAccount: the account, its consent, templates and cards, and its place on the roster.
DeletePupil(s) ==
  /\ Ask
  /\ ~person[s].deleted
  /\ person' = [person EXCEPT ![s] = [deleted |-> TRUE, consent |-> FALSE, active |-> FALSE]]
  /\ template' = [template EXCEPT ![s] = {}]
  /\ card' = [c \in Cards |-> IF card[c].holder = s THEN Unissued ELSE card[c]]
  /\ UNCHANGED <<enrolling, clock, unattended>>

\* requireRosterStudent: what enrolling and removing ask of the pupil.
OnUnit(s) == person[s].active

\* enrolFace, up to the photos: ACTIVE on the unit and consenting.
AskEnrolment(e, s) ==
  /\ Ask
  /\ enrolling[e] = NotEnrolling
  /\ OnUnit(s) /\ person[s].consent
  /\ enrolling' = [enrolling EXCEPT ![e] = [NotEnrolling EXCEPT !.phase = "photos", !.pupil = s]]
  /\ UNCHANGED <<person, template, card, clock, unattended>>

\* The face service has embedded the photos, which must agree with each other; {} when it
\* fails or a photo shows no usable face.
EmbedPhotos(e) ==
  /\ enrolling[e].phase = "photos"
  /\ \E photos \in SUBSET Photos :
       /\ Cardinality(photos) <= PhotosEach
       /\ enrolling' = [enrolling EXCEPT ![e] =
            IF photos # {} /\ Agree(photos) THEN [@ EXCEPT !.phase = "others", !.photos = photos] ELSE NotEnrolling]
  /\ UNCHANGED <<person, template, card, clock, asked, unattended>>

\* Mutant for SecondNameOnlyByOverlap: only the first photo is compared.
ClashesFirst(photos, s, held) ==
  LET others == SetToSeq({t \in Pupils \ {s} : held[t] # {}})
  IN BestMatch(CHOOSE p \in photos : TRUE, others, held, DuplicateThreshold, 0) # Stranger

\* Any of the photos belongs to another enrolled pupil.
Clashes(photos, s, held) ==
  LET others == SetToSeq({t \in Pupils \ {s} : held[t] # {}})
  IN \E p \in photos : BestMatch(p, others, held, DuplicateThreshold, 0) # Stranger

\* findOtherEnrollments and the comparison.
CompareOthers(e) ==
  /\ enrolling[e].phase = "others"
  /\ enrolling' = [enrolling EXCEPT ![e] =
       IF Clashes(@.photos, @.pupil, template) THEN NotEnrolling ELSE [@ EXCEPT !.phase = "save", !.others = template]]
  /\ UNCHANGED <<person, template, card, clock, asked, unattended>>

\* upsertEnrollment: the templates replace whatever is there.
SaveEnrolment(e) ==
  /\ enrolling[e].phase = "save"
  /\ template' = [template EXCEPT ![enrolling[e].pupil] = enrolling[e].photos]
  /\ enrolling' = [enrolling EXCEPT ![e] = NotEnrolling]
  /\ UNCHANGED <<person, card, clock, asked, unattended>>

\* removeEnrollment: the consent stays.
RemoveEnrolment(s) ==
  /\ Ask
  /\ OnUnit(s) /\ template[s] # {}
  /\ template' = [template EXCEPT ![s] = {}]
  /\ UNCHANGED <<person, card, enrolling, clock, unattended>>

\* enrolCard: the unique indexes on the UID and on a student's active card.
EnrolCard(c, s) ==
  /\ Ask
  /\ card[c] = Unissued
  /\ ~person[s].deleted
  /\ \A d \in Cards : card[d] # [holder |-> s, status |-> "ACTIVE"]
  /\ card' = [card EXCEPT ![c] = [holder |-> s, status |-> "ACTIVE"]]
  /\ UNCHANGED <<person, template, enrolling, clock, unattended>>

\* revokeActiveCard: the row stays, so the UID is never another student's.
RevokeCard(c) ==
  /\ Ask
  /\ card[c].status = "ACTIVE"
  /\ card' = [card EXCEPT ![c].status = "REVOKED"]
  /\ UNCHANGED <<person, template, enrolling, clock, unattended>>

-----------------------------------------------------------------------------
(* The terminal. *)

Stand(t, new) == tap' = [tap EXCEPT ![t] = new]
untapped == <<person, template, card, live, enrolling, clock>>

\* A lecturer's photo arrives for a live class.
SendFace(t, k) ==
  /\ Ask
  /\ tap[t] = NoTap /\ k \in live
  /\ Stand(t, [NoTap EXCEPT !.phase = "match", !.class = k])
  /\ UNCHANGED <<present, tokens, untapped>>

\* findUnitCandidates: ACTIVE on the unit, consenting and enrolled.
FaceCandidates == {s \in Pupils : person[s].active /\ person[s].consent /\ template[s] # {}}

\* identifyFace, once embedded: a clear match is shown, with a token unless already recorded.
IdentifyFace(t) ==
  /\ tap[t].phase = "match"
  /\ Stand(t, NoTap)
  /\ \E probe \in Photos, candidates \in SetToSeqs(FaceCandidates) :
       LET s == BestMatch(probe, candidates, template, MatchThreshold, MatchMargin)
           recorded == \E row \in present : row.class = tap[t].class /\ row.pupil = s
       IN tokens' = IF s = Stranger \/ recorded THEN tokens
                    ELSE tokens \cup {[class |-> tap[t].class, pupil |-> s, expires |-> clock + TokenTtl]}
  /\ UNCHANGED <<present, asked, untapped>>

\* Mutant for RecordedWhereMatched: the signature does not cover the session.
SignedAnyhow(token, k) == clock <= token.expires

\* verifyMatchToken: signed with this session's secret, and not expired.
Signed(token, k) == token.class = k /\ clock <= token.expires

\* confirmFace, up to the roster read: a live class and a valid token.
ConfirmFace(t, token, k) ==
  /\ Ask
  /\ tap[t] = NoTap /\ k \in live
  /\ Signed(token, k)
  /\ Stand(t, [phase |-> "eligible", class |-> k, pupil |-> token.pupil, method |-> "FACE"])
  /\ UNCHANGED <<present, tokens, untapped>>

\* isFaceCheckInEligible, read again: seconds have passed since the match.
CheckEligible(t) ==
  /\ tap[t].phase = "eligible"
  /\ IF tap[t].pupil \in FaceCandidates THEN Stand(t, [tap[t] EXCEPT !.phase = "insert"]) ELSE Stand(t, NoTap)
  /\ UNCHANGED <<present, tokens, asked, untapped>>

\* checkInByCard, checkInByBarcode: who holds the card, or the registration number.
ReadCard(t, k) ==
  /\ Ask
  /\ tap[t] = NoTap
  /\ \E s \in {card[c].holder : c \in {d \in Cards : card[d].status = "ACTIVE"}} \cup {u \in Pupils : ~person[u].deleted} :
       Stand(t, [phase |-> "verify", class |-> k, pupil |-> s, method |-> "CARD"])
  /\ UNCHANGED <<present, tokens, untapped>>

\* verifyTerminalCheckIn: the class is live, the pupil on its roster, and not yet recorded.
VerifyCard(t) ==
  /\ tap[t].phase = "verify"
  /\ IF /\ tap[t].class \in live
        /\ person[tap[t].pupil].active
        /\ \A row \in present : ~(row.class = tap[t].class /\ row.pupil = tap[t].pupil)
     THEN Stand(t, [tap[t] EXCEPT !.phase = "insert"]) ELSE Stand(t, NoTap)
  /\ UNCHANGED <<present, tokens, asked, untapped>>

\* recordFaceCheckIn and the card's insertRecord: one record per student and session, whichever method.
Record(t) ==
  LET row == [class |-> tap[t].class, pupil |-> tap[t].pupil, method |-> tap[t].method]
  IN /\ tap[t].phase = "insert"
     /\ present' = IF \E r \in present : r.class = row.class /\ r.pupil = row.pupil THEN present ELSE present \cup {row}
     /\ Stand(t, NoTap)
     /\ UNCHANGED <<tokens, asked, untapped>>

\* A class is closed, or its window ends.
EndClass(k) ==
  /\ k \in live
  /\ live' = live \ {k}
  /\ UNCHANGED <<person, template, card, present, tokens, enrolling, tap, clock, asked>>

Second ==
  /\ clock < MaxClock
  /\ clock' = clock + 1
  /\ UNCHANGED <<person, template, card, live, present, tokens, enrolling, tap, asked>>

RecognitionNext ==
  \/ \E s \in Pupils : GiveConsent(s) \/ WithdrawConsent(s) \/ Reroster(s) \/ DeletePupil(s) \/ RemoveEnrolment(s)
  \/ \E e \in Enrolments, s \in Pupils : AskEnrolment(e, s)
  \/ \E e \in Enrolments : EmbedPhotos(e) \/ CompareOthers(e) \/ SaveEnrolment(e)
  \/ \E c \in Cards : RevokeCard(c) \/ \E s \in Pupils : EnrolCard(c, s)
  \/ \E t \in Taps, k \in Lessons :
       SendFace(t, k) \/ ReadCard(t, k) \/ \E token \in tokens : ConfirmFace(t, token, k)
  \/ \E t \in Taps : IdentifyFace(t) \/ CheckEligible(t) \/ VerifyCard(t) \/ Record(t)
  \/ \E k \in Lessons : EndClass(k)
  \/ Second

RecognitionSpec == RecognitionInit /\ [][RecognitionNext]_recognitionVars

-----------------------------------------------------------------------------
(* Nobody is recorded by face in a class without a match made in that very  *)
(* class, whatever tokens a lecturer holds from other classes               *)
(* (verification.service.ts confirmFace; face.token.ts).                    *)
RecordedWhereMatched ==
  \A row \in present : row.method = "FACE" => \E token \in tokens : token.class = row.class /\ token.pupil = row.pupil

(* One face is stored under two names only when the other name was enrolled *)
(* between this enrolment's comparison and its write                        *)
(* (verification.service.ts enrollFace).                                    *)
SecondNameOnlyByOverlapStep ==
  \A s, t \in Pupils :
     s # t /\ template'[s] # template[s] /\ (\E p \in template'[s], q \in template[t] : Likeness(p, q) >= DuplicateThreshold) =>
       \E e \in Enrolments : enrolling[e].phase = "save" /\ enrolling[e].pupil = s /\ enrolling[e].others[t] # template[t]
SecondNameOnlyByOverlap == [][SecondNameOnlyByOverlapStep]_recognitionVars

=============================================================================
