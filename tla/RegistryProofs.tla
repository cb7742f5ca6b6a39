---------------------------- MODULE RegistryProofs ----------------------------
(***************************************************************************)
(* Proofs about Registry, for any slugs, offers and number of versions: the *)
(* types, and the safety properties its run checks.                        *)
(*                                                                         *)
(* They are not inductive one by one.  Between the moment a pass or a      *)
(* review reads the records and the one it commits, what it read must      *)
(* still be so (PassReads, ReviewReads), which holds as long as the two    *)
(* never overlap; and what is signed is known by the status of a record    *)
(* (StatusTells).                                                          *)
(***************************************************************************)
EXTENDS Registry, SequenceTheorems, TLAPS

\* A draft is unsigned and an approved record signed.
PendingIsUnsigned ==
  ~raced => \A id \in Ids : Record(id).status = "pending" => Record(id).signed = NoCase
ApprovedIsSigned ==
  \A id \in Ids : Record(id).status = "approved" => Record(id).signed # NoCase
StatusTells == PendingIsUnsigned /\ ApprovedIsSigned

\* What a pass has read of a slug still holds of its latest version: its place and terms
\* always, its status as long as no review came between.
PassReads ==
  pass # NoPass =>
    /\ \A s \in Slug :
         /\ pass[s].version = Len(versions[s])
         /\ pass[s].kind \in {"restate", "supersede"} => Exists(s)
         /\ pass[s].kind \in {"draft", "supersede"} /\ Exists(s)
              => Latest(s).terms # pass[s].offer.terms
    /\ ~raced =>
         /\ review = NoReview
         /\ \A s \in Slug :
              /\ pass[s].kind = "restate" => Latest(s).status = "pending"
              /\ pass[s].kind = "draft" /\ Exists(s) => Latest(s).status # "approved"

\* What a review has read of its records still holds, as long as no pass came between.
ReviewReads ==
  ~raced /\ review # NoReview =>
    /\ pass = NoPass
    /\ \A id \in DOMAIN review.loaded :
         /\ review.loaded[id].status = Record(id).status
         /\ review.loaded[id].case = Record(id).case

Inv ==
  /\ TypeOK
  /\ tradeable \subseteq Ids
  /\ StatusTells
  /\ PassReads
  /\ ReviewReads
  /\ SignedCaseStays
  /\ DraftsDiffer
  /\ SupersededIsSuspended

-----------------------------------------------------------------------------
(* The records, and what a commit does to them.                            *)

LEMMA OfferIsTyped == ASSUME NEW o \in Offer PROVE o.terms \in Terms /\ o.case \in Case
BY DEF Terms, Case

LEMMA DraftIsTyped ==
  ASSUME NEW o \in Offer
  PROVE  /\ Draft(o) \in Row
         /\ Draft(o).terms = o.terms /\ Draft(o).case = o.case
         /\ Draft(o).status = "pending" /\ Draft(o).signed = NoCase
BY OfferIsTyped DEF Draft, Row, Status

\* The places of the versions, and the record at each.
LEMMA RecordIsTyped ==
  ASSUME TypeOK, NEW s \in Slug, NEW v \in 1 .. Len(versions[s])
  PROVE  /\ <<s, v>> \in Ids
         /\ Record(<<s, v>>) = versions[s][v]
         /\ versions[s][v] \in Row
BY RegistryConstants DEF TypeOK, Ids, Id, Record

LEMMA IdIsTyped ==
  ASSUME TypeOK, NEW id \in Ids
  PROVE  /\ id[1] \in Slug /\ id[2] \in 1 .. Len(versions[id[1]])
         /\ id = <<id[1], id[2]>>
         /\ Record(id) \in Row
BY RegistryConstants DEF TypeOK, Ids, Id, Record

LEMMA LatestIsTyped ==
  ASSUME TypeOK, NEW s \in Slug, Exists(s)
  PROVE  /\ Len(versions[s]) \in 1 .. MaxVersions
         /\ Latest(s) = versions[s][Len(versions[s])]
         /\ Latest(s) \in Row
<1>1. versions[s] \in Seq(Row) /\ versions[s] # <<>>
  BY DEF TypeOK, Exists
<1>2. Len(versions[s]) \in Nat /\ Len(versions[s]) # 0
  BY <1>1, EmptySeq
<1> QED
  BY <1>1, <1>2, RegistryConstants DEF TypeOK, Latest

\* A pass that commits adds at most a draft, and otherwise restates the case or suspends
\* the status of the latest version.
LEMMA WrittenFacts ==
  ASSUME TypeOK, PassReads, pass # NoPass, NEW s \in Slug,
         NEW n \in Nat, n = Len(versions[s]),
         NEW new, new = Written(s, pass[s])
  PROVE  /\ new \in Seq(Row)
         /\ Len(new) \in {n, n + 1}
         /\ \A v \in 1 .. n :
              /\ new[v].terms = versions[s][v].terms
              /\ new[v].signed = versions[s][v].signed
              /\ new[v].late = versions[s][v].late
              /\ new[v].case = versions[s][v].case \/ (v = n /\ pass[s].kind = "restate")
              /\ \/ new[v].status = versions[s][v].status
                 \/ new[v].status = "suspended"
              /\ v = n /\ pass[s].kind = "supersede" => new[v].status = "suspended"
         /\ Len(new) = n + 1 =>
              /\ new[n + 1] = Draft(pass[s].offer)
              /\ pass[s].kind \in {"draft", "supersede"}
<1> DEFINE w == pass[s]
           old == versions[s]
<1>1. /\ old \in Seq(Row) /\ w \in Writing /\ w.offer \in Offer /\ w.offer.case \in Case
      /\ w.kind \in {"nothing", "restate", "draft", "supersede"} /\ w.version = n
  BY OfferIsTyped DEF TypeOK, Writing, PassReads
<1>2. \A v \in 1 .. n : old[v] \in Row
  BY <1>1
<1>3. Draft(w.offer) \in Row
  BY <1>1, DraftIsTyped
<1>4. w.kind \in {"restate", "supersede"} => n \in 1 .. n
  BY LatestIsTyped, <1>1 DEF PassReads
<1>5. CASE w.kind = "nothing"
  BY <1>1, <1>5 DEF Written
<1>6. CASE w.kind = "restate"
  <2>1. new = [old EXCEPT ![n] = [old[n] EXCEPT !.case = w.offer.case]]
    BY <1>1, <1>6 DEF Written
  <2>2. [old[n] EXCEPT !.case = w.offer.case] \in Row
    BY <1>1, <1>2, <1>4, <1>6 DEF Row
  <2>3. new \in Seq(Row) /\ Len(new) = n
    BY <1>1, <1>4, <1>6, <2>1, <2>2
  <2> QED
    BY <1>1, <1>2, <1>4, <1>6, <2>1, <2>3 DEF Row
<1>7. CASE w.kind = "draft"
  <2>1. new = Append(old, Draft(w.offer))
    BY <1>1, <1>7 DEF Written
  <2> QED
    BY <1>1, <1>3, <1>7, <2>1, AppendProperties
<1>8. CASE w.kind = "supersede"
  <2> DEFINE suspended == [old EXCEPT ![n] = [old[n] EXCEPT !.status = "suspended"]]
  <2>1. new = Append(suspended, Draft(w.offer))
    BY <1>1, <1>8 DEF Written
  <2>2. [old[n] EXCEPT !.status = "suspended"] \in Row
    BY <1>1, <1>2, <1>4, <1>8 DEF Row, Status
  <2>3. suspended \in Seq(Row) /\ Len(suspended) = n
    BY <1>1, <1>4, <1>8, <2>2
  <2>4. \A v \in 1 .. n :
           suspended[v] = IF v = n THEN [old[n] EXCEPT !.status = "suspended"] ELSE old[v]
    BY <1>1, <1>4, <1>8
  <2>5. /\ new \in Seq(Row) /\ Len(new) = n + 1 /\ new[n + 1] = Draft(w.offer)
        /\ \A v \in 1 .. n : new[v] = suspended[v]
    <3> HIDE DEF suspended
    <3> QED
      BY <1>3, <2>1, <2>3, AppendProperties
  <2> QED
    BY SMTT(20), <1>1, <1>2, <1>4, <1>8, <2>4, <2>5 DEF Row
<1> QED
  BY <1>1, <1>5, <1>6, <1>7, <1>8

\* A review that commits gives its records their status and, if it approves, the case it
\* has read; it adds none, and moves no terms and no case.
LEMMA ReviewedFacts ==
  ASSUME TypeOK, NEW id \in Ids
  PROVE  LET r == Record(id)
             new == Reviewed(id)
         IN /\ new \in Row
            /\ new.terms = r.terms /\ new.case = r.case
            /\ id \notin DOMAIN review.loaded => new = r
            /\ id \in DOMAIN review.loaded =>
                 /\ \/ review.loaded[id].status = StatusAfter(review.decision)
                       /\ new.status = r.status
                    \/ new.status = StatusAfter(review.decision)
                 /\ review.decision = "approved" =>
                      /\ new.signed = review.loaded[id].case
                      /\ new.signed # NoCase
                      /\ new.late = (id[2] < Len(versions[id[1]]))
                 /\ review.decision # "approved" =>
                      new.signed = r.signed /\ new.late = r.late
<1> DEFINE r == Record(id)
           seen == review.loaded[id]
           status == StatusAfter(review.decision)
           decided == IF seen.status = status THEN r ELSE [r EXCEPT !.status = status]
<1>1. r \in Row
  BY IdIsTyped
<1>2. CASE id \notin DOMAIN review.loaded
  BY <1>1, <1>2 DEF Reviewed
<1>3. CASE id \in DOMAIN review.loaded
  <2>1. seen \in [status : Status, case : Case] /\ status \in Status
    BY <1>3 DEF TypeOK, StatusAfter, Status
  <2>2. seen.case \in Case /\ seen.case # NoCase
    BY <2>1, RegistryConstants
  <2>3. /\ decided \in Row
        /\ decided.terms = r.terms /\ decided.case = r.case
        /\ decided.signed = r.signed /\ decided.late = r.late
        /\ (seen.status = status /\ decided.status = r.status) \/ decided.status = status
    BY <1>1, <2>1 DEF Row
  <2>4. (id[2] < Len(versions[id[1]])) \in BOOLEAN
    BY IdIsTyped DEF TypeOK
  <2>5. Reviewed(id) =
          IF review.decision = "approved"
            THEN [decided EXCEPT !.signed = seen.case, !.late = id[2] < Len(versions[id[1]])]
          ELSE decided
    BY <1>3 DEF Reviewed
  <2> HIDE DEF decided, status
  <2> QED
    BY <1>3, <2>2, <2>3, <2>4, <2>5 DEF Row, status
<1> QED
  BY <1>2, <1>3

LEMMA CommittedReview ==
  ASSUME TypeOK, CommitReview, NEW s \in Slug
  PROVE  /\ versions'[s] \in Seq(Row)
         /\ Len(versions'[s]) = Len(versions[s])
         /\ \A v \in 1 .. Len(versions[s]) :
              <<s, v>> \in Ids /\ versions'[s][v] = Reviewed(<<s, v>>)
<1> DEFINE n == Len(versions[s])
<1>1. n \in Nat /\ DOMAIN versions[s] = 1 .. n
  BY DEF TypeOK
<1>2. versions'[s] = [v \in 1 .. n |-> Reviewed(<<s, v>>)]
  BY <1>1 DEF CommitReview
<1>3. \A v \in 1 .. n : <<s, v>> \in Ids /\ Reviewed(<<s, v>>) \in Row
  BY RecordIsTyped, ReviewedFacts
<1>4. versions'[s] \in Seq(Row) /\ Len(versions'[s]) = n
  BY <1>1, <1>2, <1>3
<1> QED
  BY <1>1, <1>2, <1>3, <1>4

LEMMA CommittedPass ==
  ASSUME TypeOK, CommitPass, NEW s \in Slug
  PROVE  versions'[s] = Written(s, pass[s]) /\ Len(versions'[s]) <= MaxVersions
BY DEF CommitPass

-----------------------------------------------------------------------------
(* The types.                                                              *)

LEMMA WriteIsTyped ==
  ASSUME TypeOK, NEW s \in Slug
  PROVE  Write(s, offered[s]) \in Writing /\ Nothing(s) \in Writing
<1>1. offered[s] \in Offer /\ Len(versions[s]) \in 0 .. MaxVersions
  BY RegistryConstants DEF TypeOK
<1> QED
  BY <1>1 DEF Write, Nothing, Writing

\* A review reads records there are.
LEMMA ReviewBegins ==
  ASSUME TypeOK, NEW decision \in {"approved", "rejected"}, NEW ids \in SUBSET Ids,
         BeginReview(decision, ids)
  PROVE  /\ UNCHANGED <<versions, offered, pass, tradeable>>
         /\ review = NoReview
         /\ review'.decision = decision
         /\ DOMAIN review'.loaded = ids
         /\ \A id \in ids : /\ review'.loaded[id] \in [status : Status, case : Case]
                            /\ review'.loaded[id].status = Record(id).status
                            /\ review'.loaded[id].case = Record(id).case
         /\ raced' = (raced \/ pass # NoPass)
<1>1. \A id \in ids : Record(id).status \in Status /\ Record(id).case \in Case
  BY IdIsTyped DEF Row
<1> QED
  BY <1>1 DEF BeginReview

\* Every way to begin a review is one.
LEMMA ReviewBeginnings ==
  ASSUME TypeOK, NEW s \in Slug, BeginApprove(s) \/ BeginApproveGroup(s) \/ BeginReject(s)
  PROVE  \E decision \in {"approved", "rejected"}, ids \in SUBSET Ids :
           BeginReview(decision, ids)
<1>1. Exists(s) => <<s, Len(versions[s])>> \in Ids
  BY LatestIsTyped, RecordIsTyped
<1>2. \A fingerprint : Group(fingerprint) \subseteq Ids
  BY DEF Group
<1>3. CASE BeginApprove(s)
  BY <1>1, <1>3 DEF BeginApprove
<1>4. CASE BeginApproveGroup(s)
  BY <1>2, <1>4 DEF BeginApproveGroup
<1>5. CASE BeginReject(s)
  BY <1>1, <1>5 DEF BeginReject
<1> QED
  BY <1>3, <1>4, <1>5

-----------------------------------------------------------------------------
(* The steps that leave the records alone.                                 *)

LEMMA InitInv == Init => Inv
<1> SUFFICES ASSUME Init PROVE Inv
  OBVIOUS
<1>1. \A s \in Slug : versions[s] = <<>> /\ Len(versions[s]) = 0 /\ versions[s] \in Seq(Row)
  BY EmptySeq DEF Init
<1>2. Ids = {}
  BY <1>1 DEF Ids, Id
<1>3. TypeOK
  <2>1. review.decision = "none" /\ review.loaded = << >>
    BY DEF Init, NoReview
  <2>2. \A id \in DOMAIN review.loaded :
           id \in Ids /\ review.loaded[id] \in [status : Status, case : Case]
    BY <2>1
  <2>3. \A s \in Slug : versions[s] \in Seq(Row) /\ Len(versions[s]) <= MaxVersions
    <3>1. \A n : n = 0 => n <= MaxVersions
      BY RegistryConstants
    <3>2. \A s \in Slug : Len(versions[s]) <= MaxVersions
      BY <1>1, <3>1, Zenon
    <3> QED
      BY <1>1, <3>2, Zenon
  <2>4. offered \in [Slug -> Offer] /\ pass = NoPass /\ tradeable = {} /\ raced = FALSE
    BY DEF Init
  <2> QED
    BY <2>1, <2>2, <2>3, <2>4 DEF TypeOK
<1> QED
  BY <1>1, <1>2, <1>3
  DEF Inv, Init, StatusTells, PendingIsUnsigned, ApprovedIsSigned, PassReads, ReviewReads,
      SignedCaseStays, DraftsDiffer, SupersededIsSuspended

\* What is said of the records alone stays true while they, and raced, do.
LEMMA RecordsUnchanged ==
  ASSUME UNCHANGED versions, raced => raced'
  PROVE  /\ Ids' = Ids
         /\ StatusTells => StatusTells'
         /\ SignedCaseStays => SignedCaseStays'
         /\ DraftsDiffer => DraftsDiffer'
         /\ SupersededIsSuspended => SupersededIsSuspended'
BY DEF Ids, Id, Record, StatusTells, PendingIsUnsigned, ApprovedIsSigned, SignedCaseStays,
       DraftsDiffer, SupersededIsSuspended

LEMMA RelistKeepsInv ==
  ASSUME Inv, NEW s \in Slug, Relist(s)
  PROVE  Inv'
<1>1. UNCHANGED <<versions, pass, review, tradeable, raced>> /\ offered' \in [Slug -> Offer]
  BY DEF Inv, TypeOK, Relist
<1>2. TypeOK' /\ PassReads' /\ ReviewReads'
  BY <1>1 DEF Inv, TypeOK, PassReads, ReviewReads, Ids, Id, Record, Exists, Latest
<1> QED
  BY <1>1, <1>2, RecordsUnchanged DEF Inv

LEMMA BeginPassKeepsInv ==
  ASSUME Inv, BeginPass
  PROVE  Inv'
<1>1. /\ UNCHANGED <<versions, offered, review, tradeable>> /\ raced' = (raced \/ review # NoReview)
      /\ pass = NoPass
  BY DEF BeginPass
<1>2. PICK eligible \in SUBSET Slug :
        pass' = [s \in Slug |-> IF s \in eligible THEN Write(s, offered[s]) ELSE Nothing(s)]
  BY DEF BeginPass
<1>3. pass' \in [Slug -> Writing]
  BY <1>2, WriteIsTyped DEF Inv
<1>4. TypeOK'
  BY <1>1, <1>3 DEF Inv, TypeOK, Ids, Id
<1>5. \A s \in Slug :
        /\ pass'[s].version = Len(versions[s])
        /\ pass'[s].kind \in {"restate", "supersede"} => Exists(s)
        /\ pass'[s].kind \in {"draft", "supersede"} /\ Exists(s)
             => Latest(s).terms # pass'[s].offer.terms
        /\ pass'[s].kind = "restate" => Latest(s).status = "pending"
        /\ pass'[s].kind = "draft" /\ Exists(s) => Latest(s).status # "approved"
  <2> SUFFICES ASSUME NEW s \in Slug
               PROVE  /\ pass'[s].version = Len(versions[s])
                      /\ pass'[s].kind \in {"restate", "supersede"} => Exists(s)
                      /\ pass'[s].kind \in {"draft", "supersede"} /\ Exists(s)
                           => Latest(s).terms # pass'[s].offer.terms
                      /\ pass'[s].kind = "restate" => Latest(s).status = "pending"
                      /\ pass'[s].kind = "draft" /\ Exists(s) => Latest(s).status # "approved"
    OBVIOUS
  <2>1. pass'[s] = Write(s, offered[s]) \/ pass'[s] = Nothing(s)
    BY <1>2
  <2> QED
    BY <2>1 DEF Write, Nothing, Restates, Suspends, Unchanged
<1>6. PassReads'
  BY <1>1, <1>5 DEF PassReads, Exists, Latest
<1>7. ReviewReads'
  BY <1>1 DEF Inv, ReviewReads
<1> QED
  BY <1>1, <1>4, <1>6, <1>7, RecordsUnchanged DEF Inv

LEMMA FailPassKeepsInv ==
  ASSUME Inv, FailPass
  PROVE  Inv'
<1>1. UNCHANGED <<versions, offered, review, tradeable, raced>> /\ pass' = NoPass
  BY DEF FailPass
<1>2. TypeOK' /\ PassReads' /\ ReviewReads'
  BY <1>1 DEF Inv, TypeOK, PassReads, ReviewReads, Ids, Id, Record
<1> QED
  BY <1>1, <1>2, RecordsUnchanged DEF Inv

LEMMA BeginReviewKeepsInv ==
  ASSUME Inv, NEW s \in Slug, BeginApprove(s) \/ BeginApproveGroup(s) \/ BeginReject(s)
  PROVE  Inv'
<1>1. PICK decision \in {"approved", "rejected"}, ids \in SUBSET Ids :
        BeginReview(decision, ids)
  BY ReviewBeginnings DEF Inv
<1>2. /\ UNCHANGED <<versions, offered, pass, tradeable>> /\ review = NoReview
      /\ review'.decision = decision /\ DOMAIN review'.loaded = ids
      /\ raced' = (raced \/ pass # NoPass)
      /\ \A id \in ids : /\ review'.loaded[id] \in [status : Status, case : Case]
                         /\ review'.loaded[id].status = Record(id).status
                         /\ review'.loaded[id].case = Record(id).case
  BY <1>1, ReviewBegins DEF Inv
<1>3. Ids' = Ids /\ \A id \in Ids : Record(id)' = Record(id)
  BY <1>2 DEF Ids, Id, Record
<1>4. TypeOK'
  BY <1>2, <1>3 DEF Inv, TypeOK
<1>5. PassReads' /\ ReviewReads'
  BY <1>2, <1>3 DEF Inv, PassReads, ReviewReads, Exists, Latest
<1> QED
  BY <1>2, <1>4, <1>5, RecordsUnchanged DEF Inv

LEMMA CycleKeepsInv ==
  ASSUME Inv, Cycle
  PROVE  Inv'
<1>1. /\ UNCHANGED <<versions, offered, pass, review, raced>>
      /\ tradeable' \subseteq {id \in Ids : MayTrade(id)}
  BY DEF Cycle
<1>2. Ids' = Ids /\ \A id \in Ids : Record(id)' = Record(id)
  BY <1>1 DEF Ids, Id, Record
<1>3. TypeOK' /\ PassReads' /\ ReviewReads'
  BY <1>1 DEF Inv, TypeOK, PassReads, ReviewReads, Ids, Id, Record, Exists, Latest
<1> QED
  BY <1>1, <1>2, <1>3, RecordsUnchanged DEF Inv

-----------------------------------------------------------------------------
(* The steps that write the records.                                       *)

LEMMA CommitReviewKeepsInv ==
  ASSUME Inv, CommitReview
  PROVE  Inv'
<1> USE DEF Inv
<1>1. /\ UNCHANGED <<offered, pass, tradeable, raced>>
      /\ review # NoReview /\ review' = NoReview
  BY DEF CommitReview
<1>2. \A s \in Slug : versions'[s] \in Seq(Row) /\ Len(versions'[s]) = Len(versions[s])
  BY CommittedReview
<1>3. Ids' = Ids
  BY <1>2 DEF Ids, Id, TypeOK
<1>4. \A id \in Ids : Record(id)' = Reviewed(id)
  BY CommittedReview, IdIsTyped DEF Record
<1>5. TypeOK'
  <2>1. DOMAIN review'.loaded = {} /\ review'.decision = "none"
    BY <1>1 DEF NoReview
  <2> QED
    BY <1>1, <1>2, <2>1 DEF TypeOK
<1>6. \A s \in Slug : (Exists(s)' <=> Exists(s)) /\ (Exists(s) => Latest(s)'.terms = Latest(s).terms)
  <2> TAKE s \in Slug
  <2>1. Exists(s)' <=> Exists(s)
    BY <1>2, EmptySeq DEF Exists, TypeOK
  <2>2. ASSUME Exists(s) PROVE Latest(s)'.terms = Latest(s).terms
    <3>1. Len(versions[s]) \in 1 .. Len(versions[s])
      BY <2>2, LatestIsTyped
    <3>2. /\ Latest(s)' = Reviewed(<<s, Len(versions[s])>>)
          /\ <<s, Len(versions[s])>> \in Ids
      BY <1>2, <3>1, CommittedReview DEF Latest
    <3> QED
      BY <3>1, <3>2, ReviewedFacts, RecordIsTyped DEF Latest
  <2> QED
    BY <2>1, <2>2
\* Had there been a pass under way, raced would say so.
<1>7. PassReads' /\ ReviewReads'
  BY <1>1, <1>6, <1>2 DEF PassReads, ReviewReads
<1>8. ApprovedIsSigned'
  BY <1>3, <1>4, ReviewedFacts DEF StatusTells, ApprovedIsSigned, StatusAfter
<1>9. PendingIsUnsigned'
  BY <1>1, <1>3, <1>4, ReviewedFacts
  DEF StatusTells, PendingIsUnsigned, ReviewReads, StatusAfter
<1>10. SignedCaseStays'
  BY <1>1, <1>3, <1>4, ReviewedFacts DEF SignedCaseStays, ReviewReads
<1>11. DraftsDiffer'
  <2> SUFFICES ASSUME NEW s \in Slug, NEW v \in 2 .. Len(versions[s])
               PROVE  versions'[s][v].terms # versions'[s][v - 1].terms
    BY <1>2 DEF DraftsDiffer
  <2>1. v \in 1 .. Len(versions[s]) /\ v - 1 \in 1 .. Len(versions[s])
    BY DEF TypeOK
  <2>2. \A u \in 1 .. Len(versions[s]) : versions'[s][u].terms = versions[s][u].terms
    BY CommittedReview, RecordIsTyped, ReviewedFacts
  <2> QED
    BY <2>1, <2>2 DEF DraftsDiffer
<1>12. SupersededIsSuspended'
  <2> SUFFICES ASSUME ~raced, NEW s \in Slug, NEW v \in 1 .. Len(versions[s]) - 1,
                      versions'[s][v].status = "approved"
               PROVE  versions'[s][v].late
    BY <1>1, <1>2 DEF SupersededIsSuspended
  <2>1. v \in 1 .. Len(versions[s]) /\ v < Len(versions[s])
    BY DEF TypeOK
  <2>2. /\ <<s, v>> \in Ids /\ Record(<<s, v>>) = versions[s][v]
        /\ versions'[s][v] = Reviewed(<<s, v>>)
    BY <2>1, CommittedReview, RecordIsTyped
  <2>3. CASE <<s, v>> \in DOMAIN review.loaded /\ review.decision = "approved"
    BY <2>1, <2>2, <2>3, ReviewedFacts
  <2>4. CASE <<s, v>> \in DOMAIN review.loaded /\ review.decision # "approved"
    BY <1>1, <2>1, <2>2, <2>4, ReviewedFacts DEF StatusAfter, SupersededIsSuspended
  <2>5. CASE <<s, v>> \notin DOMAIN review.loaded
    BY <2>1, <2>2, <2>5, ReviewedFacts DEF SupersededIsSuspended
  <2> QED
    BY <2>3, <2>4, <2>5
<1> QED
  BY <1>1, <1>3, <1>5, <1>7, <1>8, <1>9, <1>10, <1>11, <1>12 DEF StatusTells

LEMMA CommitPassKeepsInv ==
  ASSUME Inv, CommitPass
  PROVE  Inv'
<1> USE DEF Inv
<1>1. /\ UNCHANGED <<offered, review, tradeable, raced>>
      /\ pass # NoPass /\ pass' = NoPass
  BY DEF CommitPass
<1>2. \A s \in Slug :
        /\ versions'[s] = Written(s, pass[s])
        /\ Len(versions[s]) \in Nat
        /\ versions'[s] \in Seq(Row) /\ Len(versions'[s]) <= MaxVersions
        /\ Len(versions'[s]) \in {Len(versions[s]), Len(versions[s]) + 1}
  BY <1>1, CommittedPass, WrittenFacts DEF TypeOK
<1>3. Ids \subseteq Ids'
  <2> SUFFICES ASSUME NEW id \in Ids PROVE id[2] \in DOMAIN versions'[id[1]]
    BY DEF Ids, Id
  <2> QED
    BY <1>2, IdIsTyped
\* A record that was there: what a commit may have done to it.
<1>4. \A id \in Ids :
        /\ Record(id)'.terms = Record(id).terms
        /\ Record(id)'.signed = Record(id).signed
        /\ Record(id)'.case = Record(id).case
             \/ (id[2] = Len(versions[id[1]]) /\ pass[id[1]].kind = "restate")
        /\ Record(id)'.status = Record(id).status \/ Record(id)'.status = "suspended"
  <2> TAKE id \in Ids
  <2> DEFINE s == id[1]
             v == id[2]
  <2>1. s \in Slug /\ v \in 1 .. Len(versions[s])
    BY IdIsTyped
  <2>2. Record(id) = versions[s][v] /\ Record(id)' = Written(s, pass[s])[v]
    BY <1>2, <2>1 DEF Record
  <2> HIDE DEF s, v
  <2>3. /\ Written(s, pass[s])[v].terms = versions[s][v].terms
        /\ Written(s, pass[s])[v].signed = versions[s][v].signed
        /\ Written(s, pass[s])[v].case = versions[s][v].case
             \/ (v = Len(versions[s]) /\ pass[s].kind = "restate")
        /\ \/ Written(s, pass[s])[v].status = versions[s][v].status
           \/ Written(s, pass[s])[v].status = "suspended"
    BY <1>1, <1>2, <2>1, WrittenFacts
  <2> QED
    BY <2>2, <2>3 DEF s, v
\* A record that was not: a draft of other terms than the latest had.
<1>5. \A id \in Ids' : id \notin Ids =>
        Record(id)'.status = "pending" /\ Record(id)'.signed = NoCase
  <2> SUFFICES ASSUME NEW id \in Ids', id \notin Ids
               PROVE  Record(id)'.status = "pending" /\ Record(id)'.signed = NoCase
    OBVIOUS
  <2>1. id[1] \in Slug /\ id[2] \in 1 .. Len(versions'[id[1]]) /\ id \in Id
    BY <1>2 DEF Ids, Id
  <2>2. id[2] \notin 1 .. Len(versions[id[1]])
    BY <2>1 DEF Ids, TypeOK
  <2>3. id[2] = Len(versions[id[1]]) + 1 /\ Len(versions'[id[1]]) = Len(versions[id[1]]) + 1
    BY <1>2, <2>1, <2>2
  <2>4. Record(id)' = Draft(pass[id[1]].offer)
    BY SMTT(20), <1>1, <1>2, <2>1, <2>3, WrittenFacts DEF Record
  <2>5. pass[id[1]].offer \in Offer
    BY <1>1, <2>1 DEF TypeOK, Writing
  <2> QED
    BY <2>4, <2>5, DraftIsTyped
<1>6. TypeOK'
  BY <1>1, <1>2, <1>3 DEF TypeOK
<1>7. PassReads' /\ ReviewReads'
  BY <1>1 DEF PassReads, ReviewReads
<1>8. ApprovedIsSigned'
  BY <1>4, <1>5 DEF StatusTells, ApprovedIsSigned
<1>9. PendingIsUnsigned'
  BY <1>1, <1>4, <1>5 DEF StatusTells, PendingIsUnsigned
\* What a pass restates is a draft nobody has signed.
<1>10. SignedCaseStays'
  <2> SUFFICES ASSUME ~raced, NEW id \in Ids, Record(id).signed # NoCase,
                      id[2] = Len(versions[id[1]]), pass[id[1]].kind = "restate"
               PROVE  FALSE
    BY <1>1, <1>4, <1>5 DEF SignedCaseStays
  <2>1. id[1] \in Slug /\ Exists(id[1])
    BY <1>1, IdIsTyped DEF PassReads
  <2>2. Record(id) = Latest(id[1]) /\ Latest(id[1]).status = "pending"
    BY <1>1, <2>1 DEF PassReads, Record, Latest
  <2> QED
    BY <2>2 DEF StatusTells, PendingIsUnsigned
<1>11. DraftsDiffer'
  <2> SUFFICES ASSUME NEW s \in Slug, NEW v \in 2 .. Len(versions'[s])
               PROVE  versions'[s][v].terms # versions'[s][v - 1].terms
    BY DEF DraftsDiffer
  <2> DEFINE n == Len(versions[s])
  <2>1. \A u \in 1 .. n : versions'[s][u].terms = versions[s][u].terms
    BY <1>1, <1>2, WrittenFacts
  <2>2. CASE v <= n
    BY <1>2, <2>1, <2>2 DEF DraftsDiffer
  <2>3. CASE v > n
    <3>1. v = n + 1 /\ Len(versions'[s]) = n + 1 /\ n \in 1 .. n
      BY <1>2, <2>3
    <3>2. versions'[s][v] = Draft(pass[s].offer) /\ pass[s].kind \in {"draft", "supersede"}
      BY <1>1, <1>2, <3>1, WrittenFacts
    <3>3. pass[s].offer \in Offer /\ Exists(s)
      BY <1>1, <3>1, EmptySeq DEF TypeOK, Writing, Exists
    <3> QED
      BY <1>1, <2>1, <3>1, <3>2, <3>3, DraftIsTyped DEF PassReads, Latest
  <2> QED
    BY <1>2, <2>2, <2>3
<1>12. SupersededIsSuspended'
  <2> SUFFICES ASSUME ~raced, NEW s \in Slug, NEW v \in 1 .. Len(versions'[s]) - 1,
                      versions'[s][v].status = "approved"
               PROVE  versions'[s][v].late
    BY <1>1 DEF SupersededIsSuspended
  <2> DEFINE n == Len(versions[s])
  <2>1. v \in 1 .. n
    BY <1>2
  <2>2. versions'[s][v].late = versions[s][v].late /\ versions[s][v].status = "approved"
    BY <1>1, <1>2, <2>1, WrittenFacts
  <2>3. CASE v < n
    BY <2>1, <2>2, <2>3 DEF SupersededIsSuspended, TypeOK
  \* The latest was approved: had a draft been added, the pass would have suspended it.
  <2>4. CASE v = n
    <3>1. Len(versions'[s]) = n + 1
      BY <1>2, <2>4
    <3>2. pass[s].kind \in {"draft", "supersede"}
      <4>1. TypeOK /\ PassReads /\ pass # NoPass /\ Len(versions[s]) \in Nat
        BY <1>1, <1>2
      <4>2. versions'[s] = Written(s, pass[s]) /\ Len(versions'[s]) = Len(versions[s]) + 1
        BY <1>2, <3>1
      <4> QED
        BY ONLY <4>1, <4>2, WrittenFacts
    <3>3. Exists(s) /\ Latest(s).status = "approved"
      BY <1>2, <2>1, <2>2, <2>4, EmptySeq DEF Exists, Latest
    <3>4. pass[s].kind = "supersede"
      BY <1>1, <3>2, <3>3 DEF PassReads
    <3> QED
      BY <1>1, <1>2, <2>1, <2>4, <3>4, WrittenFacts
  <2> QED
    BY <1>2, <2>1, <2>3, <2>4
<1>13. tradeable' \subseteq Ids'
  BY <1>1, <1>3, <1>4
<1> QED
  BY <1>6, <1>7, <1>8, <1>9, <1>10, <1>11, <1>12, <1>13 DEF StatusTells

-----------------------------------------------------------------------------
(* The theorems.                                                           *)

\* The inductive invariant: what a pass and a review have read is still so, unless they
\* overlapped, and a record's status tells whether it is signed.
THEOREM Invariance == Spec => []Inv
<1>1. Inv /\ [Next]_vars => Inv'
  <2> SUFFICES ASSUME Inv, [Next]_vars PROVE Inv'
    OBVIOUS
  <2>1. ASSUME NEW s \in Slug,
               Relist(s) \/ BeginApprove(s) \/ BeginApproveGroup(s) \/ BeginReject(s)
        PROVE  Inv'
    BY <2>1, RelistKeepsInv, BeginReviewKeepsInv
  <2>2. CASE BeginPass \/ CommitPass \/ FailPass
    BY <2>2, BeginPassKeepsInv, CommitPassKeepsInv, FailPassKeepsInv
  <2>3. CASE CommitReview \/ Cycle
    BY <2>3, CommitReviewKeepsInv, CycleKeepsInv
  <2>4. CASE UNCHANGED vars
    <3>1. UNCHANGED <<versions, offered, pass, review, tradeable, raced>>
      BY <2>4 DEF vars
    <3> QED
      BY <3>1
      DEF Inv, TypeOK, Ids, Id, Record, Exists, Latest, StatusTells, PendingIsUnsigned,
          ApprovedIsSigned, PassReads, ReviewReads, SignedCaseStays, DraftsDiffer,
          SupersededIsSuspended
  <2> QED
    BY <2>1, <2>2, <2>3, <2>4 DEF Next
<1> QED
  BY InitInv, <1>1, PTL DEF Spec

\* Every variable has the shape the code gives it (registry/, detector/live.py).
THEOREM TypeCorrect == Spec => []TypeOK
BY Invariance, PTL DEF Inv

\* What a reviewer signed for is never rewritten by a later pass (proposal.py:345-347),
\* unless a pass and a review overlap.
THEOREM SignedCasesStay == Spec => []SignedCaseStays
BY Invariance, PTL DEF Inv

\* A pass over what has not changed drafts nothing (proposal.py:25-29).
THEOREM DraftsAreDifferent == Spec => []DraftsDiffer
BY Invariance, PTL DEF Inv

\* A version both superseded and approved was approved late (proposal.py:353-359), unless a
\* pass and a review overlap.
THEOREM SupersededAreSuspended == Spec => []SupersededIsSuspended
BY Invariance, PTL DEF Inv
=============================================================================
