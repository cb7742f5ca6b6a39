------------------------------- MODULE Registry -------------------------------
(***************************************************************************)
(* The relationship registry (registry/service.py), the proposals that     *)
(* draft into it (registry/proposal.py), the commands that run them        *)
(* (cli._relationships), and what the live detector marks tradeable        *)
(* (detector/live.py).                                                     *)
(*                                                                         *)
(* A proposal pass and a review are each one database session: records are *)
(* loaded, then what was decided on them is written and committed, under   *)
(* READ COMMITTED, where an UPDATE sets what differs from the row as       *)
(* loaded, whatever has become of it.  Of two passes that draft one slug   *)
(* the later fails on its unique version, so there is one pass at a time;  *)
(* and one reviewer.                                                       *)
(*                                                                         *)
(* The leg tickers and terms hashes of a relationship are one value, its   *)
(* terms, and its payout_proof another, its case.  A record has its place  *)
(* in its slug's sequence for a version.                                   *)
(***************************************************************************)
EXTENDS Integers, Sequences

CONSTANTS
  Slug,          (* relationships, by the event each is about               *)
  Offer,         (* what the venue may list of an event: its terms and the case
                    made of them                                            *)
  Fingerprint,   (* of each case: what of it a reviewer reads               *)
  MaxVersions    (* bound on the versions of a slug                         *)

Case == {o.case : o \in Offer}
Terms == {o.terms : o \in Offer}

NoCase == "no case"

ASSUME RegistryConstants ==
  /\ Offer \subseteq [terms : Terms, case : Case]
  /\ NoCase \notin Case
  /\ DOMAIN Fingerprint = Case
  /\ MaxVersions \in Nat

NoPass == <<>>
NoReview == [decision |-> "none", loaded |-> <<>>]

VARIABLES
  versions,    (* of each slug, its records in order                         *)
  offered,     (* what the venue lists of each event now                     *)
  pass,        (* what the proposal pass under way will write, by slug       *)
  review,      (* the review under way: its decision, and the records it is of,
                  status and case, as loaded                                 *)
  tradeable,   (* records the last cycle marked tradeable                    *)
  raced        (* history: a pass and a review were once under way together  *)

vars == <<versions, offered, pass, review, tradeable, raced>>

Id == Slug \X (1 .. MaxVersions)
Ids == {id \in Id : id[2] \in DOMAIN versions[id[1]]}
Record(id) == versions[id[1]][id[2]]
Latest(s) == versions[s][Len(versions[s])]

Init ==
  /\ versions = [s \in Slug |-> <<>>]
  /\ offered \in [Slug -> Offer]
  /\ pass = NoPass
  /\ review = NoReview
  /\ tradeable = {}
  /\ raced = FALSE

\* The venue changes an event's terms, or only what is said about them.
Relist(s) ==
  /\ \E o \in Offer : offered' = [offered EXCEPT ![s] = o]
  /\ UNCHANGED <<versions, pass, review, tradeable, raced>>

-----------------------------------------------------------------------------
(* propose_from_events.                                                    *)

\* RelationshipRegistry.draft.  signed and late are history: the case the record was last
\* approved on, and whether it was no longer its slug's latest by then.
Draft(o) ==
  [terms |-> o.terms, case |-> o.case, status |-> "pending", signed |-> NoCase, late |-> FALSE]

Exists(s) == versions[s] # <<>>

\* Mutant: the case is compared as well.
UnchangedToTheLetter(s, o) == Exists(s) /\ Latest(s).terms = o.terms /\ Latest(s).case = o.case

Unchanged(s, o) == Exists(s) /\ Latest(s).terms = o.terms

\* Mutant: the case of a record nobody withdrew is kept up to date.
RestatesStanding(s, o) ==
  Unchanged(s, o) /\ Latest(s).status # "retired" /\ Latest(s).case # o.case

Restates(s, o) == Unchanged(s, o) /\ Latest(s).status = "pending" /\ Latest(s).case # o.case

NeverSuspends(s, o) == FALSE   \* mutant: a new draft does not suspend the old approval
Suspends(s, o) == Exists(s) /\ ~Unchanged(s, o) /\ Latest(s).status = "approved"

Write(s, o) ==
  [ offer |-> o, version |-> Len(versions[s]),
    kind |-> IF Restates(s, o) THEN "restate"
             ELSE IF Unchanged(s, o) THEN "nothing"
             ELSE IF Suspends(s, o) THEN "supersede" ELSE "draft" ]

Nothing(s) == [offer |-> offered[s], version |-> Len(versions[s]), kind |-> "nothing"]

\* The events are fetched, those that are structurally eligible looked up.
BeginPass ==
  /\ pass = NoPass
  /\ \E eligible \in SUBSET Slug :
       pass' = [s \in Slug |-> IF s \in eligible THEN Write(s, offered[s]) ELSE Nothing(s)]
  /\ raced' = (raced \/ review # NoReview)
  /\ UNCHANGED <<versions, offered, review, tradeable>>

Written(s, w) ==
  CASE w.kind = "nothing" -> versions[s]
    [] w.kind = "restate" -> [versions[s] EXCEPT ![w.version].case = w.offer.case]
    [] w.kind = "draft" -> Append(versions[s], Draft(w.offer))
    [] w.kind = "supersede" ->
         Append([versions[s] EXCEPT ![w.version].status = "suspended"], Draft(w.offer))

CommitPass ==
  /\ pass # NoPass
  /\ \A s \in Slug : Len(Written(s, pass[s])) <= MaxVersions
  /\ versions' = [s \in Slug |-> Written(s, pass[s])]
  /\ pass' = NoPass
  /\ UNCHANGED <<offered, review, tradeable, raced>>

\* A market that cannot be normalised, or the database: everything is rolled back.
FailPass ==
  /\ pass # NoPass
  /\ pass' = NoPass
  /\ UNCHANGED <<versions, offered, review, tradeable, raced>>

-----------------------------------------------------------------------------
(* The commands of a reviewer.                                             *)

BeginReview(decision, ids) ==
  /\ review = NoReview
  /\ review' = [decision |-> decision,
                loaded |-> [id \in ids |-> [status |-> Record(id).status, case |-> Record(id).case]]]
  /\ raced' = (raced \/ pass # NoPass)
  /\ UNCHANGED <<versions, offered, pass, tradeable>>

\* Approve one event: its latest version.
BeginApprove(s) ==
  /\ Exists(s)
  /\ Latest(s).status # "retired"
  /\ BeginReview("approved", {<<s, Len(versions[s])>>})

\* Approve everything one reading covers (approve_group), through the latest of s.
Group(fingerprint) ==
  {id \in Ids : Record(id).status = "pending" /\ Fingerprint[Record(id).case] = fingerprint}

BeginApproveGroup(s) ==
  /\ Exists(s)
  /\ Group(Fingerprint[Latest(s).case]) # {}
  /\ BeginReview("approved", Group(Fingerprint[Latest(s).case]))

\* RelationshipRegistry.reject, of a pending record: no command calls it.
BeginReject(s) ==
  /\ Exists(s)
  /\ Latest(s).status = "pending"
  /\ BeginReview("rejected", {<<s, Len(versions[s])>>})

StatusAfter(decision) == IF decision = "approved" THEN "approved" ELSE "retired"

Reviewed(id) ==
  LET r == Record(id)
      seen == review.loaded[id]
      status == StatusAfter(review.decision)
      set == IF seen.status = status THEN r ELSE [r EXCEPT !.status = status]
  IN IF id \notin DOMAIN review.loaded THEN r
     ELSE IF review.decision = "approved"
       THEN [set EXCEPT !.signed = seen.case, !.late = id[2] < Len(versions[id[1]])]
     ELSE set

CommitReview ==
  /\ review # NoReview
  /\ versions' = [s \in Slug |-> [v \in DOMAIN versions[s] |-> Reviewed(<<s, v>>)]]
  /\ review' = NoReview
  /\ UNCHANGED <<offered, pass, tradeable, raced>>

-----------------------------------------------------------------------------
(* LiveDetector.evaluate_cycle.                                            *)

MayTrade(id) == Record(id).status = "approved"

\* The books and the edge decide which of them are accepted.
Cycle ==
  /\ tradeable' \in SUBSET {id \in Ids : MayTrade(id)}
  /\ UNCHANGED <<versions, offered, pass, review, raced>>

Next ==
  \/ \E s \in Slug : Relist(s) \/ BeginApprove(s) \/ BeginApproveGroup(s) \/ BeginReject(s)
  \/ BeginPass \/ CommitPass \/ FailPass
  \/ CommitReview
  \/ Cycle

Spec == Init /\ [][Next]_vars

-----------------------------------------------------------------------------

Status == {"pending", "approved", "suspended", "retired"}

Row == [ terms : Terms, case : Case, status : Status, signed : Case \cup {NoCase},
         late : BOOLEAN ]

Writing == [ offer : Offer, version : 0 .. MaxVersions,
             kind : {"nothing", "restate", "draft", "supersede"} ]

\* Every variable has the shape the code gives it.
TypeOK ==
  /\ \A s \in Slug : versions[s] \in Seq(Row) /\ Len(versions[s]) <= MaxVersions
  /\ offered \in [Slug -> Offer]
  /\ pass = NoPass \/ pass \in [Slug -> Writing]
  /\ review.decision \in {"none", "approved", "rejected"}
  /\ \A id \in DOMAIN review.loaded :
       id \in Ids /\ review.loaded[id] \in [status : Status, case : Case]
  /\ tradeable \subseteq Id
  /\ raced \in BOOLEAN

\* What a reviewer signed for is not rewritten afterwards, by whatever passes restate and
\* however the record is suspended, withdrawn or approved again, unless a pass and a
\* review overlap (proposal.py:345-346).
SignedCaseStays ==
  ~raced =>
    \A id \in Ids : Record(id).signed # NoCase => Record(id).case = Record(id).signed

\* Proposing again what has not changed drafts nothing, however its case is worded and
\* whatever was decided on it: no version repeats the terms of the one before
\* (proposal.py:25-29).
DraftsDiffer ==
  \A s \in Slug : \A v \in 2 .. Len(versions[s]) :
    versions[s][v].terms # versions[s][v - 1].terms

\* FR-004: a version is superseded and approved at once only if it was approved late, as
\* one of a group (proposal.py:353-359), unless a pass and a review overlap.
SupersededIsSuspended ==
  ~raced =>
    \A s \in Slug : \A v \in 1 .. Len(versions[s]) - 1 :
      versions[s][v].status = "approved" => versions[s][v].late

-----------------------------------------------------------------------------
(* What a docstring says of the code, and the code does not do.            *)

\* RelationshipRegistry.check_usable.
Usable(id) == Record(id).status = "approved" /\ Record(id).terms = offered[id[1]].terms

\* "If any of them changes, the relationship suspends automatically [...] That check runs
\* on every evaluation rather than on a schedule" (service.py:21-24).  But nothing under
\* src/ calls check_usable.
TradeableIsUsable == [][\A id \in tradeable' \ tradeable : Usable(id)]_vars

=============================================================================
