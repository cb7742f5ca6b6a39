------------------------------ MODULE BookStream ------------------------------
(***************************************************************************)
(* The book of one market rebuilt from the venue's numbered messages:      *)
(* marketdata/reconstruct.py, over the tracker of sequence.py and the book *)
(* of book.py.                                                             *)
(*                                                                         *)
(* Any message the venue has sent on the current subscription is delivered *)
(* at any time, again, late or never.  The venue may start its numbering   *)
(* over with a new subscription, of which nothing tells the reconstructor. *)
(* The labels of the outcomes and the counters are left out.               *)
(***************************************************************************)
EXTENDS Integers, Sequences, Functions

CONSTANTS
  Level,          (* (side, price) pairs: what a quantity rests at           *)
  Window,         (* sequence.DUPLICATE_WINDOW                              *)
  MaxQuantity,    (* bound on what rests at a level                         *)
  MaxNumber,      (* bound on the messages of a subscription                *)
  MaxRestarts     (* bound on new subscriptions                             *)

ASSUME StreamConstants ==
  /\ Window \in Nat \ {0}
  /\ MaxQuantity \in Nat /\ MaxNumber \in Nat /\ MaxRestarts \in Nat

VARIABLES
  sent,         (* the subscription's messages; a message's number is its place *)
  restarts,
  last,         (* SequenceTracker.last_sequence; 0 for None                *)
  recent,       (* SequenceTracker._recent                                  *)
  levels,       (* OrderBook._sides; an absent price holds 0                *)
  sequence,     (* OrderBook._sequence; 0 for None                          *)
  complete,     (* OrderBook._complete                                      *)
  mirror,       (* history: the venue's book at the last message applied    *)
  numbering,    (* history: the subscription the tracker's number is of     *)
  heard,        (* history: the highest number of a delta with a possible price
                   delivered to the complete book since its snapshot        *)
  confused      (* history: since the last snapshot applied, a message was taken
                   for one of an earlier subscription                        *)

tracker == <<last, recent>>
book == <<levels, sequence, complete>>
streamVars == <<sent, restarts, tracker, book, mirror, numbering, heard, confused>>

Book == [Level -> 0 .. MaxQuantity]
Nothing == [l \in Level |-> 0]

\* A message, with the venue's book after it.  An impossible one names a price outside
\* the open interval from 0 to 1, whatever the venue did.
Message ==
  [kind : {"snapshot"}, impossible : BOOLEAN, book : Book]
    \cup [kind : {"delta"}, level : Level, change : Int, impossible : BOOLEAN, book : Book]

StreamInit ==
  /\ sent = <<>>
  /\ restarts = 0
  /\ last = 0 /\ recent = <<>>
  /\ levels = Nothing /\ sequence = 0 /\ complete = FALSE
  /\ mirror = Nothing
  /\ numbering = 0
  /\ heard = 0
  /\ confused = FALSE

-----------------------------------------------------------------------------
(* The venue.                                                              *)

Send(m) ==
  /\ sent' = Append(sent, m)
  /\ UNCHANGED <<restarts, tracker, book, mirror, numbering, heard, confused>>

\* A subscription opens with a snapshot, and may repeat it.
SendSnapshot ==
  /\ Len(sent) < MaxNumber
  /\ \E b \in Book, impossible \in BOOLEAN :
       /\ sent # <<>> => b = sent[Len(sent)].book
       /\ Send([kind |-> "snapshot", impossible |-> impossible, book |-> b])

SendDelta ==
  /\ sent # <<>> /\ Len(sent) < MaxNumber
  /\ \E l \in Level, q \in 0 .. MaxQuantity, impossible \in BOOLEAN :
       LET before == sent[Len(sent)].book IN
         Send([kind |-> "delta", level |-> l, change |-> q - before[l],
               impossible |-> impossible, book |-> [before EXCEPT ![l] = q]])

\* The connection is lost, and what it still carried.
Resubscribe ==
  /\ restarts < MaxRestarts
  /\ restarts' = restarts + 1
  /\ sent' = <<>>
  /\ UNCHANGED <<tracker, book, mirror, numbering, heard, confused>>

-----------------------------------------------------------------------------
(* SequenceTracker.                                                        *)

First == last = 0
Duplicate(n) == ~First /\ n \in Range(recent)
InOrder(n) == ~First /\ ~Duplicate(n) /\ n = last + 1
Gap(n) == ~First /\ ~Duplicate(n) /\ n > last + 1
Rewind(n) == ~First /\ ~Duplicate(n) /\ n < last + 1

Invalidates(n) == Gap(n) \/ Rewind(n)

\* SequenceTracker._remember.
Remember(n) ==
  recent' = Append(IF Len(recent) = Window THEN Tail(recent) ELSE recent, n)

\* SequenceTracker.reset.
Reset(n) == last' = n /\ recent' = <<n>>

\* What observe does with a number that is no duplicate.
Observe(n) ==
  /\ IF Rewind(n) THEN Reset(n) ELSE last' = n /\ Remember(n)
  /\ numbering' = restarts

-----------------------------------------------------------------------------
(* BookReconstructor._apply on message n, by verdict and kind.             *)

Takes(n) ==
  /\ confused' = (confused \/ (numbering # restarts /\ (Duplicate(n) \/ InOrder(n))))
  /\ heard' = IF ~complete' THEN 0
              ELSE IF sent[n].kind = "delta" /\ ~sent[n].impossible /\ n > heard THEN n ELSE heard

Discard(n) ==
  /\ Duplicate(n)
  /\ UNCHANGED <<tracker, book, mirror, numbering>>
  /\ Takes(n)

IsSnapshot(n) == ~Duplicate(n) /\ sent[n].kind = "snapshot"
IsDelta(n) == ~Duplicate(n) /\ sent[n].kind = "delta"

ApplySnapshot(n) ==
  /\ IsSnapshot(n) /\ ~sent[n].impossible
  /\ levels' = sent[n].book /\ sequence' = n /\ complete' = TRUE
  /\ Reset(n)
  /\ mirror' = sent[n].book
  /\ numbering' = restarts
  /\ heard' = 0
  /\ confused' = FALSE

RejectSnapshot(n) ==
  /\ IsSnapshot(n) /\ sent[n].impossible
  /\ complete' = FALSE
  /\ Observe(n) /\ Takes(n)
  /\ UNCHANGED <<levels, sequence, mirror>>

LoseTrack(n) ==
  /\ IsDelta(n) /\ Invalidates(n)
  /\ complete' = FALSE
  /\ Observe(n) /\ Takes(n)
  /\ UNCHANGED <<levels, sequence, mirror>>

DropDelta(n) ==
  /\ IsDelta(n) /\ ~Invalidates(n) /\ ~complete
  /\ UNCHANGED <<book, mirror>>
  /\ Observe(n) /\ Takes(n)

\* OrderBook.apply_delta.
FollowsAnything(n) == TRUE   \* mutant: the book trusts the tracker with the number
Follows(n) == n = sequence + 1
Updated(n) == levels[sent[n].level] + sent[n].change

\* Mutant: what is rejected leaves the book as it was.
RejectDeltaOnly(n) ==
  /\ UNCHANGED <<book, mirror>>
  /\ Observe(n) /\ Takes(n)

\* A number that does not follow and a level that would go negative invalidate the book;
\* an impossible price does not.
RejectDelta(n) ==
  /\ complete' = (Follows(n) /\ sent[n].impossible)
  /\ Observe(n) /\ Takes(n)
  /\ UNCHANGED <<levels, sequence, mirror>>

UpdateLevel(n) ==
  /\ levels' = [levels EXCEPT ![sent[n].level] = Updated(n)]
  /\ sequence' = n
  /\ mirror' = sent[n].book
  /\ UNCHANGED complete
  /\ Observe(n) /\ Takes(n)

Accepts(n) == Follows(n) /\ ~sent[n].impossible /\ Updated(n) >= 0

ApplyDelta(n) ==
  /\ IsDelta(n) /\ ~Invalidates(n) /\ complete
  /\ IF Accepts(n) THEN UpdateLevel(n) ELSE RejectDelta(n)

Deliver(n) ==
  /\ \/ Discard(n) \/ ApplySnapshot(n) \/ RejectSnapshot(n)
     \/ LoseTrack(n) \/ DropDelta(n) \/ ApplyDelta(n)
  /\ UNCHANGED <<sent, restarts>>

StreamNext ==
  \/ SendSnapshot \/ SendDelta \/ Resubscribe
  \/ \E n \in DOMAIN sent : Deliver(n)

StreamSpec == StreamInit /\ [][StreamNext]_streamVars

-----------------------------------------------------------------------------

\* Every variable has the shape the code gives it.
StreamTypeOK ==
  /\ sent \in Seq(Message)
  /\ restarts \in Nat
  /\ last \in Nat
  /\ recent \in Seq(Nat) /\ Len(recent) <= Window
  /\ levels \in [Level -> Nat]
  /\ sequence \in Nat
  /\ complete \in BOOLEAN
  /\ mirror \in Book
  /\ numbering \in Nat
  /\ heard \in Nat
  /\ confused \in BOOLEAN

\* A complete book is the venue's book as of the number it carries, whatever was lost,
\* repeated or late, as long as no message passed for one of an earlier subscription
\* (book.py:67-77).
Faithful == complete /\ ~confused => levels = mirror

\* A complete book has taken every change it was told of since its snapshot: a delta that
\* was discarded, rejected or came out of order is in it already, or it is not complete
\* (reconstruct.py:102-143).  A delta rejected for its price is not a change that could be
\* taken; and a snapshot may be an old one, so what counts is what came after it.
NothingHeardIsMissing == complete /\ ~confused => heard <= sequence

-----------------------------------------------------------------------------
(* What a docstring says of the code, and the code does not do.            *)

\* "False [...] after any integrity failure" (book.py:73-75).  But the price is validated
\* without invalidating (book.py:122), after the tracker has taken the number.
NoFailureStaysComplete == complete => last = sequence

=============================================================================
