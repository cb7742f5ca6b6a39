----------------------------- MODULE MCPricing -----------------------------
(* A small instance of Pricing for TLC: a tick is a tenth of a cent, and the  *)
(* number 1 is two units.                                                     *)
EXTENDS Pricing, TLC

CONSTANTS a, b, c, d

Strikes == {0, 2, 4}
Halves == {1, 3}
SomeStrike == Strikes \cup {NoStrike}

Market(ticker, type, floor, cap) ==
  [ticker |-> ticker, type |-> type, floor |-> floor, cap |-> cap, active |-> TRUE]
Less(t, cap) == Market(t, "less", NoStrike, cap)
Between(t, floor, cap) == Market(t, "between", floor, cap)
Greater(t, floor) == Market(t, "greater", floor, NoStrike)
Custom(t) == Market(t, "custom", NoStrike, NoStrike)

Exclusive(markets) == [exclusive |-> TRUE, markets |-> markets]
Closed(market) == [market EXCEPT !.active = FALSE]

(* Every event of two tails and one or two buckets with strikes 0, 1, 2,    *)
(* given or missing, that may or may not tile, and some with strikes at the *)
(* halves; named outcomes; events short *)
(* of a tail, of an outcome or of exclusivity, and one with a settled leg.  *)
MCEvents ==
  {Exclusive(<<Less(a, l), Between(b, f, g), Greater(c, h)>>) :
     l, f, g, h \in SomeStrike}
  \cup {Exclusive(<<Less(a, l), Between(b, f, g), Between(d, x, y), Greater(c, h)>>) :
     l, h, f, g, x, y \in Strikes}
  \cup {Exclusive(<<Less(a, l), Between(b, f, g), Between(d, x, y), Greater(c, h)>>) :
     l, h, f, g, x, y \in Halves}
  \cup {Exclusive(<<Custom(a), Custom(b), Custom(c)>>),
        Exclusive(<<Custom(a), Between(b, 0, 2), Greater(c, 2)>>),
        Exclusive(<<Less(a, 0), Between(b, 0, 2), Between(c, 4, 4)>>),
        Exclusive(<<Less(a, 0), Less(b, 2), Greater(c, 0)>>),
        Exclusive(<<Less(a, 2), Greater(c, 0)>>),
        Exclusive(<<Less(a, 0), Closed(Between(b, 0, 2)), Between(d, 4, 4), Greater(c, 4)>>),
        [exclusive |-> FALSE, markets |-> <<Less(a, 0), Between(b, 0, 2), Greater(c, 2)>>]}

Nothing == [p \in {} |-> 0]
Book(complete, yes, no) == [complete |-> complete, yes |-> yes, no |-> no]

(* Asks of 5, 14 and 68.6 cents, some with a dearer level behind, bids      *)
(* below them; a book with no offers, and one invalidated.                  *)
MCBooks ==
  {Book(TRUE, 40 :> 2, 950 :> 5),
   Book(TRUE, 120 :> 2, 860 :> 1 @@ 701 :> 2),
   Book(TRUE, 660 :> 2 @@ 600 :> 5, 314 :> 2),
   Book(TRUE, 300 :> 1, Nothing),
   Book(FALSE, 120 :> 2, 860 :> 5)}

(* The three states the implication allows, and a table left empty. *)
MCTables ==
  {{[yes |-> {}, payout |-> Dollar, hole |-> FALSE],
    [yes |-> {b}, payout |-> 2 * Dollar, hole |-> FALSE],
    [yes |-> {a, b}, payout |-> Dollar, hole |-> FALSE]}, {}}

\* Whole numbers and halves.
MCValues == -2 .. 6

(* Every quote fresh, or one of them old or of unknown age. *)
Fresh == [t \in {a, b, c, d} |-> 0]
MCAges == {Fresh, [Fresh EXCEPT ![b] = -1], [Fresh EXCEPT ![c] = 3]}
=============================================================================
