--------------------------- MODULE MCCoinSelection ---------------------------
(* Instances of CoinSelection for TLC: a few kinds of outputs, with amounts *)
(* around the point where a transaction of two inputs is funded.            *)
EXTENDS CoinSelection

(* Fee of a transaction with two inputs and a change output, at rate 1. *)
FeeOfTwo == estimate_size(2, << [value |-> 0, to |-> "runestone"],
                                [value |-> 0, to |-> "wallet"],
                                [value |-> 0, to |-> "receiver"] >>, TRUE)

Out(sat, runes) ==
    [sat |-> sat, runes |-> runes, otherRunes |-> FALSE, change |-> TRUE,
     confirmations |-> 3, witnessScript |-> TRUE, indexed |-> TRUE]

RuneKinds ==
    {Out(10000, 1), Out(10000, 2),
     [Out(10000, 2) EXCEPT !.change = FALSE, !.confirmations = 1],
     [Out(10000, 1) EXCEPT !.change = FALSE, !.otherRunes = TRUE, !.confirmations = 2],
     [Out(10000, 0) EXCEPT !.otherRunes = TRUE]}

FeeKinds ==
    {Out(10000 + FeeOfTwo, 0),          \* exactly enough with one rune output
     Out(10000 + FeeOfTwo + 999, 0),    \* leaves dust
     Out(10000 + FeeOfTwo + 1000, 0),   \* leaves the least change
     Out(600, 0)}                       \* not worth its input at a high rate

OddKinds ==
    {[Out(30000, 2) EXCEPT !.indexed = FALSE, !.confirmations = 1],
     [Out(30000, 0) EXCEPT !.witnessScript = FALSE]}

MCKind == RuneKinds \cup FeeKinds \cup OddKinds
=============================================================================
