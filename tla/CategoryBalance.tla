---------------------------- MODULE CategoryBalance ----------------------------
(* The balanced choice among the offers of several categories                 *)
(* (marketplace-discovery, multi-category.ts): limits from settings that may  *)
(* be invalid, pools by primary category, and two rounds of taking turns, up  *)
(* to each category's minimum and then its maximum.                           *)
EXTENDS Integers, Sequences, FiniteSets, FiniteSetsExt, Functions

CONSTANTS BalanceInputs,     \* [settings, candidates, minimum, maximum, total, backfill]
          NoSetting          \* a setting that is not given

(* Settings are integers, or not given; two candidates have different ranks.  *)
ASSUME BalanceAssumption ==
  \A b \in BalanceInputs :
    /\ b.total \in Nat \ {0} /\ b.backfill \in BOOLEAN
    /\ {b.minimum, b.maximum} \subseteq Int \cup {NoSetting}
    /\ b.settings \in Seq({b.settings[i] : i \in DOMAIN b.settings})
    /\ \A i \in DOMAIN b.settings :
         /\ b.settings[i].enabled \in BOOLEAN /\ b.settings[i].priority \in Int
         /\ {b.settings[i].minimum, b.settings[i].maximum} \subseteq Int \cup {NoSetting}
         /\ \A j \in DOMAIN b.settings : b.settings[i].category = b.settings[j].category => i = j
    /\ IsFiniteSet(DOMAIN b.candidates)
    /\ \A o \in DOMAIN b.candidates :
         /\ b.candidates[o].rank \in Int /\ b.candidates[o].eligible \in BOOLEAN
         /\ \A q \in DOMAIN b.candidates : b.candidates[o].rank = b.candidates[q].rank => o = q

VARIABLES input,             \* settings and candidates of a run, read only
          round              \* [pc, turn, progress, cursor, chosen]

balanceVars == <<input, round>>

(* integerSetting: a value that is absent or out of range gives the fallback. *)
Given(value, fallback, low, high) ==
  IF value = NoSetting \/ value < low \/ value > high THEN fallback ELSE value

(* The configuration: a maximum below the minimum is raised to it.            *)
ConfigMinimum == Given(input.minimum, 1, 0, 2)
ConfigMaximum ==
  LET asked == Given(input.maximum, 2, 1, 10)
  IN  IF asked < ConfigMinimum THEN Max({1, ConfigMinimum}) ELSE asked

(* The members of a set in an order, of which upTo[x] are those up to x.      *)
Ordered(S, upTo) == [k \in 1 .. Cardinality(S) |-> CHOOSE x \in S : Cardinality(upTo[x]) = k]

(* The categories in the order of their turns: by priority, then as listed.   *)
Opened == {i \in DOMAIN input.settings : input.settings[i].enabled}
NotAfter(i) ==
  {j \in Opened : \/ input.settings[j].priority > input.settings[i].priority
                  \/ input.settings[j].priority = input.settings[i].priority /\ j <= i}
Turns ==
  LET order == Ordered(Opened, [i \in Opened |-> NotAfter(i)])
  IN  [n \in 1 .. Cardinality(Opened) |-> input.settings[order[n]]]

Maximum(s) == Given(s.maximum, ConfigMaximum, 1, 10)
Minimum(s) == Min({Given(s.minimum, ConfigMinimum, 0, ConfigMaximum), Maximum(s)})

(* An offer is in the pool of the first of its categories; the pool is in the *)
(* order of score, place, discount, completeness and id, here one number.     *)
PrimaryOf(o) ==
  LET turns == Turns
      mine == {n \in DOMAIN turns : turns[n].category \in input.candidates[o].origins}
  IN  IF mine = {} THEN 0 ELSE Min(mine)

MembersOf(n) == {o \in DOMAIN input.candidates : input.candidates[o].eligible /\ PrimaryOf(o) = n}
NoWorse(n, o) == {q \in MembersOf(n) : input.candidates[q].rank <= input.candidates[o].rank}
Pool(n) == Ordered(MembersOf(n), [o \in MembersOf(n) |-> NoWorse(n, o)])

ChosenOf(n) == {i \in DOMAIN round.chosen : PrimaryOf(round.chosen[i]) = n}

BalanceInit ==
  /\ input \in BalanceInputs
  /\ round = [pc |-> "minimum", turn |-> 1, progress |-> FALSE, chosen |-> <<>>,
              cursor |-> [n \in 1 .. Len(input.settings) |-> 1]]

-----------------------------------------------------------------------------
TurnLimit(n) == IF round.pc = "minimum" THEN Minimum(Turns[n]) ELSE Maximum(Turns[n])
Full == Len(round.chosen) >= input.total

(* Mutant of MayTake: one more than the limit.                                *)
MayTakeOneMore(n) == Cardinality(ChosenOf(n)) <= TurnLimit(n)

MayTake(n) == Cardinality(ChosenOf(n)) < TurnLimit(n)

(* A category's turn: it takes the next offer of its pool, if it may.         *)
TakeTurn ==
  /\ round.pc \in {"minimum", "maximum"} /\ ~Full /\ round.turn <= Len(Turns)
  /\ LET n == round.turn
         pool == Pool(n)
         next == round.cursor[n]
     IN  round' =
           IF ~MayTake(n) THEN [round EXCEPT !.turn = @ + 1]
           ELSE IF next > Len(pool) THEN [round EXCEPT !.turn = @ + 1, !.cursor[n] = @ + 1]
           ELSE [round EXCEPT !.turn = @ + 1, !.cursor[n] = @ + 1, !.progress = TRUE,
                              !.chosen = Append(@, pool[next])]
  /\ UNCHANGED input

(* After the last turn, or when the session is full: another round if someone *)
(* took an offer; after the minimum, the maximum if every minimum is met or   *)
(* backfill is allowed.                                                       *)
EndRound ==
  /\ round.pc \in {"minimum", "maximum"} /\ (Full \/ round.turn > Len(Turns))
  /\ LET met == \A n \in DOMAIN Turns : Cardinality(ChosenOf(n)) >= Minimum(Turns[n])
         next == CASE round.progress /\ ~Full -> round.pc
                   [] round.pc = "minimum" /\ ~(round.progress /\ ~Full) /\ (met \/ input.backfill) -> "maximum"
                   [] OTHER -> "done"
     IN  round' = [round EXCEPT !.pc = next, !.turn = 1, !.progress = FALSE]
  /\ UNCHANGED input

BalanceNext == TakeTurn \/ EndRound

BalanceSpec == BalanceInit /\ [][BalanceNext]_balanceVars
-----------------------------------------------------------------------------
BalanceTypeOK ==
  /\ round.pc \in {"minimum", "maximum", "done"}
  /\ round.turn \in 1 .. Len(Turns) + 1
  /\ \A i \in DOMAIN round.chosen : input.candidates[round.chosen[i]].eligible
  /\ \A n \in DOMAIN Turns : round.cursor[n] >= 1

(* The choice says what multi-category discovery promises: no offer twice, no *)
(* category above its maximum and no session above its total; each category   *)
(* gives its best; nobody is above a minimum while another could still give   *)
(* for its own, or is below it without backfill; offers are missing only      *)
(* where a limit or an empty pool is the reason; and categories take turns:   *)
(* for the minimum, and then above what it gave, one is ahead of another only *)
(* by a turn or because the other has nothing more to give.                   *)
SelectionIsBalanced ==
  round.pc = "done" =>
    LET count(n) == Cardinality(ChosenOf(n))
        base(n) == Min({Minimum(Turns[n]), Len(Pool(n))})
        top(n) == Min({Maximum(Turns[n]), Len(Pool(n))})
        fill == input.backfill \/ \A n \in DOMAIN Turns : count(n) >= Minimum(Turns[n])
    IN  /\ IsInjective(round.chosen) /\ Len(round.chosen) <= input.total
        /\ \A n \in DOMAIN Turns :
             /\ count(n) <= IF fill THEN top(n) ELSE base(n)
             /\ {round.chosen[i] : i \in ChosenOf(n)} = {Pool(n)[i] : i \in 1 .. count(n)}
             /\ ~Full => count(n) = IF fill THEN top(n) ELSE base(n)
        /\ \A n, k \in DOMAIN Turns :
             /\ count(n) > base(n) => count(k) >= base(k)
             /\ count(k) < base(k) => count(n) <= count(k) + 1
             /\ count(n) > base(n) /\ count(k) < top(k) => count(n) + base(k) <= count(k) + base(n) + 1
=============================================================================
