----------------------------- MODULE SplitEditor -----------------------------
(***************************************************************************)
(* The side tab that splits a transaction into parts                       *)
(* (SplitTransactionTab.tsx, AllocationBar.tsx).  Amounts are magnitudes;  *)
(* fields hold them as text, which shows nothing for less than a rouble,   *)
(* so such a part reads as 0.  The ledger behind the tab stays in use: the *)
(* amount of the transaction may change under the draft.                   *)
(***************************************************************************)
EXTENDS Integers, Sequences, Functions, SequencesExt, FiniteSetsExt, Absent

CONSTANTS
    Totals,     \* amounts the transaction may have
    Rouble,     \* the least amount a field shows
    Typed,      \* amounts typed; 0 stands for nothing, or not a number
    MaxParts,   \* bound: parts of a draft
    MaxStrokes  \* bound: changes to a draft

ASSUME SplitEditorAssumption ==
    /\ Totals \subseteq Nat \ {0, 1} /\ Rouble \in Nat \ {0}
    /\ Typed \subseteq Nat /\ MaxParts \in Nat /\ MaxStrokes \in Nat
    /\ None \notin Seq(Nat)

VARIABLES
    total,      \* amount of the transaction
    parts,      \* the draft: amount of each part and whether it has a category
    lastValid,  \* lastValidAllocation, or None
    sentParts,  \* what was last sent to be saved, or None
    typing,     \* ghost: the field that alone was typed in since the draft was
                \* fully assigned, 0 if none was, -1 after anything else
    strokes     \* ghost: changes so far

splitVars == <<total, parts, lastValid, sentParts, typing, strokes>>

-----------------------------------------------------------------------------
AmountsOf(draft) == [n \in DOMAIN draft |-> draft[n].amount]
SumSeq(amounts) == SumFunction(amounts)

\* amountInput, and parseRub of what it shows
AsTyped(amount) == IF amount < Rouble THEN 0 ELSE amount

\* allocationValid
FullyAssigned(amounts, sum) ==
    SumSeq(amounts) = sum /\ \A n \in DOMAIN amounts : amounts[n] # 0

EvenAmounts(sum, count) ==
    LET base == sum \div count IN
    [n \in 1 .. count |-> IF n = count THEN sum - base * (count - 1) ELSE base]

WithAmounts(draft, amounts) ==
    [n \in DOMAIN draft |->
        [draft[n] EXCEPT !.amount = IF n \in DOMAIN amounts THEN AsTyped(amounts[n]) ELSE 0]]

BarAmounts == IF lastValid # None THEN lastValid ELSE EvenAmounts(total, Len(parts))

BlankPart == [amount |-> 0, filed |-> FALSE]

\* What is rendered next: a draft that is fully assigned is remembered.
Drafted(draft, sum, field) ==
    LET amounts == AmountsOf(draft)
        done    == FullyAssigned(amounts, sum)
    IN  /\ strokes < MaxStrokes /\ strokes' = strokes + 1
        /\ total' = sum /\ parts' = draft
        /\ lastValid' = IF done THEN amounts ELSE lastValid
        /\ typing' = IF field # 0 /\ (typing = field \/ FullyAssigned(AmountsOf(parts), total)) THEN field
                     ELSE IF done THEN 0 ELSE -1
        /\ UNCHANGED sentParts

\* Mutant of Basis: the fields as they are.
BasisOfDraft == AmountsOf(parts)

\* What a typed amount is weighed against.
Basis == IF lastValid # None THEN lastValid ELSE AmountsOf(parts)

At(amounts, n) == IF n \in DOMAIN amounts THEN amounts[n] ELSE 0

\* The part that takes the difference.
Recipient(i) == IF i = Len(parts) THEN i - 1 ELSE Len(parts)

\* changeAmount: another part takes the difference, if it can.
ChangeAmount(i, amount) ==
    LET rest == At(Basis, Recipient(i)) - (amount - At(Basis, i)) IN
    Drafted([n \in DOMAIN parts |->
                IF n = i THEN [parts[n] EXCEPT !.amount = amount]
                ELSE IF n = Recipient(i) /\ amount # 0 /\ rest > 0
                THEN [parts[n] EXCEPT !.amount = AsTyped(rest)]
                ELSE parts[n]], total, i)

ChooseCategory(i) ==
    /\ ~parts[i].filed
    /\ Drafted([parts EXCEPT ![i].filed = TRUE], total, 0)

SplitEvenly == Drafted(WithAmounts(parts, EvenAmounts(total, Len(parts))), total, 0)

AddPart ==
    /\ Len(parts) < MaxParts
    /\ LET more == Append(parts, BlankPart) IN
       Drafted(WithAmounts(more, EvenAmounts(total, Len(more))), total, 0)

\* removePart: the part that takes its place takes its amount.
RemovePart(i) ==
    /\ Len(parts) > 2
    /\ LET next == RemoveAt(parts, i)
           heir == Min({i, Len(next)})
       IN  Drafted([next EXCEPT ![heir].amount = AsTyped(@ + parts[i].amount)], total, 0)

\* moveBoundary, changeAllocations: the bar may show more parts, or fewer, than
\* the draft has.
MoveBoundary(i, value) ==
    LET upTo(n)  == IF n = 0 THEN 0 ELSE SumSeq(SubSeq(BarAmounts, 1, n))
        next     == IF i = Len(BarAmounts) - 1 THEN total ELSE upTo(i + 1)
        boundary == Max({upTo(i - 1) + 1, Min({next - 1, value})})
    IN  Drafted(WithAmounts(parts, [BarAmounts EXCEPT ![i] = boundary - upTo(i - 1),
                                                      ![i + 1] = next - boundary]), total, 0)

\* The amount of the row is edited in the ledger, or a reload brings another.
AmountChanges(sum) == sum # total /\ Drafted(parts, sum, 0)

\* save: offered when every part has a category and an amount.
Save ==
    /\ FullyAssigned(AmountsOf(parts), total) /\ \A n \in DOMAIN parts : parts[n].filed
    /\ sentParts' = AmountsOf(parts)
    /\ UNCHANGED <<total, parts, lastValid, typing, strokes>>

SplitInit ==
    /\ total \in Totals
    /\ parts = WithAmounts(<<BlankPart, BlankPart>>, EvenAmounts(total, 2))
    /\ lastValid = IF FullyAssigned(AmountsOf(parts), total) THEN AmountsOf(parts) ELSE None
    /\ sentParts = None /\ strokes = 0
    /\ typing = IF FullyAssigned(AmountsOf(parts), total) THEN 0 ELSE -1

SplitNext ==
    \/ \E i \in DOMAIN parts :
          \/ \E amount \in Typed : ChangeAmount(i, amount)
          \/ ChooseCategory(i)
          \/ RemovePart(i)
    \/ \E i \in 1 .. Len(BarAmounts) - 1, value \in 1 .. total - 1 : MoveBoundary(i, value)
    \/ SplitEvenly
    \/ AddPart
    \/ \E sum \in Totals : AmountChanges(sum)
    \/ Save

SplitSpec == SplitInit /\ [][SplitNext]_splitVars

-----------------------------------------------------------------------------
\* However an amount is typed, through whatever the field holds on the way, the
\* draft is fully assigned again as soon as what is typed and what it leaves to
\* the part that takes the difference can both be shown (changeAmount,
\* lastValidAllocation).
TypingKeepsTheSum ==
    typing \in DOMAIN parts =>
        LET others == SumSeq(AmountsOf(parts)) - parts[typing].amount - parts[Recipient(typing)].amount
            rest   == total - others - parts[typing].amount
        IN  parts[typing].amount >= Rouble /\ rest >= Rouble => FullyAssigned(AmountsOf(parts), total)
=============================================================================
