--------------------------- MODULE Scroller_proofs ---------------------------
(***************************************************************************)
(* Proofs about Scroller for every text, every size of the window and any   *)
(* number of handlers at a time.                                            *)
(***************************************************************************)
EXTENDS Scroller, FiniteSetTheorems, TLAPS

LEMMA TextFinite == IsFiniteSet(Lines \X (0 .. MaxLength))
<1>1. Lines = 1 .. Len(Text) /\ Len(Text) \in Nat
  BY TextAssumption DEF Lines
<1>2. IsFiniteSet(1 .. Len(Text)) /\ IsFiniteSet(0 .. MaxLength)
  BY <1>1, FS_Interval, TextAssumption
<1>3. QED BY <1>1, <1>2, FS_Product

\* There are as many items as can be counted.
LEMMA SizeType ==
  ASSUME items \in SUBSET (Lines \X (0 .. MaxLength))
  PROVE  Size \in Nat
BY TextFinite, FS_Subset, FS_CardinalityType DEF Size

LEMMA TypeInit == Init => TypeOK
<1> SUFFICES ASSUME Init PROVE TypeOK
  OBVIOUS
<1>1. textHeight \in Int /\ textWidth \in Int
  BY SizeAssumption DEF Init, optionsListHeight, borderSize
<1>2. handler \in [Handlers -> Events \cup {Free, Render}]
  BY DEF Init
<1>3. items \in SUBSET (Lines \X (0 .. MaxLength)) /\ index \in Int
  BY DEF Init
<1>4. /\ pressed \in SUBSET {"y", "n"} /\ accepted \in BOOLEAN /\ stop \in BOOLEAN
      /\ status \in {"new", "shown", "crashed", "hung", "done"}
  BY DEF Init
<1>5. QED BY <1>1, <1>2, <1>3, <1>4 DEF TypeOK

LEMMA TypeNext == TypeOK /\ [Next]_vars => TypeOK'
<1> SUFFICES ASSUME TypeOK, [Next]_vars PROVE TypeOK'
  OBVIOUS
<1> USE DEF TypeOK
<1>1. Size \in Nat BY SizeType
<1>2. CASE Show
  BY <1>2 DEF Show, Wrapped, answer
<1>3. CASE LoopEnds BY <1>3 DEF LoopEnds, scroller, answer
<1>4. ASSUME NEW g \in Handlers, Event(g) PROVE TypeOK'
  <2>1. PICK e \in Events : /\ handler' = [handler EXCEPT ![g] = e]
                            /\ pressed' = pressed \cup ({e.event} \cap {"y", "n"})
    BY <1>4 DEF Event
  <2>2. QED BY <1>4, <2>1 DEF Event, scroller
<1>5. ASSUME NEW g \in Handlers, Answer(g) PROVE TypeOK'
  BY <1>5 DEF Answer, Answers, scroller
<1>6. ASSUME NEW g \in Handlers, ScrollHandler(g) PROVE TypeOK'
  <2>1. index' \in Int
    BY <1>1, <1>6 DEF ScrollHandler, Scroll, ScrollDown, ScrollUp, PageDown, PageUp, Home, End,
                      MaxIndex, Least
  <2>2. QED BY <1>6, <2>1 DEF ScrollHandler, answer
<1>7. ASSUME NEW g \in Handlers, ResizeHandler(g) PROVE TypeOK'
  <2>1. handler[g] \in [event : {"resize"}, height : Heights, width : Widths]
    BY <1>7 DEF ResizeHandler, Events, Free, Render, Keys, Scrolls
  <2>2. textHeight' \in Int /\ textWidth' \in Int
    BY <1>7, <2>1, SizeAssumption DEF ResizeHandler, optionsListHeight, borderSize
  <2>3. /\ items' \in SUBSET (Lines \X (0 .. MaxLength))
        /\ status' \in {"shown", "hung", "crashed"}
    BY <1>7 DEF ResizeHandler, SetText, Wrapped
  <2>4. index' = 0 BY <1>7 DEF ResizeHandler, SetText, Reset
  <2>5. QED BY <1>7, <2>2, <2>3, <2>4 DEF ResizeHandler, answer
<1>8. ASSUME NEW g \in Handlers, RenderHandler(g) PROVE TypeOK'
  BY <1>8 DEF RenderHandler, scroller, answer
<1>9. CASE UNCHANGED vars BY <1>9 DEF vars, scroller, answer
<1>10. QED BY <1>2, <1>3, <1>4, <1>5, <1>6, <1>7, <1>8, <1>9 DEF Next

\* The position is a number and the items are pieces of the text, whatever the
\* handlers of termui do to the scroller in whatever order.
THEOREM TypeCorrect == Spec => []TypeOK
BY TypeInit, TypeNext, PTL DEF Spec

-----------------------------------------------------------------------------

\* The position never passes the one at which the last item is the last one
\* shown, so that there is nothing to render out of range.
Placed == textHeight >= 0 => 0 <= index /\ index <= MaxIndex

BoundsInv == /\ TypeOK
             /\ Placed
             /\ status = "new" => index = 0
             /\ status \in {"crashed", "hung"} => TooSmall

LEMMA PlacedInRange ==
  ASSUME TypeOK, Placed, textHeight >= 0
  PROVE  InRange /\ index <= Size
<1>1. Size \in Nat BY SizeType DEF TypeOK
<1>2. QED BY <1>1 DEF TypeOK, Placed, InRange, First, Last, Least, MaxIndex

\* At its start the text is in place in a window of any size.
LEMMA StartPlaced == TypeOK /\ index = 0 => Placed
BY SizeType DEF TypeOK, Placed, MaxIndex

LEMMA BoundsInit == Init => BoundsInv
<1> SUFFICES ASSUME Init PROVE BoundsInv
  OBVIOUS
<1>1. TypeOK BY TypeInit
<1>2. index = 0 /\ status = "new" BY DEF Init
<1>3. Placed BY <1>1, <1>2, StartPlaced
<1>4. QED BY <1>1, <1>2, <1>3 DEF BoundsInv

LEMMA ScrollPlaced ==
  ASSUME TypeOK, Placed, NEW key, Scroll(key), UNCHANGED <<textHeight, items>>
  PROVE  Placed'
<1>1. Size \in Nat /\ Size' = Size BY SizeType DEF TypeOK, Size
<1>2. QED BY <1>1 DEF TypeOK, Placed, Scroll, ScrollDown, ScrollUp, PageDown, PageUp, Home, End,
                      MaxIndex, Least

LEMMA BoundsNext == BoundsInv /\ [Next]_vars => BoundsInv'
<1> SUFFICES ASSUME BoundsInv, [Next]_vars PROVE BoundsInv'
  OBVIOUS
<1>1. TypeOK /\ Placed BY DEF BoundsInv
<1>2. TypeOK' BY <1>1, TypeNext
<1>3. ASSUME UNCHANGED scroller PROVE Placed'
  BY <1>1, <1>3 DEF Placed, scroller, MaxIndex, Size
<1>4. CASE Show
  <2>1. index' = 0 BY <1>4 DEF BoundsInv, Show
  <2>2. Placed'
    <3>1. Size' \in Nat BY <1>2, TextFinite, FS_Subset, FS_CardinalityType DEF TypeOK, Size
    <3>2. textHeight' \in Int BY <1>2 DEF TypeOK
    <3>3. QED BY <2>1, <3>1, <3>2, SMT DEF Placed, MaxIndex, Size
  <2>3. status' \in {"crashed", "hung"} => TooSmall'
    BY <1>1, <1>4 DEF Show, TooSmall, Step, TypeOK
  <2>4. QED BY <1>2, <1>4, <2>2, <2>3 DEF BoundsInv, Show
<1>5. CASE LoopEnds
  <2>1. Placed' BY <1>3, <1>5 DEF LoopEnds
  <2>2. QED BY <1>2, <1>5, <2>1 DEF BoundsInv, LoopEnds
<1>6. ASSUME NEW g \in Handlers, Event(g) \/ Answer(g) PROVE BoundsInv'
  <2>1. UNCHANGED scroller /\ status' = "shown"
    BY <1>6 DEF Event, Answer
  <2>2. QED BY <1>2, <1>3, <2>1 DEF BoundsInv
<1>7. ASSUME NEW g \in Handlers, ScrollHandler(g) PROVE BoundsInv'
  <2>1. Placed' BY <1>1, <1>7, ScrollPlaced DEF ScrollHandler
  <2>2. QED BY <1>2, <1>7, <2>1 DEF BoundsInv, ScrollHandler
<1>8. ASSUME NEW g \in Handlers, ResizeHandler(g) PROVE BoundsInv'
  <2>1. index' = 0 BY <1>8 DEF ResizeHandler, SetText, Reset
  <2>2. Placed'
    <3>1. Size' \in Nat BY <1>2, TextFinite, FS_Subset, FS_CardinalityType DEF TypeOK, Size
    <3>2. textHeight' \in Int BY <1>2 DEF TypeOK
    <3>3. QED BY <2>1, <3>1, <3>2, SMT DEF Placed, MaxIndex, Size
  <2>3. status' \in {"crashed", "hung"} => TooSmall'
    BY <1>2, <1>8 DEF ResizeHandler, SetText, TooSmall, Step, TypeOK
  <2>4. status' # "new" BY <1>8 DEF ResizeHandler, SetText
  <2>5. QED BY <1>2, <2>2, <2>3, <2>4 DEF BoundsInv
<1>9. ASSUME NEW g \in Handlers, RenderHandler(g) PROVE BoundsInv'
  <2>1. Placed' BY <1>3, <1>9 DEF RenderHandler
  <2>2. status' = "crashed" => TooSmall'
    <3>1. textHeight >= 0 => InRange BY <1>1, PlacedInRange
    <3>2. QED BY <1>1, <1>9, <3>1 DEF RenderHandler, TooSmall, TypeOK, scroller
  <2>3. status' \in {"shown", "crashed"} BY <1>9 DEF RenderHandler
  <2>4. QED BY <1>2, <2>1, <2>2, <2>3 DEF BoundsInv
<1>10. CASE UNCHANGED vars
  <2>1. Placed' BY <1>3, <1>10 DEF vars
  <2>2. QED BY <1>2, <1>10, <2>1 DEF BoundsInv, TooSmall, vars, scroller
<1>11. QED BY <1>4, <1>5, <1>6, <1>7, <1>8, <1>9, <1>10 DEF Next

\* Between the change a handler makes and its render others may change the
\* scroller again, and still the items to show are there: the program crashes
\* or hangs only in a window with no room for the list.
THEOREM StaysInBounds == Spec => []InBounds
<1>1. BoundsInv => InBounds
  BY PlacedInRange DEF BoundsInv, InBounds, Placed
<1>2. QED BY <1>1, BoundsInit, BoundsNext, PTL DEF Spec

-----------------------------------------------------------------------------

\* An answer is on its way from the key that gave it.
AnswerInv == /\ \A g \in Handlers : handler[g].event \in {"y", "n"} => handler[g].event \in pressed
             /\ accepted => "y" \in pressed
             /\ stop /\ ~accepted => "n" \in pressed
             /\ status = "done" => stop

LEMMA AnswerInit == Init => AnswerInv
BY DEF Init, AnswerInv, Free

LEMMA AnswerNext == TypeOK /\ AnswerInv /\ [Next]_vars => AnswerInv'
<1> SUFFICES ASSUME TypeOK, AnswerInv, [Next]_vars PROVE AnswerInv'
  OBVIOUS
<1> USE DEF AnswerInv, answer, Free, Render
<1>1. handler \in [Handlers -> Events \cup {Free, Render}] BY DEF TypeOK
<1>2. CASE Show BY <1>2 DEF Show
<1>3. CASE LoopEnds BY <1>3 DEF LoopEnds
<1>4. ASSUME NEW g \in Handlers, Event(g) PROVE AnswerInv'
  <2>1. PICK e \in Events : /\ handler' = [handler EXCEPT ![g] = e]
                            /\ pressed' = pressed \cup ({e.event} \cap {"y", "n"})
    BY <1>4 DEF Event
  <2>2. QED BY <1>1, <1>4, <2>1 DEF Event
<1>5. ASSUME NEW g \in Handlers, Answer(g) PROVE AnswerInv'
  <2>1. \/ handler[g].event = "y" /\ accepted' = TRUE
        \/ handler[g].event = "n" /\ UNCHANGED accepted
    BY <1>5 DEF Answer, Answers
  <2>2. QED BY <1>1, <1>5, <2>1 DEF Answer
<1>6. ASSUME NEW g \in Handlers, ScrollHandler(g) PROVE AnswerInv'
  BY <1>1, <1>6 DEF ScrollHandler
<1>7. ASSUME NEW g \in Handlers, ResizeHandler(g) PROVE AnswerInv'
  BY <1>1, <1>7 DEF ResizeHandler, SetText
<1>8. ASSUME NEW g \in Handlers, RenderHandler(g) PROVE AnswerInv'
  BY <1>1, <1>8 DEF RenderHandler
<1>9. CASE UNCHANGED vars BY <1>9 DEF vars
<1>10. QED BY <1>2, <1>3, <1>4, <1>5, <1>6, <1>7, <1>8, <1>9 DEF Next

\* The EULA is accepted only if y was pressed and declined only if n was,
\* whichever of several handlers comes first.
THEOREM AnswerCorrect == Spec => []AnswerWasGiven
<1>1. AnswerInv => AnswerWasGiven BY DEF AnswerInv, AnswerWasGiven
<1>2. QED BY <1>1, TypeInit, TypeNext, AnswerInit, AnswerNext, PTL DEF Spec
-----------------------------------------------------------------------------
(* Wrapping.  A line is cut at the multiples of a width the prover does not    *)
(* know, so what division by it means is spelled out first.                 *)

\* The first character of the piece of width s that character c is in.
PieceOf(c, s) == c - (c % s)

LEMMA Division ==
  ASSUME NEW c \in Nat, NEW s \in Nat \ {0}
  PROVE  (c % s) \in 0 .. s - 1 /\ c \div s \in Nat /\ c = s * (c \div s) + (c % s)
<1>1. (c % s) \in 0 .. s - 1 OBVIOUS
<1>2. c \div s \in Nat OBVIOUS
<1>3. c = s * (c \div s) + (c % s) OBVIOUS
<1>4. QED BY <1>1, <1>2, <1>3

LEMMA PieceFound ==
  ASSUME NEW c \in Nat, NEW s \in Nat \ {0}
  PROVE  /\ PieceOf(c, s) \in 0 .. c
         /\ (PieceOf(c, s) % s) = 0
         /\ c < PieceOf(c, s) + s
<1>1. (c % s) \in 0 .. s - 1 /\ c \div s \in Nat /\ c = s * (c \div s) + (c % s) BY Division
<1>2. PieceOf(c, s) = s * (c \div s) BY <1>1 DEF PieceOf
<1>3. PieceOf(c, s) >= 0 /\ PieceOf(c, s) <= c /\ c < PieceOf(c, s) + s
  <2>1. s * (c \div s) \in Nat BY <1>1
  <2>2. QED BY <1>1, <1>2, <2>1 DEF PieceOf
<1>4. (PieceOf(c, s) % s) = 0
  <2>1. ASSUME NEW d \in Nat PROVE (s * d) % s = 0 OBVIOUS
  <2>2. QED BY <1>1, <1>2, <2>1
<1>5. PieceOf(c, s) \in Int BY <1>1 DEF PieceOf
<1>6. QED BY <1>3, <1>4, <1>5

LEMMA PieceUnique ==
  ASSUME NEW c \in Nat, NEW s \in Nat \ {0}, NEW k \in Nat, (k % s) = 0, k <= c, c < k + s
  PROVE  k = PieceOf(c, s)
<1>1. (c % s) \in 0 .. s - 1 /\ c \div s \in Nat /\ c = s * (c \div s) + (c % s) BY Division
<1>2. k \div s \in Nat /\ k = s * (k \div s) BY SMT
<1>3. k \div s = c \div s
  <2>1. ASSUME NEW a \in Nat, NEW b \in Nat, a < b PROVE s * a + s <= s * b
    <3>1. b = a + 1 + (b - a - 1) /\ b - a - 1 \in Nat BY <2>1
    <3>2. ASSUME NEW e \in Nat PROVE s * a + s <= s * (a + 1 + e) OBVIOUS
    <3>3. QED BY <3>1, <3>2
  <2>2. s * (k \div s) \in Nat /\ s * (c \div s) \in Nat BY <1>1, <1>2
  <2>3. ~(k \div s < c \div s)
    <3>1. SUFFICES ASSUME k \div s < c \div s PROVE FALSE OBVIOUS
    <3>2. s * (k \div s) + s <= s * (c \div s) BY <1>1, <1>2, <2>1, <3>1
    <3>3. k + s <= c BY <1>1, <1>2, <2>2, <3>2
    <3>4. QED BY <3>3
  <2>4. ~(c \div s < k \div s)
    <3>1. SUFFICES ASSUME c \div s < k \div s PROVE FALSE OBVIOUS
    <3>2. s * (c \div s) + s <= s * (k \div s) BY <1>1, <1>2, <2>1, <3>1
    <3>3. QED BY <1>1, <1>2, <2>2, <3>2
  <2>5. QED BY <1>1, <1>2, <2>3, <2>4
<1>4. QED BY <1>1, <1>2, <1>3 DEF PieceOf

\* The items are those of the window there is now.
WrapInv == /\ TypeOK
           /\ status = "shown" => /\ items = Wrapped(textWidth)
                                  /\ Empty \/ Step(textWidth) > 0

LEMMA EmptyWraps ==
  ASSUME Empty, NEW width \in Int
  PROVE  Wrapped(width) = {}
BY DEF Empty, Wrapped

LEMMA WrapInit == Init => WrapInv
BY TypeInit DEF Init, WrapInv

LEMMA WrapNext == WrapInv /\ [Next]_vars => WrapInv'
<1> SUFFICES ASSUME WrapInv, [Next]_vars PROVE WrapInv'
  OBVIOUS
<1> USE DEF WrapInv
<1>1. TypeOK /\ TypeOK' BY TypeNext
<1>2. CASE Show
  <2>1. textWidth' = textWidth /\ textWidth \in Int BY <1>1, <1>2 DEF Show, TypeOK
  <2>2. Empty => Wrapped(textWidth) = {} BY <2>1, EmptyWraps
  <2>3. status' = "shown" => items' = Wrapped(textWidth) /\ (Empty \/ Step(textWidth) > 0)
    BY <1>2, <2>2 DEF Show
  <2>4. QED BY <1>1, <2>1, <2>3 DEF Empty, Wrapped, Step, Lines
<1>3. ASSUME UNCHANGED <<textWidth, items>>, status' = status \/ status' # "shown" PROVE WrapInv'
  BY <1>1, <1>3 DEF Empty, Wrapped, Step, Lines
<1>4. ASSUME NEW g \in Handlers, ResizeHandler(g) PROVE WrapInv'
  <2>1. status = "shown" /\ SetText(textWidth') /\ textWidth' \in Int
    BY <1>1, <1>4 DEF ResizeHandler, TypeOK
  <2>2. Empty => Wrapped(textWidth') = {} BY <2>1, EmptyWraps
  <2>3. status' = "shown" => items' = Wrapped(textWidth') /\ (Empty \/ Step(textWidth') > 0)
    BY <2>1, <2>2 DEF SetText
  <2>4. QED BY <1>1, <2>3 DEF Empty, Wrapped, Step, Lines
<1>5. ASSUME NEW g \in Handlers, Event(g) \/ Answer(g) \/ ScrollHandler(g) \/ RenderHandler(g) PROVE WrapInv'
  BY <1>3, <1>5 DEF Event, Answer, ScrollHandler, RenderHandler, scroller
<1>6. CASE LoopEnds BY <1>3, <1>6 DEF LoopEnds, scroller
<1>7. CASE UNCHANGED vars BY <1>3, <1>7 DEF vars, scroller
<1>8. QED BY <1>2, <1>4, <1>5, <1>6, <1>7 DEF Next

\* Every text, every line, every character and every width.
LEMMA WrapShows ==
  ASSUME WrapInv, status = "shown", NEW l \in Lines, NEW c \in 0 .. Text[l] - 1
  PROVE  Cardinality({item \in items : /\ item[1] = l /\ item[2] <= c
                                       /\ c < item[2] + Shown(textWidth)}) = 1
<1> DEFINE s == Step(textWidth)
           k == PieceOf(c, s)
           There == {item \in items : item[1] = l /\ item[2] <= c /\ c < item[2] + Shown(textWidth)}
<1>1. Text[l] \in 0 .. MaxLength /\ MaxLength \in Nat BY TextAssumption DEF Lines
<1>2. c \in Nat /\ c < Text[l] BY <1>1
<1>3. s \in Nat \ {0} /\ Shown(textWidth) = s
  <2>1. ~Empty BY <1>1, <1>2 DEF Empty
  <2>2. QED BY <2>1 DEF WrapInv, TypeOK, Step, Shown
<1>4. items = {item \in Lines \X (0 .. MaxLength) : item[2] < Text[item[1]] /\ (item[2] % s) = 0}
  BY Zenon DEF WrapInv, Wrapped
<1> HIDE DEF s
<1>5. k \in 0 .. c /\ (k % s) = 0 /\ c < k + s BY <1>2, <1>3, PieceFound
<1> HIDE DEF k
<1>6. <<l, k>> \in There
  <2>1. k \in 0 .. MaxLength /\ k < Text[l] /\ k <= c BY <1>1, <1>2, <1>5
  <2>2. <<l, k>> \in items BY <1>4, <1>5, <2>1
  <2>3. QED BY <1>3, <1>5, <2>1, <2>2
<1>7. ASSUME NEW item \in There PROVE item = <<l, k>>
  <2>1. /\ item \in Lines \X (0 .. MaxLength) /\ item[1] = l /\ item[2] \in Nat
        /\ (item[2] % s) = 0 /\ item[2] <= c /\ c < item[2] + s
    BY <1>1, <1>3, <1>4, <1>7
  <2>2. item[2] = k BY <1>2, <1>3, <2>1, PieceUnique DEF k
  <2>3. QED BY <2>1, <2>2
<1>8. There = {<<l, k>>} BY <1>6, <1>7
<1>9. QED BY <1>8, FS_Singleton

(* For every text and every window, whatever the handlers of termui do to the  *)
(* scroller in whatever order, what is shown holds every character of every    *)
(* line once, in items that fit between the borders.                         *)
THEOREM WholeTextCorrect == Spec => []WholeText
<1>1. WrapInv => WholeText
  <2>1. SUFFICES ASSUME WrapInv, status = "shown" PROVE WholeText
    BY DEF WholeText
  <2>2. 1 + Shown(textWidth) <= textWidth BY <2>1 DEF WrapInv, TypeOK, Shown
  <2>3. QED BY <2>1, <2>2, WrapShows DEF WholeText
<1>2. QED BY <1>1, WrapInit, WrapNext, PTL DEF Spec
=============================================================================
