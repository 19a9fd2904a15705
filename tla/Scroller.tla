------------------------------ MODULE Scroller ------------------------------
(***************************************************************************)
(* UI.ConfirmText: the text of the EULA in a window that is scrolled and      *)
(* resized until the user accepts or declines.  termui runs the handler of   *)
(* each event in a goroutine of its own; what a handler does with the         *)
(* scroller it does under the scroller's lock, but its calls are two, one    *)
(* that changes the scroller and one that renders it, and those of the others *)
(* may come between them.  A line of the text is given by its length, an item *)
(* of the list by its line and its first character.                          *)
(***************************************************************************)
EXTENDS Integers, Sequences, FiniteSets

CONSTANTS Text,      \* length of each line
          MaxLength, \* length of the longest line
          Heights,   \* of the window
          Widths,
          Handlers   \* goroutines there may be at a time

ASSUME TextAssumption == MaxLength \in Nat /\ Text \in Seq(0 .. MaxLength)
ASSUME SizeAssumption == Heights \subseteq Nat /\ Widths \subseteq Nat

Lines == DOMAIN Text

VARIABLES
  textHeight, textWidth,  \* of the list, without its border
  items,                  \* what setText has made of the text
  index,                  \* items above the first one shown
  handler,                \* the event of each goroutine and where it is
  pressed,                \* keys with an answer that were pressed
  accepted,
  stop,                   \* StopLoop was called
  status                  \* of ConfirmText

scroller == <<textHeight, textWidth, items, index>>
answer   == <<pressed, accepted, stop>>
vars     == <<scroller, handler, answer, status>>

borderSize        == 2
optionsListHeight == 6

Free == [event |-> "none", height |-> 0, width |-> 0]

Scrolls == {"down", "up", "next", "previous", "home", "end"}
Keys    == Scrolls \cup {"y", "n"}
Events  == {[event |-> k, height |-> 0, width |-> 0] : k \in Keys}
             \cup [event : {"resize"}, height : Heights, width : Widths]
Render  == [event |-> "render", height |-> 0, width |-> 0]

TypeOK ==
  /\ textHeight \in Int /\ textWidth \in Int /\ index \in Int
  /\ items \in SUBSET (Lines \X (0 .. MaxLength))
  /\ handler \in [Handlers -> Events \cup {Free, Render}]
  /\ pressed \in SUBSET {"y", "n"} /\ accepted \in BOOLEAN /\ stop \in BOOLEAN
  /\ status \in {"new", "shown", "crashed", "hung", "done"}

\* UI.Init: the list gets what the options leave of the window.
Init ==
  /\ \E h \in Heights, w \in Widths :
       textHeight = h - optionsListHeight - borderSize /\ textWidth = w - borderSize
  /\ items = {} /\ index = 0
  /\ handler = [g \in Handlers |-> Free]
  /\ pressed = {} /\ accepted = FALSE /\ stop = FALSE
  /\ status = "new"

-----------------------------------------------------------------------------
(* The scroller. *)

\* Variant: the step is the width of the text.
FullStep(width) == width

\* setText advances by this much and shows as much at a time.
Step(width)    == width - 2
Shown(width)   == width - 2
Wrapped(width) == {item \in Lines \X (0 .. MaxLength) :
                     item[2] < Text[item[1]] /\ item[2] % Step(width) = 0}

Empty == \A l \in Lines : Text[l] = 0

\* Variant: the position is kept.
Kept(i) == i

Reset(i) == 0

\* setText with a step of nothing appends for ever, until no memory is left;
\* with a step of less than nothing it slices out of range.
SetText(width) ==
  /\ index' = Reset(index)
  /\ \/ Empty /\ items' = {} /\ UNCHANGED status
     \/ ~Empty /\ Step(width) > 0 /\ items' = Wrapped(width) /\ UNCHANGED status
     \/ ~Empty /\ Step(width) = 0 /\ status' = "hung" /\ UNCHANGED items
     \/ ~Empty /\ Step(width) < 0 /\ status' = "crashed" /\ UNCHANGED items

Least(a, b) == IF a < b THEN a ELSE b
Size        == Cardinality(items)
MaxIndex    == IF Size < textHeight THEN 0 ELSE Size - textHeight

\* Buffer: the slice of the items that is shown.
First == index
Last  == index + Least(textHeight, Size)
InRange == 0 <= First /\ First <= Last /\ Last <= Size

ScrollDown == index' = IF index < MaxIndex THEN index + 1 ELSE index
ScrollUp   == index' = IF index > 0 THEN index - 1 ELSE index
PageDown   == index' = Least(index + textHeight, MaxIndex)
PageUp     == index' = IF index - textHeight < 0 THEN 0 ELSE index - textHeight
Home       == index' = 0
End        == index' = MaxIndex

Scroll(key) == \/ key = "down" /\ ScrollDown
               \/ key = "up" /\ ScrollUp
               \/ key = "next" /\ PageDown
               \/ key = "previous" /\ PageUp
               \/ key = "home" /\ Home
               \/ key = "end" /\ End

-----------------------------------------------------------------------------
(* ConfirmText. *)

Show == /\ status = "new"
        /\ IF Empty \/ Step(textWidth) > 0
           THEN /\ items' = (IF Empty THEN {} ELSE Wrapped(textWidth))
                /\ status' = IF textHeight < 0 THEN "crashed" ELSE "shown"
           ELSE /\ status' = IF Step(textWidth) = 0 THEN "hung" ELSE "crashed"
                /\ UNCHANGED items
        /\ UNCHANGED <<textHeight, textWidth, index, handler, answer>>

\* An event, for which termui starts a goroutine.
Event(g) == /\ status = "shown" /\ handler[g] = Free
            /\ \E e \in Events :
                 /\ handler' = [handler EXCEPT ![g] = e]
                 /\ pressed' = pressed \cup ({e.event} \cap {"y", "n"})
            /\ UNCHANGED <<scroller, accepted, stop, status>>

\* Variant: one handler for both answers.
DeclinesBoth(g) == handler[g].event \in {"y", "n"} /\ UNCHANGED accepted

Answers(g) == \/ handler[g].event = "y" /\ accepted' = TRUE
              \/ handler[g].event = "n" /\ UNCHANGED accepted

Answer(g) == /\ status = "shown"
             /\ Answers(g)
             /\ stop' = TRUE
             /\ handler' = [handler EXCEPT ![g] = Free]
             /\ UNCHANGED <<scroller, pressed, status>>

ScrollHandler(g) == /\ status = "shown"
                    /\ Scroll(handler[g].event)
                    /\ handler' = [handler EXCEPT ![g] = Render]
                    /\ UNCHANGED <<textHeight, textWidth, items, answer, status>>

ResizeHandler(g) == /\ status = "shown" /\ handler[g].event = "resize"
                    /\ textHeight' = handler[g].height - optionsListHeight - borderSize
                    /\ textWidth' = handler[g].width - borderSize
                    /\ SetText(textWidth')
                    /\ handler' = [handler EXCEPT ![g] = Render]
                    /\ UNCHANGED answer

RenderHandler(g) == /\ status = "shown" /\ handler[g] = Render
                    /\ status' = IF InRange THEN status ELSE "crashed"
                    /\ handler' = [handler EXCEPT ![g] = Free]
                    /\ UNCHANGED <<scroller, answer>>

LoopEnds == /\ status = "shown" /\ stop
            /\ status' = "done"
            /\ UNCHANGED <<scroller, handler, answer>>

Next == \/ Show \/ LoopEnds
        \/ \E g \in Handlers : \/ Event(g) \/ Answer(g) \/ ScrollHandler(g) \/ ResizeHandler(g)
                               \/ RenderHandler(g)

Spec == Init /\ [][Next]_vars
-----------------------------------------------------------------------------

TooSmall == textHeight < 0 \/ textWidth <= 2

\* However the handlers interleave, between the change of one and its render
\* others may scroll and resize, the items to show are there: the program is
\* stopped by an index out of range, or caught in setText, only in a window
\* with no room for the list.
InBounds == /\ textHeight >= 0 => 0 <= index /\ index <= Size
            /\ status \in {"crashed", "hung"} => TooSmall

\* The answer is one that was given: accepted only if y was pressed, declined
\* only if n was, whichever handler runs first when both were.
AnswerWasGiven == status = "done" => (IF accepted THEN "y" ELSE "n") \in pressed

\* Whatever the width, wrapping shows every character of every line, in one
\* item only, and each item with its blank fits between the borders.
WholeText ==
  status = "shown"
    => /\ \A l \in Lines : \A c \in 0 .. Text[l] - 1 :
            Cardinality({item \in items : /\ item[1] = l /\ item[2] <= c
                                          /\ c < item[2] + Shown(textWidth)}) = 1
       /\ items # {} => 1 + Shown(textWidth) <= textWidth
=============================================================================
