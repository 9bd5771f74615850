------------------------------ MODULE MCSources -----------------------------
(***************************************************************************)
(* Small sets of sources to run SourceMailbox on.                          *)
(***************************************************************************)
EXTENDS SourceMailbox, TLC

K(key, place) ==
  [key |-> key, places |-> {place}, fits |-> TRUE, accepted |-> TRUE]

(* Two keys on two places, of which firings touch one; a misfit for the    *)
(* source's policy; and an item that the net refuses.                      *)
MCKinds == {K("a", "p"), K("b", "q"), [K("a", "p") EXCEPT !.fits = FALSE],
            [K("b", "q") EXCEPT !.accepted = FALSE]}
PlainKinds == {K("a", "p"), K("b", "q")}

OneSource == {1}
Lossless == <<"lossless">>
Coalescing == <<"coalesce">>
Slots == <<1>>
Three == <<3>>
Two == <<2>>
MCTouches == "t" :> {"p"}
=============================================================================
