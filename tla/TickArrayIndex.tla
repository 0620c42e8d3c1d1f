--------------------------- MODULE TickArrayIndex ---------------------------
(***************************************************************************)
(* The TickIndexMapper: conversion between a global tick index and the     *)
(* (arrayIndex, offsetIndex) coordinate of the tick array holding it.      *)
(*                                                                         *)
(* The class TickArrayIndex (quotes/swap/tick-array-index.ts) is imported  *)
(* by tick-array-sequence.ts but is not part of the sources at hand, so    *)
(* these operators follow the spec (sections 3 and 4.1): floor division    *)
(* for negative tick indexes, never truncation toward zero.  TLC's \div    *)
(* is floor division and its % is non-negative for a positive divisor.     *)
(*                                                                         *)
(* The spec's InvalidTick failure for an index outside the global tick     *)
(* bounds is not modelled: the sequence's exhaustion result clamps to      *)
(* those bounds (section 4.2), which only makes sense if stepping past     *)
(* them does not throw.                                                    *)
(***************************************************************************)
EXTENDS Integers

CONSTANTS
    TickSpacing,      \* the pool's tick spacing
    TICK_ARRAY_SIZE   \* ticks per tick array (88 in the protocol)

ASSUME TickSpacing \in Nat \ {0}
ASSUME TICK_ARRAY_SIZE \in Nat \ {0}

\* Number of tick indexes covered by one tick array.
ArraySpan == TickSpacing * TICK_ARRAY_SIZE

\* TickArrayIndex.fromTickIndex: the coordinate of the initializable tick at
\* or below tickIndex.
FromTickIndex(tickIndex) ==
    [arrayIndex  |-> tickIndex \div ArraySpan,
     offsetIndex |-> (tickIndex \div TickSpacing) % TICK_ARRAY_SIZE]

\* TickArrayIndex.toTickIndex: the exact inverse on initializable ticks.
ToTickIndex(c) == c.arrayIndex * ArraySpan + c.offsetIndex * TickSpacing

\* One tick-spacing step up / down.
ToNextInitializableTickIndex(c) == FromTickIndex(ToTickIndex(c) + TickSpacing)
ToPrevInitializableTickIndex(c) == FromTickIndex(ToTickIndex(c) - TickSpacing)

\* The start tick index of the tick array with the given array index.
StartTickIndex(arrayIndex) == arrayIndex * ArraySpan

=============================================================================
