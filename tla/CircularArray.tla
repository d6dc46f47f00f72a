---------------------------- MODULE CircularArray ----------------------------
(***************************************************************************)
(* What a circular array stores: n items from slot f on, wrapping after the *)
(* last of the c slots of arr.  TS_Queue.c and the ring buffers of          *)
(* Vath_pth represent their contents in this way.                           *)
(***************************************************************************)
EXTENDS Integers

RingSlots(c) == 0 .. c - 1

\* arr has c slots that hold values of V.
IsArray(arr, c, V) == arr \in [RingSlots(c) -> V]

\* The i-th item, counted from the oldest.
RingItem(arr, c, f, i) == arr[(f + (i - 1)) % c]

Ring(arr, c, f, n) == [i \in 1 .. n |-> RingItem(arr, c, f, i)]
=============================================================================
