------------------------------ MODULE MCFreeSlots ------------------------------
(* FreeSlots from a Thursday or a Friday to the next week, by UTC.         *)
EXTENDS FreeSlots

At(d, h) == d * Day + h

\* UTC, five hours behind it, and ahead of it by eight and by five and a half.
MCZones == {0, -10, 16, 11}

\* Thursday 10:00, Friday 16:30.
MCNows == {At(3, 20), At(4, 33)}

\* Minus an hour, nothing, half an hour, one hour, three, nine and sixteen.
MCDurations == {-2, 0, 1, 2, 6, 18, 32}

\* Thursday 9:00-12:00, 11:00-14:30, 13:00-18:00; Friday 8:00-8:30, 8:00-17:00,
\* 17:00-17:30 and until Monday 10:00; Monday 9:00-18:00 and, of no length, 12:00.
MCPeriods ==
    {<<At(3, 18), At(3, 24)>>, <<At(3, 22), At(3, 29)>>, <<At(3, 26), At(3, 36)>>,
     <<At(4, 16), At(4, 17)>>, <<At(4, 16), At(4, 34)>>, <<At(4, 34), At(4, 35)>>,
     <<At(4, 30), At(7, 20)>>, <<At(7, 18), At(7, 36)>>, <<At(7, 24), At(7, 24)>>}

MCHorizons == {-1, 0, 1, 4}

=============================================================================
