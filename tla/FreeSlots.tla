------------------------------- MODULE FreeSlots -------------------------------
(***************************************************************************)
(* The search of CalendarService.FindSlot for up to five free slots among  *)
(* the busy periods that the calendars of the attendees report.            *)
(*                                                                         *)
(* Moments are counted in half hours from a Monday at midnight, UTC; what  *)
(* a clock shows is a moment plus the offset of its zone, which may be an  *)
(* odd number of half hours and does not change within the window.  The    *)
(* cursor carries the zone in which its hours are read: the machine's at   *)
(* first, and UTC, the zone of the answer, from the end of the first busy  *)
(* period it takes over.                                                   *)
(*                                                                         *)
(* The search begins when the answer is there: the request is the plan     *)
(* CalendarFindSlot of ServicePlans.  A duration may be zero or negative,  *)
(* the command takes any that parses, and so may be the number of days.    *)
(***************************************************************************)
EXTENDS Integers, Sequences, FiniteSets

CONSTANTS
    Zones,      \* offsets of the machine's zone from UTC
    Nows,       \* moments of the call
    Durations,
    Horizons,   \* days ahead
    Periods,    \* busy periods <<start, end>> ...
    MaxPeriods  \* ... and how many there may be

\* Moments and offsets are whole units of time.
ASSUME FreeSlotsAssumption ==
    /\ Zones \subseteq Int
    /\ Nows \subseteq Int /\ Durations \subseteq Int /\ Horizons \subseteq Int
    /\ Periods \subseteq Int \X Int

U   == 2       \* units of time in an hour
Day == 24 * U

\* Of what a clock shows.
Hour(w) == (w % Day) \div U

NineNextDay(w) == (w \div Day + 1) * Day + 9 * U

Weekend(w) == (w \div Day) % 7 \in {5, 6}

VARIABLES
    zone,      \* the machine's offset from UTC
    from,      \* the next full hour
    end,       \* of the window
    duration,
    busy,      \* the busy periods reported
    cursor,
    offset,    \* from UTC, of the clock by which the cursor's hours are read
    slots,     \* found so far, <<start, end>> each
    done

vars == <<zone, from, end, duration, busy, cursor, offset, slots, done>>

\* The full hour is one of UTC's: rounding is done on the moment.
Init ==
    /\ zone \in Zones /\ offset = zone
    /\ \E now \in Nows, days \in Horizons :
           /\ from = (now \div U + 1) * U
           /\ end = now + days * Day
    /\ duration \in Durations
    /\ busy \in {b \in SUBSET Periods : Cardinality(b) <= MaxPeriods}
    /\ cursor = from /\ slots = <<>> /\ done = FALSE

-----------------------------------------------------------------------------
SlotEnd == cursor + duration

\* What the clock shows at the cursor.
Wall == cursor + offset

Searching == ~done /\ cursor < end /\ Len(slots) < 5

OfficeHours(w) == 9 <= Hour(w) /\ Hour(w) < 18 /\ ~Weekend(w)

\* slotEnd.Hour() > 18: the hour alone, of whatever day.
TooLate == Hour(SlotEnd + offset) > 18

\* Seeded fault: only the beginning of the slot is looked at.
Overlaps_StartOnly(p) == p[1] <= cursor /\ cursor < p[2]

Overlaps(p) == cursor < p[2] /\ SlotEnd > p[1]

Keep == UNCHANGED <<zone, from, end, duration, busy>>

NextHour ==
    /\ Searching /\ ~OfficeHours(Wall)
    /\ cursor' = cursor + U
    /\ Keep /\ UNCHANGED <<offset, slots, done>>

NextMorning ==
    /\ Searching /\ OfficeHours(Wall) /\ TooLate
    /\ cursor' = NineNextDay(Wall) - offset
    /\ Keep /\ UNCHANGED <<offset, slots, done>>

\* Seeded faults: on with the hour after the period; on with its beginning.
SkipBusy_RoundsUp ==
    /\ Searching /\ OfficeHours(Wall) /\ ~TooLate
    /\ \E p \in busy : Overlaps(p) /\ cursor' = (p[2] \div U + 1) * U
    /\ offset' = 0
    /\ Keep /\ UNCHANGED <<slots, done>>

SkipBusy_ToItsStart ==
    /\ Searching /\ OfficeHours(Wall) /\ ~TooLate
    /\ \E p \in busy : Overlaps(p) /\ cursor' = p[1]
    /\ offset' = 0
    /\ Keep /\ UNCHANGED <<slots, done>>

\* The first overlapping period of the list, whose order is that of a map.
\* The request names no zone, so the period's end is a time in UTC.
SkipBusy ==
    /\ Searching /\ OfficeHours(Wall) /\ ~TooLate
    /\ \E p \in busy : Overlaps(p) /\ cursor' = p[2]
    /\ offset' = 0
    /\ Keep /\ UNCHANGED <<slots, done>>

Offer ==
    /\ Searching /\ OfficeHours(Wall) /\ ~TooLate
    /\ \A p \in busy : ~Overlaps(p)
    /\ slots' = Append(slots, <<cursor, SlotEnd>>)
    /\ cursor' = SlotEnd
    /\ Keep /\ UNCHANGED <<offset, done>>

ReturnSlots ==
    /\ ~done /\ ~Searching
    /\ done' = TRUE
    /\ Keep /\ UNCHANGED <<cursor, offset, slots>>

Next == NextHour \/ NextMorning \/ SkipBusy \/ Offer \/ ReturnSlots

Spec == Init /\ [][Next]_vars /\ WF_vars(Next)

-----------------------------------------------------------------------------
(* Properties                                                              *)

Offered == {slots[i] : i \in 1 .. Len(slots)}

\* No half hour of a slot is in a busy period of anybody, nor in the slot
\* offered before it, and it begins within the window.
SlotsAreFree ==
    /\ \A s \in Offered :
           /\ from <= s[1] \/ duration < 0
           /\ s[1] < end
           /\ \A t \in s[1] .. s[2] - 1 : ~\E p \in busy : p[1] <= t /\ t < p[2]
    /\ \A i, j \in 1 .. Len(slots) :
           i < j /\ duration > 0 => slots[i][2] <= slots[j][1]

\* When the zone, the busy periods and the duration are whole hours, the hours
\* missed are those of the change of clock and no others: a full hour that is
\* free and from which the meeting would fit into the office hours of a weekday
\* overlaps a slot that is offered.  Without busy periods the office hours are
\* the machine's; with some, an hour counts that is one by the machine's clock
\* and by UTC's, since from the first busy period on the search goes by UTC.
\* (Off the hour it keeps the minutes of the last busy period.)
OnTheHour ==
    /\ duration > 0 /\ duration % U = 0 /\ zone % U = 0
    /\ \A p \in busy : p[1] % U = 0 /\ p[2] % U = 0

FitsIntoTheDay(w) == OfficeHours(w) /\ (w % Day) + duration <= 18 * U

Clocks == IF busy = {} THEN {zone} ELSE {zone, 0}

NothingMissed ==
    done /\ Len(slots) < 5 /\ OnTheHour =>
        \A t \in {h * U : h \in from \div U .. (end - 1) \div U} :
            /\ \A o \in Clocks : FitsIntoTheDay(t + o)
            /\ \A p \in busy : t >= p[2] \/ t + duration <= p[1]
            => \E s \in Offered : t < s[2] /\ s[1] < t + duration

\* The search ends, whatever the duration and the busy periods.
SearchEnds == <>done

=============================================================================
